---------------------------- MODULE OrderNumbering ----------------------------
(***************************************************************************)
(* Placing an order: modules/orders/order.service.ts (placeOrder) and      *)
(* modules/orders/order-number.ts (allocateOrderNumber), over the pool of  *)
(* server/db/client.ts and the tenant client of server/db/tenant-client.ts.*)
(*                                                                         *)
(* placeOrder opens an interactive ("outer") transaction, locks the        *)
(* location's counter row with raw SQL on it, and then calls               *)
(* tx.order.create. That call is a model operation, so the tenant          *)
(* extension re-dispatches it through rawPrisma.$transaction: it runs, and *)
(* COMMITS, in an "inner" transaction on a second pooled connection, while *)
(* the counter update stays in the outer one. The model keeps the two      *)
(* apart, so that a timeout, a crash or an empty pool can fall between     *)
(* them.                                                                   *)
(*                                                                         *)
(* A request runs placeOrder once. `pc` is where it stands:                *)
(*   new        the call has not reached the server yet                    *)
(*   opening    validated, waiting for a connection for the outer          *)
(*   ensuring   outer open, about to INSERT ... ON CONFLICT DO NOTHING     *)
(*   locking    about to SELECT ... FOR UPDATE                             *)
(*   allocated  counter read and advanced, waiting for a second connection *)
(*   inserting  inner transaction open, about to insert the order          *)
(*   inserted   inner transaction committed                                *)
(*   committed  outer transaction committed                                *)
(*   done       order.created published, the diner has the track token     *)
(* and it ends in done or in one of Failures. A definition marked "mutant" *)
(* is a wrong variant of the next one; no behaviour uses it.               *)
(***************************************************************************)
EXTENDS Naturals, FiniteSets

CONSTANTS
    Req,            \* placeOrder calls
    Key,            \* counters: one per (locationId, businessDate)
    KeyOf,          \* the counter a call numbers its order from
    NoReq,          \* no transaction holds the counter row
    PoolSizes,      \* values DATABASE_CONNECTION_LIMIT is deployed with
    MaxFaults       \* bound: transactions lost and crashes per behaviour

ASSUME ReqFinite == IsFiniteSet(Req)
ASSUME KeyFinite == IsFiniteSet(Key)
ASSUME KeyOfType == KeyOf \in [Req -> Key]
ASSUME NoReqFresh == NoReq \notin Req
ASSUME PoolSizesType == PoolSizes \subseteq Nat \ {0}
ASSUME MaxFaultsType == MaxFaults \in Nat

VARIABLES
    poolSize,   \* connection_limit of this deployment, read once at start
    pc,         \* where each call stands
    open,       \* open[r]: r's outer transaction is open and holds a connection
    num,        \* the number allocateOrderNumber returned to r (0: none yet)
    counter,    \* committed order_counters.nextNumber (0: no row)
    lock,       \* the outer transaction holding the counter row
    orders,     \* committed rows of orders
    faults      \* lost transactions and crashes so far

vars == <<poolSize, pc, open, num, counter, lock, orders, faults>>

Failures == {"refused", "noConnection", "duplicateNumber", "rolledBack"}

Running == {"opening", "ensuring", "locking", "allocated", "inserting",
            "inserted", "committed"}

PC == {"new", "done"} \cup Running \cup Failures

Order == [key : Key, num : Nat \ {0}, req : Req]

\* The numbers carried by the stored orders of counter k.
Numbers(k) == {o.num : o \in {x \in orders : x.key = k}}

\* What SELECT "nextNumber" returns under the lock: the committed value, or
\* the 1 this very transaction has just inserted.
NextNumberIgnoringInsert(k) == counter[k]           \* mutant
NextNumber(k) == IF counter[k] = 0 THEN 1 ELSE counter[k]

\* FOR UPDATE grants the row when no other open transaction has it.
RowGrantedAlways(r) == TRUE                         \* mutant
RowGranted(r) == lock[KeyOf[r]] \in {NoReq, r}

\* UPDATE ... SET "nextNumber" = current + 1, as it stands once r's outer
\* transaction commits; a lost transaction leaves no trace.
CounterSkipping(r) ==                               \* mutant
    IF open[r] THEN [counter EXCEPT ![KeyOf[r]] = num[r] + 2] ELSE counter
CounterNotMoved(r) == counter                       \* mutant
CounterAfter(r) ==
    IF open[r] THEN [counter EXCEPT ![KeyOf[r]] = num[r] + 1] ELSE counter

\* @@unique([locationId, businessDate, orderNumber]) refuses r's order.
NeverRefused(r) == FALSE                            \* mutant
NumberTaken(r) == num[r] \in Numbers(KeyOf[r])

\* Connections checked out of the pool: one per open outer transaction and
\* one per inner transaction.
Busy == Cardinality({r \in Req : open[r]})
            + Cardinality({r \in Req : pc[r] = "inserting"})

PoolFullTooSoon == Busy + 1 >= poolSize             \* mutant
PoolFull == Busy >= poolSize

\* r's outer transaction ends, committed or rolled back: its connection goes
\* back to the pool and the counter row it had locked is free.
CloseOuterLeaking(r) ==                             \* mutant
    /\ lock' = [k \in Key |-> IF lock[k] = r THEN NoReq ELSE lock[k]]
    /\ UNCHANGED open
CloseOuterKeepingRow(r) ==                          \* mutant
    /\ open' = [open EXCEPT ![r] = FALSE]
    /\ UNCHANGED lock
CloseOuter(r) ==
    /\ open' = [open EXCEPT ![r] = FALSE]
    /\ lock' = [k \in Key |-> IF lock[k] = r THEN NoReq ELSE lock[k]]

-------------------------------------------------------------------------------

Init ==
    /\ poolSize \in PoolSizes
    /\ pc = [r \in Req |-> "new"]
    /\ open = [r \in Req |-> FALSE]
    /\ num = [r \in Req |-> 0]
    /\ counter = [k \in Key |-> 0]
    /\ lock = [k \in Key |-> NoReq]
    /\ orders = {}
    /\ faults = 0

\* Table, items and location are read, each in a transaction of its own that
\* has ended when the next starts. An unknown table, an unavailable item or a
\* missing option refuses the order; no free connection fails the read.
Validate(r) ==
    /\ pc[r] = "new"
    /\ \E next \in (IF PoolFull THEN {"noConnection"} ELSE {"opening", "refused"}) :
           pc' = [pc EXCEPT ![r] = next]
    /\ UNCHANGED <<poolSize, open, num, counter, lock, orders, faults>>

\* db.$transaction takes a connection and sets app.tenant_id on it.
OpenOuter(r) ==
    /\ pc[r] = "opening"
    /\ ~PoolFull
    /\ pc' = [pc EXCEPT ![r] = "ensuring"]
    /\ open' = [open EXCEPT ![r] = TRUE]
    /\ UNCHANGED <<poolSize, num, counter, lock, orders, faults>>

\* maxWait (15 s) passes with the pool full.
OpenTimeout(r) ==
    /\ pc[r] = "opening"
    /\ PoolFull
    /\ pc' = [pc EXCEPT ![r] = "noConnection"]
    /\ UNCHANGED <<poolSize, open, num, counter, lock, orders, faults>>

\* INSERT ... ON CONFLICT DO NOTHING. A committed row makes it a no-op; another
\* transaction's uncommitted row makes it wait; otherwise the row is ours, and
\* locked, until the outer transaction ends.
EnsureCounterRow(r) ==
    /\ pc[r] = "ensuring"
    /\ \/ /\ counter[KeyOf[r]] # 0
          /\ UNCHANGED lock
       \/ /\ counter[KeyOf[r]] = 0
          /\ lock[KeyOf[r]] = NoReq
          /\ lock' = [lock EXCEPT ![KeyOf[r]] = r]
    /\ pc' = [pc EXCEPT ![r] = "locking"]
    /\ UNCHANGED <<poolSize, open, num, counter, orders, faults>>

\* SELECT ... FOR UPDATE, then UPDATE nextNumber = current + 1 in the same
\* transaction: nobody sees the new value before Commit.
Allocate(r) ==
    /\ pc[r] = "locking"
    /\ RowGranted(r)
    /\ lock' = [lock EXCEPT ![KeyOf[r]] = r]
    /\ num' = [num EXCEPT ![r] = NextNumber(KeyOf[r])]
    /\ pc' = [pc EXCEPT ![r] = "allocated"]
    /\ UNCHANGED <<poolSize, open, counter, orders, faults>>

\* tx.order.create: the tenant extension opens a transaction of its own. It
\* does so whether or not the outer transaction is still open.
OpenInner(r) ==
    /\ pc[r] = "allocated"
    /\ ~PoolFull
    /\ pc' = [pc EXCEPT ![r] = "inserting"]
    /\ UNCHANGED <<poolSize, open, num, counter, lock, orders, faults>>

\* The inner transaction finds no connection within Prisma's default 2 s: the
\* create throws, the callback rejects and the outer transaction rolls back.
InnerTimeout(r) ==
    /\ pc[r] = "allocated"
    /\ PoolFull
    /\ pc' = [pc EXCEPT ![r] = "noConnection"]
    /\ CloseOuter(r)
    /\ UNCHANGED <<poolSize, num, counter, orders, faults>>

\* The insert runs and the inner transaction commits, or the unique index on
\* (locationId, businessDate, orderNumber) refuses it and everything rolls back.
InsertOrder(r) ==
    /\ pc[r] = "inserting"
    /\ \/ /\ ~NumberTaken(r)
          /\ orders' = orders \cup {[key |-> KeyOf[r], num |-> num[r], req |-> r]}
          /\ pc' = [pc EXCEPT ![r] = "inserted"]
          /\ UNCHANGED <<open, lock>>
       \/ /\ NumberTaken(r)
          /\ pc' = [pc EXCEPT ![r] = "duplicateNumber"]
          /\ CloseOuter(r)
          /\ UNCHANGED orders
    /\ UNCHANGED <<poolSize, num, counter, faults>>

\* The callback returns. An open outer transaction commits the new counter
\* value; one that was lost meanwhile cannot, and the call fails although its
\* order is stored.
Commit(r) ==
    /\ pc[r] = "inserted"
    /\ counter' = CounterAfter(r)
    /\ pc' = [pc EXCEPT ![r] = IF open[r] THEN "committed" ELSE "rolledBack"]
    /\ CloseOuter(r)
    /\ UNCHANGED <<poolSize, num, orders, faults>>

\* publish("order.created"), then the diner gets the track token.
Acknowledge(r) ==
    /\ pc[r] = "committed"
    /\ pc' = [pc EXCEPT ![r] = "done"]
    /\ UNCHANGED <<poolSize, open, num, counter, lock, orders, faults>>

-------------------------------------------------------------------------------
(* Faults, at most MaxFaults of them.                                      *)

\* The outer transaction is lost: its 20 s timeout expires or its connection
\* drops, and the database rolls it back. A call waiting for a statement of
\* that transaction fails there; one that is past its last statement carries
\* on, because tx.order.create does not use the outer connection.
LoseOuter(r) ==
    /\ open[r]
    /\ faults < MaxFaults
    /\ CloseOuter(r)
    /\ pc' = [pc EXCEPT ![r] = IF @ \in {"ensuring", "locking"} THEN "rolledBack" ELSE @]
    /\ faults' = faults + 1
    /\ UNCHANGED <<poolSize, num, counter, orders>>

\* The inner transaction fails (its 5 s timeout, its connection): the create
\* throws, nothing is stored and the outer transaction rolls back too.
LoseInner(r) ==
    /\ pc[r] = "inserting"
    /\ faults < MaxFaults
    /\ CloseOuter(r)
    /\ pc' = [pc EXCEPT ![r] = "rolledBack"]
    /\ faults' = faults + 1
    /\ UNCHANGED <<poolSize, num, counter, orders>>

\* The server process dies: every running call fails and every transaction
\* that has not committed rolls back.
Crash ==
    /\ faults < MaxFaults
    /\ \E r \in Req : pc[r] \in Running
    /\ pc' = [r \in Req |-> IF pc[r] \in Running THEN "rolledBack" ELSE pc[r]]
    /\ open' = [r \in Req |-> FALSE]
    /\ lock' = [k \in Key |-> NoReq]
    /\ faults' = faults + 1
    /\ UNCHANGED <<poolSize, num, counter, orders>>

\* Every call has been answered.
Finished ==
    /\ \A r \in Req : pc[r] \in {"done"} \cup Failures
    /\ UNCHANGED vars

-------------------------------------------------------------------------------

Step(r) ==
    \/ Validate(r) \/ OpenOuter(r) \/ OpenTimeout(r)
    \/ EnsureCounterRow(r) \/ Allocate(r)
    \/ OpenInner(r) \/ InnerTimeout(r) \/ InsertOrder(r)
    \/ Commit(r) \/ Acknowledge(r)

Next ==
    \/ \E r \in Req : Step(r) \/ LoseOuter(r) \/ LoseInner(r)
    \/ Crash
    \/ Finished

\* The event loop keeps every call moving and Prisma's timers fire; the row
\* lock is granted to some waiter whenever it is free. Arrivals are fair too,
\* which only says that the calls under consideration are made.
Fairness == \A r \in Req : WF_vars(Step(r))

Spec == Init /\ [][Next]_vars

FairSpec == Spec /\ Fairness

===============================================================================

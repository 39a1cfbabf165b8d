------------------------- MODULE OrderNumberingProps --------------------------
(***************************************************************************)
(* What placing orders must guarantee, stated over OrderNumbering.         *)
(***************************************************************************)
EXTENDS OrderNumbering

\* Every variable holds a value of its kind; order numbers start at 1.
TypeOK ==
    /\ poolSize \in PoolSizes
    /\ pc \in [Req -> PC]
    /\ open \in [Req -> BOOLEAN]
    /\ num \in [Req -> Nat]
    /\ counter \in [Key -> Nat]
    /\ lock \in [Key -> Req \cup {NoReq}]
    /\ orders \subseteq Order
    /\ faults \in 0..MaxFaults

\* The stored orders of a location and day are numbered 1, 2, 3, ... as they
\* are stored: none twice, none skipped, whatever times out, crashes or finds
\* the pool empty ("would let a crash burn a number or, worse, let a second
\* caller take the same one", order-number.ts:58-62).
Numbered == INSTANCE OrderNumbers WITH issued <- [k \in Key |-> Numbers(k)]

ImplementsOrderNumbers == Numbered!Spec

\* While the database loses no transaction, a number read from the counter is
\* free until the reader itself stores an order under it: the row lock is what
\* keeps the unique index from ever refusing an order.
NoDuplicateWithoutFault ==
    faults = 0 =>
        \A r \in Req :
            /\ pc[r] # "duplicateNumber"
            /\ pc[r] \in {"allocated", "inserting"} => num[r] \notin Numbers(KeyOf[r])

\* A diner who was given a track token has a stored order, and its number is
\* one the counter has moved past: the next caller cannot be handed it.
AcknowledgedIsDurable ==
    \A r \in Req : pc[r] \in {"committed", "done"} =>
        \E o \in orders : o.req = r /\ o.num < counter[o.key]

\* Connections that are enough: one for every call at once, and one more for
\* every counter, because the call that holds a counter's row needs a second
\* connection to insert its order.
AmplePool == Cardinality(Req) + Cardinality(Key) <= poolSize

\* The pool is never overdrawn, and an ample one fails no call for want of a
\* connection ("a handful of diners ordering at the same moment need a handful
\* of connections at once", client.ts:17-22).
AmplePoolSuffices ==
    /\ Busy <= poolSize
    /\ AmplePool => \A r \in Req : pc[r] # "noConnection"

\* An order stored under the number the counter will hand out next, with the
\* transaction that should have moved the counter gone.
Wedged(k) ==
    /\ NextNumber(k) \in Numbers(k)
    /\ \A r \in Req : KeyOf[r] = k /\ pc[r] = "inserted" => ~open[r]

\* A wedged counter stays wedged: from then on every order of that location
\* and day is refused by the unique index, since nothing but a committed
\* placement moves the counter.
WedgeIsPermanent == [][\A k \in Key : Wedged(k) => Wedged(k)']_vars

\* A call the database makes wait: for another's uncommitted counter row, or for the
\* row's lock. Every other wait has a timeout.
Waits(r) ==
    \/ pc[r] = "ensuring" /\ counter[KeyOf[r]] = 0 /\ lock[KeyOf[r]] # NoReq
    \/ pc[r] = "locking" /\ lock[KeyOf[r]] \notin {NoReq, r}

\* Nobody waits for a call that waits itself, nor for one that is over: the row is
\* held by a placement of the same location and day, whose transaction is open and
\* which can go on. So calls never wait for each other in a circle, and a timeout, a
\* refusal or a crash leaves no row locked behind it.
WaitsForNoWaiter ==
    \A r \in Req : Waits(r) =>
        LET holder == lock[KeyOf[r]] IN
        /\ holder \in Req \ {r} /\ KeyOf[holder] = KeyOf[r]
        /\ open[holder] /\ pc[holder] \in Running /\ ~Waits(holder)

\* Every call is answered: lock waits, pool waits and timeouts never leave one
\* hanging.
EveryCallAnswered == \A r \in Req : <>(pc[r] \in {"done"} \cup Failures)

\* With an ample pool and no transaction lost, every order that passed
\* validation is placed: "Failing there would lose a real order"
\* (order.service.ts:159-165).
ValidOrdersArePlaced ==
    \A r \in Req :
        (pc[r] = "opening" /\ AmplePool)
            ~> (pc[r] = "done" \/ faults > 0)

\* "One transaction: allocate the number, write the order" (order.service.ts:
\* 155-157): an order is never stored without the counter having moved past
\* its number, unless its placement is still under way.
OrderCommitsWithCounter ==
    \A o \in orders :
        \/ o.num < NextNumber(o.key)
        \/ pc[o.req] = "inserted" /\ open[o.req]

\* As far as the code keeps it: until a transaction is lost, an order has moved the
\* counter past its number or is about to, however calls queue, time out and are
\* refused a connection.
OrderCommitsUntilFault == faults = 0 => OrderCommitsWithCounter

===============================================================================

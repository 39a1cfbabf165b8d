---------------------------- MODULE OrderLifecycle ----------------------------
(***************************************************************************)
(* The life of a stored order: modules/orders/order.service.ts             *)
(* (transitionMyOrder, rejectMyOrder and the publication at the end of     *)
(* placeOrder) and modules/orders/order.repository.ts (transitionOrder).   *)
(*                                                                         *)
(* transitionMyOrder reads the order, refuses a finished one, updates the  *)
(* row, inserts an order event, reads the order again and publishes it.    *)
(* Each of those is a model operation and so a transaction of its own      *)
(* (server/db/tenant-client.ts): any other call, or a failure, may come    *)
(* between two of them. The payment module ends its writes with the last   *)
(* two steps (payment.service.ts: recordOutcome, refundPayment,            *)
(* recordCounterPayment); such a call is here a "notice".                  *)
(*                                                                         *)
(* `task[c].at` is where a call stands:                                    *)
(*   unused      not made yet                                              *)
(*   sent        on its way to the server                                  *)
(*   checked     read the order and found it unfinished                    *)
(*   updated     wrote the row's new status                                *)
(*   recorded    wrote the order event (a notice starts here)              *)
(*   reread      holds the payload to publish                              *)
(* and it ends in done, refused or failed. `feed` is every message the     *)
(* location's channel has carried, in order of publication; the diner's    *)
(* channel order:<token> gets the same payloads and has no subscriber.     *)
(* A definition marked "mutant" is a wrong variant of the next one.        *)
(***************************************************************************)
EXTENDS Naturals, Sequences

CONSTANTS
    Order,          \* the orders of one location
    Call,           \* staff calls and payment notices
    Target,         \* statuses staff ask for
    None,           \* a call not made yet is about no order; placing is no call's work
    MaxFailures     \* bound: statements that fail, or die with their server

ASSUME TargetType == Target \subseteq {"ACCEPTED", "READY", "COMPLETED", "REJECTED"}
ASSUME NoneFresh == None \notin Order \cup Call
ASSUME MaxFailuresType == MaxFailures \in Nat

VARIABLES
    row,        \* orders: status and the timestamps set so far
    trail,      \* order_events of each order, oldest first
    announced,  \* order.created of each order: "no", "owed", "sent" or "lost"
    task,       \* every call: where it stands, its order, target and payload
    feed,       \* messages published on the location's channel
    failures    \* failed statements so far

vars == <<row, trail, announced, task, feed, failures>>

\* The status of an order that is not stored yet.
Absent == "ABSENT"

OpenStatuses == {"PENDING", "ACCEPTED"}
Finished == {"COMPLETED", "REJECTED"}
Status == {"PENDING", "ACCEPTED", "READY", "COMPLETED", "REJECTED"}

\* What a notice asks for: no status at all.
Notice == "NOTICE"

Ended == {"done", "refused", "failed"}
At == {"unused", "sent", "checked", "updated", "recorded", "reread"} \cup Ended

Row == [status : Status \cup {Absent}, stamps : SUBSET Target]
Event == [status : Status, by : Call \cup {None}]
Task == [at : At, order : Order \cup {None}, to : Target \cup {Notice},
         payload : Status \cup {Absent}]
Message == [event : {"order.created", "order.updated"}, order : Order, status : Status]

\* transitionMyOrder's guard: only an order that is not finished moves.
MayMoveAlways(o) == row[o].status # Absent              \* mutant
MayMove(o) == row[o].status \notin Finished \cup {Absent}

\* db.order.update: the new status and its timestamp (a rejection's reason is
\* written with rejectedAt). Earlier timestamps stay.
Moved(r, to) == [status |-> to, stamps |-> r.stamps \cup {to}]

\* serializeOrder of the row as getOrder finds it.
SerializedNothing(c) == task[c].payload                 \* mutant
SerializedBefore(c) == "PENDING"                        \* mutant
Serialized(c) == row[task[c].order].status

\* db.orderEvent.create, one more event of the order.
RecordedNothing(c) == trail[task[c].order]              \* mutant
RecordedTwice(c) ==                                     \* mutant
    trail[task[c].order] \o <<[status |-> task[c].to, by |-> c],
                              [status |-> task[c].to, by |-> c]>>
Recorded(c) == Append(trail[task[c].order], [status |-> task[c].to, by |-> c])

Advance(c, at) == task' = [task EXCEPT ![c].at = at]

-------------------------------------------------------------------------------

Init ==
    /\ row = [o \in Order |-> [status |-> Absent, stamps |-> {}]]
    /\ trail = [o \in Order |-> <<>>]
    /\ announced = [o \in Order |-> "no"]
    /\ task = [c \in Call |-> [at |-> "unused", order |-> None,
                               to |-> Notice, payload |-> Absent]]
    /\ feed = <<>>
    /\ failures = 0

\* The order is stored with its first event, in one statement; its
\* publication comes later.
Place(o) ==
    /\ row[o].status = Absent
    /\ row' = [row EXCEPT ![o].status = "PENDING"]
    /\ trail' = [trail EXCEPT ![o] = <<[status |-> "PENDING", by |-> None]>>]
    /\ announced' = [announced EXCEPT ![o] = "owed"]
    /\ UNCHANGED <<task, feed, failures>>

\* publish("order.created") carries the order as it was inserted, whatever has
\* happened to it since.
Announce(o) ==
    /\ announced[o] = "owed"
    /\ announced' = [announced EXCEPT ![o] = "sent"]
    /\ feed' = Append(feed, [event |-> "order.created", order |-> o, status |-> "PENDING"])
    /\ UNCHANGED <<row, trail, task, failures>>

\* Staff tap a button for an order they see: the call leaves their device.
Request(c, o, to) ==
    /\ task[c].at = "unused"
    /\ row[o].status # Absent
    /\ task' = [task EXCEPT ![c] = [at |-> "sent", order |-> o, to |-> to, payload |-> Absent]]
    /\ UNCHANGED <<row, trail, announced, feed, failures>>

\* A payment of the order was recorded: all that is left is to tell the boards.
StartNotice(c, o) ==
    /\ task[c].at = "unused"
    /\ row[o].status # Absent
    /\ task' = [task EXCEPT ![c] = [at |-> "recorded", order |-> o, to |-> Notice,
                                    payload |-> Absent]]
    /\ UNCHANGED <<row, trail, announced, feed, failures>>

\* getOrder, and the refusal of a finished order.
Check(c) ==
    /\ task[c].at = "sent"
    /\ Advance(c, IF MayMove(task[c].order) THEN "checked" ELSE "refused")
    /\ UNCHANGED <<row, trail, announced, feed, failures>>

\* db.order.update by id: it does not look at the status again.
UpdateRow(c) ==
    /\ task[c].at = "checked"
    /\ row' = [row EXCEPT ![task[c].order] = Moved(@, task[c].to)]
    /\ Advance(c, "updated")
    /\ UNCHANGED <<trail, announced, feed, failures>>

\* db.orderEvent.create, in a transaction of its own.
RecordEvent(c) ==
    /\ task[c].at = "updated"
    /\ trail' = [trail EXCEPT ![task[c].order] = Recorded(c)]
    /\ Advance(c, "recorded")
    /\ UNCHANGED <<row, announced, feed, failures>>

\* The second getOrder, whose result is what gets published.
Reread(c) ==
    /\ task[c].at = "recorded"
    /\ task' = [task EXCEPT ![c].at = "reread", ![c].payload = Serialized(c)]
    /\ UNCHANGED <<row, trail, announced, feed, failures>>

\* publish("order.updated") to the location's channel.
Publish(c) ==
    /\ task[c].at = "reread"
    /\ feed' = Append(feed, [event |-> "order.updated", order |-> task[c].order,
                             status |-> task[c].payload])
    /\ Advance(c, "done")
    /\ UNCHANGED <<row, trail, announced, failures>>

\* A statement of the call fails (no connection, a timeout) or its server
\* dies: the call ends where it stands and undoes nothing.
Fail(c) ==
    /\ task[c].at \notin {"unused"} \cup Ended
    /\ failures < MaxFailures
    /\ Advance(c, "failed")
    /\ failures' = failures + 1
    /\ UNCHANGED <<row, trail, announced, feed>>

\* The server dies between storing an order and publishing it.
LoseAnnouncement(o) ==
    /\ announced[o] = "owed"
    /\ failures < MaxFailures
    /\ announced' = [announced EXCEPT ![o] = "lost"]
    /\ failures' = failures + 1
    /\ UNCHANGED <<row, trail, task, feed>>

-------------------------------------------------------------------------------

\* The server's own steps.
Serve(c) == Check(c) \/ UpdateRow(c) \/ RecordEvent(c) \/ Reread(c) \/ Publish(c)

\* Every order is placed and announced and every call has ended.
Quiet ==
    /\ \A o \in Order : announced[o] \in {"sent", "lost"}
    /\ \A c \in Call : task[c].at \in Ended

Finish == Quiet /\ UNCHANGED vars

Next ==
    \/ \E o \in Order : Place(o) \/ Announce(o) \/ LoseAnnouncement(o)
    \/ \E c \in Call, o \in Order : StartNotice(c, o) \/ \E to \in Target : Request(c, o, to)
    \/ \E c \in Call : Serve(c) \/ Fail(c)
    \/ Finish

Spec == Init /\ [][Next]_vars

===============================================================================

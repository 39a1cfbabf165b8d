------------------------------- MODULE LiveBoards ------------------------------
(***************************************************************************)
(* The order boards: lib/use-live-orders.ts on the owner's board, the      *)
(* kitchen display and the floor view, fed by the SSE routes over          *)
(* server/realtime/bus.ts and by the resync routes (listOpenOrders).       *)
(*                                                                         *)
(* A board opens on a snapshot rendered by the server and keeps three      *)
(* sources: the stream, which delivers what the location's channel (`feed` *)
(* of OrderLifecycle) carries while it is up; full resyncs of the open     *)
(* orders, on every connection and every 30 s, each of which reads the     *)
(* database at one moment and is applied at a later one; and its own       *)
(* optimistic updates, taken back when the call fails. A server instance   *)
(* hands its own messages to its streams at once and the others' when      *)
(* Redis brings them, so a board may get messages in another order than    *)
(* they were published in. Orders move as in OrderLifecycle, by taps on a  *)
(* board or on devices outside Board.                                      *)
(*                                                                         *)
(* A definition marked "mutant" is a wrong variant of the next one.        *)
(***************************************************************************)
EXTENDS OrderLifecycle, FiniteSets

CONSTANTS
    Board,          \* open pages running useLiveOrders
    Pages,          \* the kinds of page they may be
    AtTable,        \* the orders of a table; the others are taken away or delivered
    Remote,         \* calls made elsewhere: payment notices, other devices
    Window,         \* the orders a page or a resync takes, oldest first: 200
    Earlier,        \* how many orders were there before all of Order
    MaxFetches,     \* bound: resyncs of a board under way at once
    MaxDrops        \* bound: dropped streams and messages lost on the bus

ASSUME PagesType == Pages \subseteq {"owner", "ownerAll", "kitchen", "floor"}
ASSUME AtTableType == AtTable \subseteq Order
ASSUME RemoteType == Remote \subseteq Call
ASSUME WindowType == Window \in Nat \ {0}
ASSUME EarlierType == Earlier \in Nat
ASSUME MaxFetchesType == MaxFetches \in Nat
ASSUME MaxDropsType == MaxDrops \in Nat

VARIABLES
    before,     \* before[o]: the orders that were there when o was placed
    backlog,    \* how many of the Earlier ones are still open
    page,       \* page[b]: the kind of page ("ownerAll": "hide done" switched off)
    asking,     \* the order whose reject dialog is up on the page, or None
    open,       \* the pages that are open
    screen,     \* screen[b][o]: the status b shows for o (Absent: not listed)
    seen,       \* seenIds of each board
    chimes,     \* chimes[b][o]: how often b announced o
    loaded,     \* history: the orders of b's first render
    told,       \* history: the orders b got an order.updated of
    live,       \* the boards whose stream is up
    past,       \* past[b]: messages of the feed b got, missed or came too late for
    fetch,      \* fetch[b][i]: the snapshot of a resync under way
    tap,        \* tap[c]: the board that made call c, and the status it showed
    drops       \* dropped streams and lost messages so far

queue == <<before, backlog>>
boardVars == <<queue, page, asking, open, screen, seen, chimes, loaded, told, live, past, fetch,
               tap, drops>>

Slot == 1..MaxFetches
Snapshot == [Order -> OpenStatuses \cup {Absent}]
NoSnapshot == <<>>
NoTap == [board |-> None, was |-> Absent]

Placed == {o \in Order : row[o].status # Absent}
Open == {o \in Order : row[o].status \in OpenStatuses}

\* The open orders that are not behind Window older ones.
InWindow == {o \in Open : backlog + Cardinality(before[o] \cap Open) < Window}

\* listOpenOrders, serialized: open orders, oldest first, as many as fit.
OpenOrdersAll == [o \in Order |-> row[o].status]            \* mutant
OpenOrders == [o \in Order |-> IF o \in InWindow THEN row[o].status ELSE Absent]

\* listOrders, as the owner's page calls it: the same of all orders ever.
FirstOrders ==
    [o \in Order |-> IF o \in Placed /\ Earlier + Cardinality(before[o]) < Window
                     THEN row[o].status ELSE Absent]

Rendered(b) == IF page[b] \in {"owner", "ownerAll"} THEN FirstOrders ELSE OpenOrders

Listed(s) == {o \in Order : s[o] # Absent}

\* resync: orders of the snapshot as it has them; of the others, those on
\* screen that are not PENDING stay.
MergedKeeping(current, fresh) ==                            \* mutant
    [o \in Order |-> IF current[o] # Absent THEN current[o] ELSE fresh[o]]
Merged(current, fresh) ==
    [o \in Order |-> IF fresh[o] # Absent THEN fresh[o]
                     ELSE IF current[o] = "PENDING" THEN Absent ELSE current[o]]

\* seenIds after the orders of a snapshot.
SeenAfterForgetting(b, fresh) == seen[b]                    \* mutant
SeenAfter(b, fresh) == seen[b] \cup Listed(fresh)

\* Only order.created and a resync sound the alert, and only for a new id.
AnnouncesNothing(b, m) == {}                                \* mutant
Announces(b, m) == IF m.event = "order.created" THEN {m.order} \ seen[b] ELSE {}

Chimed(b, new) ==
    chimes' = [chimes EXCEPT ![b] = [o \in Order |-> IF o \in new THEN @[o] + 1 ELSE @[o]]]

\* The statuses each page shows a card for. The owner's type tabs and the
\* kitchen's only narrow this further and are left out.
BoardVisible(b) == IF page[b] = "owner" THEN OpenStatuses ELSE Status
KitchenQueue == {"PENDING", "ACCEPTED"}
FloorTiles == Status \ Finished

Visible(b) ==
    CASE page[b] = "kitchen" -> KitchenQueue
      [] page[b] = "floor" -> FloorTiles
      [] OTHER -> BoardVisible(b)

\* The buttons on the card of an order in this status, but for "Reject".
CardOffers(status) ==
    CASE status = "PENDING" -> {"ACCEPTED", "READY"}
      [] status = "ACCEPTED" -> {"READY"}
      [] status = "READY" -> {"COMPLETED"}
      [] OTHER -> {}
TicketOffers(status) == {"READY"} \cup {to \in {"ACCEPTED"} : status = "PENDING"}
TileOffers(status) == {to \in {"COMPLETED"} : status = "READY"}          \* "Served"
CounterOffers(status) == {to \in {"COMPLETED"} : status = "READY"}       \* "Handed over"

Offered(b, o) ==
    IF screen[b][o] \notin Visible(b) THEN {}
    ELSE CASE page[b] = "kitchen" -> TicketOffers(screen[b][o])
           [] page[b] = "floor" /\ o \in AtTable -> TileOffers(screen[b][o])
           [] page[b] = "floor" /\ o \notin AtTable -> CounterOffers(screen[b][o])
           [] OTHER -> CardOffers(screen[b][o])

\* Page b shows s from now on. A card that is no longer shown is unmounted, and
\* its dialog with it.
Show(b, s) ==
    /\ screen' = [screen EXCEPT ![b] = s]
    /\ asking' = [asking EXCEPT ![b] = IF @ # None /\ s[@] \in Visible(b) THEN @ ELSE None]

-------------------------------------------------------------------------------

BoardInit ==
    /\ before = [o \in Order |-> {}]
    /\ backlog = Earlier
    /\ page \in [Board -> Pages]
    /\ asking = [b \in Board |-> None]
    /\ open = {}
    /\ screen = [b \in Board |-> [o \in Order |-> Absent]]
    /\ seen = [b \in Board |-> {}]
    /\ chimes = [b \in Board |-> [o \in Order |-> 0]]
    /\ loaded = [b \in Board |-> {}]
    /\ told = [b \in Board |-> {}]
    /\ live = {}
    /\ past = [b \in Board |-> {}]
    /\ fetch = [b \in Board |-> [i \in Slot |-> NoSnapshot]]
    /\ tap = [c \in Call |-> NoTap]
    /\ drops = 0

\* The page is rendered on the server; the orders on it count as seen.
OpenPage(b) ==
    /\ b \notin open
    /\ open' = open \cup {b}
    /\ Show(b, Rendered(b))
    /\ seen' = [seen EXCEPT ![b] = Listed(Rendered(b))]
    /\ loaded' = [loaded EXCEPT ![b] = Listed(Rendered(b))]
    /\ UNCHANGED <<vars, queue, page, chimes, told, live, past, fetch, tap, drops>>

\* EventSource connects, for the first time or again. The route subscribes
\* then: what was published before is not replayed.
Connect(b) ==
    /\ b \in open \ live
    /\ live' = live \cup {b}
    /\ past' = [past EXCEPT ![b] = DOMAIN feed]
    /\ UNCHANGED <<vars, queue, page, asking, open, screen, seen, chimes, loaded, told, fetch, tap, drops>>

\* A message of the stream is applied (handleCreated, handleUpdated).
Deliver(b) ==
    /\ b \in live
    /\ \E i \in DOMAIN feed \ past[b] :
           /\ Show(b, [screen[b] EXCEPT ![feed[i].order] = feed[i].status])
           /\ seen' = [seen EXCEPT ![b] = @ \cup {feed[i].order}]
           /\ Chimed(b, Announces(b, feed[i]))
           /\ told' = IF feed[i].event = "order.created" THEN told
                      ELSE [told EXCEPT ![b] = @ \cup {feed[i].order}]
           /\ past' = [past EXCEPT ![b] = @ \cup {i}]
    /\ UNCHANGED <<vars, queue, page, open, loaded, live, fetch, tap, drops>>

\* The message was published on another instance while Redis was away.
Miss(b) ==
    /\ b \in live
    /\ drops < MaxDrops
    /\ \E i \in DOMAIN feed \ past[b] : past' = [past EXCEPT ![b] = @ \cup {i}]
    /\ drops' = drops + 1
    /\ UNCHANGED <<vars, queue, page, asking, open, screen, seen, chimes, loaded, told, live, fetch, tap>>

\* The stream drops, with whatever was in the pipe.
Drop(b) ==
    /\ b \in live
    /\ drops < MaxDrops
    /\ live' = live \ {b}
    /\ drops' = drops + 1
    /\ UNCHANGED <<vars, queue, page, asking, open, screen, seen, chimes, loaded, told, past, fetch, tap>>

\* A resync reads the database: on "ready" and by the timer, whether or not
\* the stream is up.
Read(b, i) ==
    /\ b \in open
    /\ fetch[b][i] = NoSnapshot
    /\ fetch' = [fetch EXCEPT ![b][i] = OpenOrders]
    /\ UNCHANGED <<vars, queue, page, asking, open, screen, seen, chimes, loaded, told, live, past, tap, drops>>

\* Its response is applied, and the orders it is the first to show announced.
Resync(b, i) ==
    /\ fetch[b][i] # NoSnapshot
    /\ Show(b, Merged(screen[b], fetch[b][i]))
    /\ seen' = [seen EXCEPT ![b] = SeenAfter(b, fetch[b][i])]
    /\ Chimed(b, Listed(fetch[b][i]) \ seen[b])
    /\ fetch' = [fetch EXCEPT ![b][i] = NoSnapshot]
    /\ UNCHANGED <<vars, queue, page, open, loaded, told, live, past, tap, drops>>

\* "Reject" opens a dialog over the page, which asks for a reason (bound: only
\* while a call is left to confirm it with).
OpenDialog(b, o) ==
    /\ screen[b][o] \in OpenStatuses \cap Visible(b)
    /\ page[b] # "floor"
    /\ asking[b] = None
    /\ \E c \in Call \ Remote : task[c].at = "unused"
    /\ asking' = [asking EXCEPT ![b] = o]
    /\ UNCHANGED <<vars, queue, page, open, screen, seen, chimes, loaded, told, live, past, fetch, tap, drops>>

\* "Keep order", the cross, Escape or a click outside.
CloseDialog(b) ==
    /\ asking[b] # None
    /\ asking' = [asking EXCEPT ![b] = None]
    /\ UNCHANGED <<vars, queue, page, open, screen, seen, chimes, loaded, told, live, past, fetch, tap, drops>>

\* run: the card shows the new status at once, no dialog is up any more and the
\* call leaves. What the card showed is kept for the case that it fails.
Run(b, c, o, to) ==
    /\ to \in Target
    /\ Request(c, o, to)
    /\ screen' = [screen EXCEPT ![b][o] = to]
    /\ asking' = [asking EXCEPT ![b] = None]
    /\ tap' = [tap EXCEPT ![c] = [board |-> b, was |-> screen[b][o]]]
    /\ UNCHANGED <<queue, page, open, seen, chimes, loaded, told, live, past, fetch, drops>>

\* Staff press a button of a card, which no dialog covers.
Tap(b, c, o, to) ==
    /\ asking[b] = None
    /\ to \in Offered(b, o)
    /\ Run(b, c, o, to)

\* They confirm the dialog, whatever the order has become meanwhile, as long as
\* its card is there.
Reject(b, c, o) == asking[b] = o /\ Run(b, c, o, "REJECTED")

\* The call came back with an error: the card is set to what it showed when the
\* button was pressed, if it is still listed.
Revert(c) ==
    /\ task[c].at \in {"refused", "failed"} /\ tap[c] # NoTap
    /\ LET b == tap[c].board  o == task[c].order IN
           Show(b, [screen[b] EXCEPT ![o] = IF @ = Absent THEN Absent ELSE tap[c].was])
    /\ tap' = [tap EXCEPT ![c] = NoTap]
    /\ UNCHANGED <<vars, queue, page, open, seen, chimes, loaded, told, live, past, fetch, drops>>

-------------------------------------------------------------------------------

\* An order takes its place behind those that are there.
Arrive(o) ==
    /\ Place(o)
    /\ before' = [before EXCEPT ![o] = Placed]
    /\ UNCHANGED <<backlog, page, asking, open, screen, seen, chimes, loaded, told, live, past,
                   fetch, tap, drops>>

\* One of the earlier orders is settled.
SettleEarlier ==
    /\ backlog > 0
    /\ backlog' = backlog - 1
    /\ UNCHANGED <<vars, before, page, asking, open, screen, seen, chimes, loaded, told, live, past,
                   fetch, tap, drops>>

\* Everything happens on the server, or on devices that are not in Board.
Elsewhere ==
    /\ \/ \E o \in Order : Announce(o) \/ LoseAnnouncement(o)
       \/ \E c \in Remote, o \in Order : StartNotice(c, o) \/ \E to \in Target : Request(c, o, to)
       \/ \E c \in Call : Serve(c) \/ Fail(c)
    /\ UNCHANGED boardVars

BoardStep(b) ==
    \/ OpenPage(b) \/ Connect(b) \/ Deliver(b) \/ Miss(b) \/ Drop(b)
    \/ \E i \in Slot : Read(b, i) \/ Resync(b, i)
    \/ CloseDialog(b)
    \/ \E o \in Order : OpenDialog(b, o)
    \/ \E c \in Call \ Remote, o \in Order : Reject(b, c, o) \/ \E to \in Target : Tap(b, c, o, to)

LiveNext ==
    \/ Elsewhere
    \/ SettleEarlier
    \/ \E o \in Order : Arrive(o)
    \/ \E b \in Board : BoardStep(b)
    \/ \E c \in Call \ Remote : Revert(c)

liveVars == <<vars, boardVars>>

\* The server carries on what it began, the page that made a call takes its
\* answer, open pages reconnect and apply what reaches them, and their timer and
\* its requests go on.
LiveFairness ==
    /\ \A o \in Order : WF_liveVars(Announce(o) /\ UNCHANGED boardVars)
    /\ \A c \in Call : WF_liveVars((Serve(c) /\ UNCHANGED boardVars) \/ Revert(c))
    /\ \A b \in Board :
           /\ WF_liveVars(Connect(b) \/ Deliver(b))
           /\ \A i \in Slot : WF_liveVars(Read(b, i) \/ Resync(b, i))

LiveInit == Init /\ BoardInit

LiveSpec == LiveInit /\ [][LiveNext]_liveVars /\ LiveFairness

===============================================================================

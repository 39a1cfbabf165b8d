---------------------------- MODULE LiveBoardsProps ----------------------------
(***************************************************************************)
(* What the boards must show and announce.                                 *)
(***************************************************************************)
EXTENDS LiveBoards

\* Every board variable holds a value of its kind; a listed order was seen.
BoardTypeOK ==
    /\ before \in [Order -> SUBSET Order]
    /\ backlog \in 0..Earlier
    /\ page \in [Board -> Pages] /\ asking \in [Board -> Order \cup {None}]
    /\ open \subseteq Board /\ live \subseteq open
    /\ screen \in [Board -> [Order -> Status \cup {Absent}]]
    /\ seen \in [Board -> SUBSET Order] /\ loaded \in [Board -> SUBSET Order]
    /\ told \in [Board -> SUBSET Order]
    /\ chimes \in [Board -> [Order -> Nat]]
    /\ \A b \in Board : past[b] \subseteq DOMAIN feed
    /\ \A b \in Board, i \in Slot : fetch[b][i] \in {NoSnapshot} \cup Snapshot
    /\ \A c \in Call : tap[c] = NoTap \/ tap[c].board \in open
    /\ drops \in 0..MaxDrops
    /\ \A b \in Board : Listed(screen[b]) \subseteq seen[b]

\* "A re-sync returning an order the stream already delivered does not sound
\* the alert twice" (use-live-orders.ts:44-45), and nothing else silences it: whatever
\* the stream, the resyncs and lost messages do, an order a page has seen was on it
\* when it opened, or was announced there once, or the page got an order.updated of
\* it. That last one is the page's fault: an update that overtakes order.created
\* counts the order as seen and says nothing (applyOrder, use-live-orders.ts:55-57).
SeenIsAnnouncedOnce ==
    \A b \in Board, o \in Order :
        /\ chimes[b][o] = 0 \/ (chimes[b][o] = 1 /\ o \in seen[b] \ loaded[b])
        /\ o \in seen[b] => chimes[b][o] = 1 \/ o \in loaded[b] \/ o \in told[b]

\* "A silently missed order is the one failure a restaurant cannot absorb"
\* (app/api/admin/orders/route.ts:12-13): through dropped streams, lost messages and
\* a lost order.created, an order that nobody moves is announced on every open page,
\* or was on it when it opened, or came to it as an update, once it is among the
\* Window oldest open ones. The orders behind those are in no resync.
NewOrdersChime ==
    \A b \in Board, o \in Order :
        (b \in open /\ o \in InWindow) ~>
            \/ chimes[b][o] = 1
            \/ o \in loaded[b] \cup told[b]
            \/ row[o].status # "PENDING"

\* Open orders converge, and so does a card that asks for attention: in the end
\* an open page shows every open order in its true status, if it is among the Window
\* oldest, and shows nothing as PENDING that is not ("replace open ones wholesale so
\* a status changed on another device converges here too", use-live-orders.ts:74-76).
OpenOrdersConverge ==
    \A b \in Board, o \in Order :
        <>[](b \in open /\ (o \in InWindow \/ screen[b][o] = "PENDING")
                 => screen[b][o] = row[o].status)

\* "A status changed on another device converges here too" (use-live-orders.ts:
\* 74-76), read of every order on the screen: in the end it is the true one.
ScreensConverge ==
    \A b \in Board, o \in Order :
        <>[](screen[b][o] # Absent => screen[b][o] = row[o].status)

===============================================================================

--------------------------- MODULE LiveBoardsProofs ----------------------------
(***************************************************************************)
(* Boards keep their types and announce what they see once, for any        *)
(* boards, orders, calls, messages and losses; and all they do to orders,  *)
(* OrderLifecycle allows, so its theorems hold beneath them.               *)
(***************************************************************************)
EXTENDS LiveBoardsProps, OrderLifecycleProofs

-------------------------------------------------------------------------------
(* Boards move orders as OrderLifecycle does                                   *)

LEMMA Beneath ==
    [LiveNext]_liveVars => [Next]_vars
<1>1. UNCHANGED liveVars => UNCHANGED vars
    BY DEF liveVars, vars
<1>2. Elsewhere => Next
    BY RemoteType DEF Elsewhere, Next
<1>3. ASSUME NEW b \in Board, BoardStep(b) PROVE Next \/ UNCHANGED vars
  <2>1. ASSUME NEW c \in Call, NEW o \in Order, NEW to, Run(b, c, o, to) PROVE Next
      BY <2>1 DEF Run, Next
  <2>2. CASE \E c \in Call \ Remote, o \in Order : Reject(b, c, o) \/ \E to \in Target : Tap(b, c, o, to)
      BY <2>1, <2>2 DEF Reject, Tap
  <2>3. CASE ~\E c \in Call \ Remote, o \in Order :
                 Reject(b, c, o) \/ \E to \in Target : Tap(b, c, o, to)
      BY <1>3, <2>3 DEF BoardStep, OpenPage, Connect, Deliver, Miss, Drop, Read, Resync,
         CloseDialog, OpenDialog
  <2>4. QED
      BY <2>2, <2>3
<1>4. ASSUME NEW c \in Call, Revert(c) PROVE UNCHANGED vars
    BY <1>4 DEF Revert
<1>5. SettleEarlier => UNCHANGED vars
    BY DEF SettleEarlier
<1>6. ASSUME NEW o \in Order, Arrive(o) PROVE Next
    BY <1>6 DEF Arrive, Next
<1>7. QED
    BY <1>1, <1>2, <1>3, <1>4, <1>5, <1>6 DEF LiveNext

\* Whatever pages show and staff press, an order moves as the service moves it:
\* the boards over the channel implement OrderLifecycle (use-live-orders.ts,
\* transitionMyOrder).
THEOREM BoardsKeepLifecycle ==
    LiveSpec => Spec
<1>1. LiveInit => Init
    BY DEF LiveInit
<1>2. QED
    BY <1>1, Beneath, PTL DEF LiveSpec, Spec

-------------------------------------------------------------------------------
(* Types                                                                       *)

\* What an announcement and a closed page leave true.
Announced ==
    /\ \A b \in Board, o \in Order : chimes[b][o] \in {0, 1}
    /\ \A b \in Board, o \in Order : chimes[b][o] = 1 => o \in seen[b]
    /\ \A b \in Board \ open : \A o \in Order : chimes[b][o] = 0
    /\ \A b \in Board \ open : fetch[b] = [i \in Slot |-> NoSnapshot]

\* A closed page lists nothing, and a dialog is up over a listed card only.
CardsOK ==
    /\ \A b \in Board \ open : \A o \in Order : screen[b][o] = Absent
    /\ \A b \in Board : asking[b] # None => screen[b][asking[b]] # Absent

FetchType == fetch \in [Board -> [Slot -> {NoSnapshot} \cup Snapshot]]
PastType == past \in [Board -> SUBSET Nat]
TapType == tap \in [Call -> [board : Board \cup {None}, was : Status \cup {Absent}]]

LiveInv ==
    TypeOK /\ BoardTypeOK /\ FetchType /\ PastType /\ TapType /\ Announced /\ CardsOK

LEMMA OpenOrdersType ==
    ASSUME TypeOK
    PROVE  OpenOrders \in Snapshot /\ OpenOrders \in [Order -> Status \cup {Absent}]
BY DEF OpenOrders, InWindow, Open, Snapshot, OpenStatuses, Status

LEMMA RenderedType ==
    ASSUME TypeOK, NEW b \in Board
    PROVE  Rendered(b) \in [Order -> Status \cup {Absent}]
<1>1. \A o \in Order : row[o].status \in Status \cup {Absent}
    BY DEF TypeOK, Row
<1>2. FirstOrders \in [Order -> Status \cup {Absent}]
    BY <1>1 DEF FirstOrders
<1>3. QED
    BY <1>2, OpenOrdersType DEF Rendered

LEMMA LiveInitInv ==
    LiveInit => LiveInv
<1> SUFFICES ASSUME LiveInit PROVE LiveInv
    OBVIOUS
<1>1. TypeOK
    BY InitType DEF LiveInit
<1>2. FetchType /\ PastType /\ TapType /\ Announced /\ CardsOK
    BY DEF LiveInit, BoardInit, FetchType, PastType, TapType, Announced, CardsOK, NoTap
<1>3. BoardTypeOK
    BY MaxDropsType, EarlierType DEF LiveInit, BoardInit, BoardTypeOK, FetchType, Listed, Init, NoTap
<1>4. QED
    BY <1>1, <1>2, <1>3 DEF LiveInv

\* The channel only grows.
LEMMA FeedGrows ==
    TypeOK /\ [Next]_vars => DOMAIN feed \subseteq DOMAIN feed'
<1> SUFFICES ASSUME TypeOK, [Next]_vars PROVE DOMAIN feed \subseteq DOMAIN feed'
    OBVIOUS
<1>0. feed \in Seq(Message)
    BY DEF TypeOK
<1>1. ASSUME NEW m, feed' = Append(feed, m) PROVE DOMAIN feed \subseteq DOMAIN feed'
    BY <1>0, <1>1
<1>2. CASE feed' = feed
    BY <1>2
<1>3. CASE \E o \in Order : Announce(o)
    BY <1>1, <1>3 DEF Announce
<1>4. CASE \E c \in Call : Publish(c)
    BY <1>1, <1>4 DEF Publish
<1>5. feed' = feed \/ (\E o \in Order : Announce(o)) \/ (\E c \in Call : Publish(c))
    BY DEF Next, vars, Place, LoseAnnouncement, StartNotice, Request, Serve, Check, UpdateRow,
           RecordEvent, Reread, Fail, Finish
<1>6. QED
    BY <1>2, <1>3, <1>4, <1>5

\* What showing a screen does to what pages show.
LEMMA ShowFacts ==
    ASSUME BoardTypeOK, NEW b \in Board, NEW s \in [Order -> Status \cup {Absent}], Show(b, s)
    PROVE  /\ screen' \in [Board -> [Order -> Status \cup {Absent}]]
           /\ asking' \in [Board -> Order \cup {None}]
           /\ screen'[b] = s
           /\ \A d \in Board \ {b} : screen'[d] = screen[d] /\ asking'[d] = asking[d]
           /\ asking'[b] # None => s[asking'[b]] # Absent
<1>1. Absent \notin Visible(b)
    BY PagesType
       DEF Visible, BoardVisible, KitchenQueue, FloorTiles, OpenStatuses, Finished, Status, Absent
<1>2. QED
    BY <1>1 DEF BoardTypeOK, Show

\* What announcing the orders in new does to the counts.
LEMMA ChimedFacts ==
    ASSUME BoardTypeOK, NEW b \in Board, NEW new, Chimed(b, new)
    PROVE  /\ chimes' \in [Board -> [Order -> Nat]]
           /\ \A o \in Order : chimes'[b][o] = IF o \in new THEN chimes[b][o] + 1 ELSE chimes[b][o]
           /\ \A d \in Board \ {b} : chimes'[d] = chimes[d]
BY DEF BoardTypeOK, Chimed

-------------------------------------------------------------------------------
(* A step of a board keeps LiveInv                                             *)

\* All of LiveInv that is about the boards.
BoardsOK == BoardTypeOK /\ FetchType /\ PastType /\ TapType /\ Announced /\ CardsOK

LEMMA OpenPageKeeps ==
    ASSUME LiveInv, NEW b \in Board, OpenPage(b)
    PROVE  BoardsOK'
<1>0. BoardTypeOK /\ FetchType /\ PastType /\ TapType /\ Announced /\ CardsOK
    BY DEF LiveInv
<1>1. Rendered(b) \in [Order -> Status \cup {Absent}]
    BY RenderedType DEF LiveInv
<1>2. /\ screen' \in [Board -> [Order -> Status \cup {Absent}]]
      /\ asking' \in [Board -> Order \cup {None}]
      /\ screen'[b] = Rendered(b)
      /\ \A d \in Board \ {b} : screen'[d] = screen[d] /\ asking'[d] = asking[d]
      /\ asking'[b] # None => Rendered(b)[asking'[b]] # Absent
    BY <1>0, <1>1, ShowFacts DEF OpenPage
<1>3. Listed(Rendered(b)) \subseteq Order
    BY DEF Listed
<1>4. /\ seen' \in [Board -> SUBSET Order] /\ loaded' \in [Board -> SUBSET Order]
      /\ seen'[b] = Listed(Rendered(b))
      /\ \A d \in Board \ {b} : seen'[d] = seen[d]
    BY <1>0, <1>3 DEF OpenPage, BoardTypeOK
<1>5. UNCHANGED <<feed, before, backlog, told, page, chimes, live, past, fetch, tap, drops>> /\ open' = open \cup {b} /\ b \notin open
    BY DEF OpenPage, vars, queue
<1>6. ASSUME NEW d \in Board PROVE Listed(screen'[d]) \subseteq seen'[d]
  <2>1. CASE d = b
      BY <1>2, <1>4, <2>1
  <2>2. CASE d # b
      BY <1>0, <1>2, <1>4, <2>2 DEF BoardTypeOK
  <2>3. QED
      BY <2>1, <2>2
<1>7. BoardTypeOK'
    BY <1>0, <1>2, <1>4, <1>5, <1>6 DEF BoardTypeOK, Listed, Snapshot
<1>8. Announced'
    BY <1>0, <1>4, <1>5 DEF Announced
<1>9. CardsOK'
    BY <1>0, <1>2, <1>5 DEF CardsOK
<1>10. QED
    BY <1>0, <1>5, <1>7, <1>8, <1>9 DEF BoardsOK, FetchType, PastType, TapType, Snapshot

LEMMA DeliverKeeps ==
    ASSUME LiveInv, NEW b \in Board, Deliver(b)
    PROVE  BoardsOK'
<1>0. BoardTypeOK /\ FetchType /\ PastType /\ TapType /\ Announced /\ CardsOK /\ TypeOK
    BY DEF LiveInv
<1>1. PICK i \in DOMAIN feed \ past[b] :
           /\ Show(b, [screen[b] EXCEPT ![feed[i].order] = feed[i].status])
           /\ seen' = [seen EXCEPT ![b] = @ \cup {feed[i].order}]
           /\ Chimed(b, Announces(b, feed[i]))
           /\ told' = IF feed[i].event = "order.created" THEN told
                      ELSE [told EXCEPT ![b] = @ \cup {feed[i].order}]
           /\ past' = [past EXCEPT ![b] = @ \cup {i}]
    BY DEF Deliver
<1>2. feed[i] \in Message /\ i \in Nat
    BY <1>0 DEF TypeOK
<1>3. feed[i].order \in Order /\ feed[i].status \in Status
    BY <1>2 DEF Message
<1>4. /\ UNCHANGED <<feed, before, backlog, page, open, loaded, live, fetch, tap, drops>>
      /\ b \in live /\ b \in open
    BY <1>0 DEF Deliver, vars, queue, BoardTypeOK
<1> DEFINE s == [screen[b] EXCEPT ![feed[i].order] = feed[i].status]
<1>5. s \in [Order -> Status \cup {Absent}]
    BY <1>0, <1>3 DEF BoardTypeOK
<1>6. /\ screen' \in [Board -> [Order -> Status \cup {Absent}]]
      /\ asking' \in [Board -> Order \cup {None}]
      /\ screen'[b] = s
      /\ \A d \in Board \ {b} : screen'[d] = screen[d] /\ asking'[d] = asking[d]
      /\ asking'[b] # None => s[asking'[b]] # Absent
    BY <1>0, <1>1, <1>5, ShowFacts
<1>7. /\ chimes' \in [Board -> [Order -> Nat]]
      /\ \A o \in Order : chimes'[b][o] =
             IF o \in Announces(b, feed[i]) THEN chimes[b][o] + 1 ELSE chimes[b][o]
      /\ \A d \in Board \ {b} : chimes'[d] = chimes[d]
    BY <1>0, <1>1, ChimedFacts
<1>8. /\ seen' \in [Board -> SUBSET Order]
      /\ seen'[b] = seen[b] \cup {feed[i].order}
      /\ \A d \in Board \ {b} : seen'[d] = seen[d]
    BY <1>0, <1>1, <1>3 DEF BoardTypeOK
<1>9. /\ past' \in [Board -> SUBSET Nat]
      /\ \A d \in Board : past'[d] \subseteq DOMAIN feed
    BY <1>0, <1>1, <1>2 DEF BoardTypeOK, PastType
<1>15. told' \in [Board -> SUBSET Order]
    BY <1>0, <1>1, <1>3 DEF BoardTypeOK
<1>10. \A d \in Board : Listed(screen'[d]) \subseteq seen'[d]
  <2>1. Listed(s) \subseteq Listed(screen[b]) \cup {feed[i].order}
      BY <1>0 DEF Listed, BoardTypeOK
  <2>2. QED
      BY <2>1, <1>0, <1>6, <1>8 DEF BoardTypeOK
<1>11. BoardTypeOK'
    BY <1>0, <1>4, <1>6, <1>7, <1>8, <1>9, <1>10, <1>15 DEF BoardTypeOK, Listed, Snapshot
<1>12. Announced'
  <2>1. Announces(b, feed[i]) \subseteq {feed[i].order} \ seen[b]
      BY DEF Announces
  <2>2. \A o \in Order : chimes'[b][o] \in {0, 1} /\ (chimes'[b][o] = 1 => o \in seen'[b])
      BY <1>0, <1>7, <1>8, <2>1 DEF Announced
  <2>3. \A d \in Board, o \in Order :
            chimes'[d][o] \in {0, 1} /\ (chimes'[d][o] = 1 => o \in seen'[d])
      BY <1>0, <1>7, <1>8, <2>2 DEF Announced
  <2>4. \A d \in Board \ open' :
            /\ \A o \in Order : chimes'[d][o] = 0
            /\ fetch'[d] = [j \in Slot |-> NoSnapshot]
      BY <1>0, <1>4, <1>7 DEF Announced
  <2>5. QED
      BY <2>3, <2>4 DEF Announced, NoSnapshot
<1>13. CardsOK'
    BY <1>0, <1>4, <1>6 DEF CardsOK
<1>14. QED
    BY <1>0, <1>4, <1>9, <1>11, <1>12, <1>13 DEF BoardsOK, FetchType, PastType, TapType, Snapshot

LEMMA ResyncKeeps ==
    ASSUME LiveInv, NEW b \in Board, NEW i \in Slot, Resync(b, i)
    PROVE  BoardsOK'
<1>0. BoardTypeOK /\ FetchType /\ PastType /\ TapType /\ Announced /\ CardsOK
    BY DEF LiveInv
<1>1. fetch[b][i] # NoSnapshot /\ fetch[b][i] \in Snapshot
    BY <1>0 DEF Resync, BoardTypeOK
<1> DEFINE f == fetch[b][i]
           s == Merged(screen[b], f)
<1>2. f \in [Order -> Status \cup {Absent}]
    BY <1>1 DEF Snapshot, OpenStatuses, Status
<1>3. s \in [Order -> Status \cup {Absent}]
    BY <1>0, <1>2 DEF Merged, BoardTypeOK
<1>4. UNCHANGED <<feed, before, backlog, told, page, open, loaded, live, past, tap, drops>>
    BY DEF Resync, vars, queue
<1>5. /\ screen' \in [Board -> [Order -> Status \cup {Absent}]]
      /\ asking' \in [Board -> Order \cup {None}]
      /\ screen'[b] = s
      /\ \A d \in Board \ {b} : screen'[d] = screen[d] /\ asking'[d] = asking[d]
      /\ asking'[b] # None => s[asking'[b]] # Absent
    BY <1>0, <1>3, ShowFacts DEF Resync
<1>6. /\ chimes' \in [Board -> [Order -> Nat]]
      /\ \A o \in Order : chimes'[b][o] =
             IF o \in Listed(f) \ seen[b] THEN chimes[b][o] + 1 ELSE chimes[b][o]
      /\ \A d \in Board \ {b} : chimes'[d] = chimes[d]
    BY <1>0, ChimedFacts DEF Resync
<1>7. /\ seen' \in [Board -> SUBSET Order]
      /\ seen'[b] = seen[b] \cup Listed(f)
      /\ \A d \in Board \ {b} : seen'[d] = seen[d]
  <2>1. seen' = [seen EXCEPT ![b] = seen[b] \cup Listed(f)]
      BY DEF Resync, SeenAfter
  <2>2. Listed(f) \subseteq Order
      BY DEF Listed
  <2>3. QED
      BY <1>0, <2>1, <2>2 DEF BoardTypeOK
<1>8. /\ fetch' \in [Board -> [Slot -> {NoSnapshot} \cup Snapshot]]
      /\ \A d \in Board \ {b} : fetch'[d] = fetch[d]
    BY <1>0 DEF Resync, FetchType
<1>9. b \in open
    BY <1>0, <1>1 DEF Announced
<1>10. \A d \in Board : Listed(screen'[d]) \subseteq seen'[d]
  <2>1. Listed(s) \subseteq Listed(screen[b]) \cup Listed(f)
      BY DEF Listed, Merged
  <2>2. QED
      BY <2>1, <1>0, <1>5, <1>7 DEF BoardTypeOK
<1>11. BoardTypeOK'
    BY <1>0, <1>4, <1>5, <1>6, <1>7, <1>8, <1>10 DEF BoardTypeOK, Listed, Snapshot
<1>12. Announced'
  <2>1. \A o \in Order : chimes'[b][o] \in {0, 1} /\ (chimes'[b][o] = 1 => o \in seen'[b])
      BY <1>0, <1>6, <1>7 DEF Announced
  <2>2. \A d \in Board, o \in Order :
            chimes'[d][o] \in {0, 1} /\ (chimes'[d][o] = 1 => o \in seen'[d])
      BY <1>0, <1>6, <1>7, <2>1 DEF Announced
  <2>3. \A d \in Board \ open' :
            /\ \A o \in Order : chimes'[d][o] = 0
            /\ fetch'[d] = [j \in Slot |-> NoSnapshot]
      BY <1>0, <1>4, <1>6, <1>8, <1>9 DEF Announced
  <2>4. QED
      BY <2>2, <2>3 DEF Announced, NoSnapshot
<1>13. CardsOK'
    BY <1>0, <1>4, <1>5, <1>9 DEF CardsOK
<1>14. QED
    BY <1>0, <1>4, <1>8, <1>11, <1>12, <1>13 DEF BoardsOK, FetchType, PastType, TapType, Snapshot

\* The stream comes and goes, messages are missed, resyncs leave, dialogs open
\* and close.
LEMMA StreamKeeps ==
    ASSUME LiveInv, NEW b \in Board, Connect(b) \/ Miss(b) \/ Drop(b)
    PROVE  BoardsOK'
<1>0. BoardTypeOK /\ FetchType /\ PastType /\ TapType /\ Announced /\ CardsOK /\ TypeOK
    BY DEF LiveInv
<1>1. DOMAIN feed \subseteq Nat
    BY <1>0 DEF TypeOK
<1>2. /\ past' \in [Board -> SUBSET Nat]
      /\ \A d \in Board : past'[d] \subseteq DOMAIN feed
  <2>1. CASE Connect(b)
      BY <1>0, <1>1, <2>1 DEF Connect, BoardTypeOK, PastType
  <2>2. CASE Miss(b)
      <3>1. PICK i \in DOMAIN feed : past' = [past EXCEPT ![b] = @ \cup {i}]
          BY <2>2 DEF Miss
      <3>2. QED
          BY <1>0, <1>1, <3>1 DEF BoardTypeOK, PastType
  <2>3. CASE Drop(b)
      BY <1>0, <2>3 DEF Drop, BoardTypeOK, PastType
  <2>4. QED
      BY <2>1, <2>2, <2>3
<1>3. drops' \in 0..MaxDrops
    BY <1>0, MaxDropsType DEF Connect, Miss, Drop, BoardTypeOK
<1>4. live' \subseteq open
    BY <1>0 DEF Connect, Miss, Drop, BoardTypeOK
<1>5. UNCHANGED <<feed, before, backlog, told, page, asking, open, screen, seen, chimes, loaded, fetch, tap>>
    BY DEF Connect, Miss, Drop, vars, queue
<1>6. QED
    BY <1>0, <1>2, <1>3, <1>4, <1>5
       DEF BoardsOK, BoardTypeOK, FetchType, PastType, TapType, Announced, CardsOK, Listed, Snapshot

LEMMA ReadKeeps ==
    ASSUME LiveInv, NEW b \in Board, NEW i \in Slot, Read(b, i)
    PROVE  BoardsOK'
<1>0. BoardTypeOK /\ FetchType /\ PastType /\ TapType /\ Announced /\ CardsOK /\ TypeOK
    BY DEF LiveInv
<1>1. OpenOrders \in Snapshot
    BY <1>0, OpenOrdersType
<1>2. /\ fetch' \in [Board -> [Slot -> {NoSnapshot} \cup Snapshot]]
      /\ \A d \in Board \ {b} : fetch'[d] = fetch[d]
    BY <1>0, <1>1 DEF Read, FetchType
<1>3. UNCHANGED <<feed, before, backlog, told, page, asking, open, screen, seen, chimes, loaded, live, past, tap, drops>>
    BY DEF Read, vars, queue
<1>4. b \in open
    BY DEF Read
<1>5. BoardTypeOK'
    BY <1>0, <1>2, <1>3 DEF BoardTypeOK, Listed, Snapshot
<1>6. Announced'
    BY <1>0, <1>2, <1>3, <1>4 DEF Announced, NoSnapshot
<1>7. QED
    BY <1>0, <1>2, <1>3, <1>5, <1>6 DEF BoardsOK, CardsOK, FetchType, PastType, TapType, Snapshot

LEMMA DialogKeeps ==
    ASSUME LiveInv, NEW b \in Board,
           CloseDialog(b) \/ \E o \in Order : OpenDialog(b, o)
    PROVE  BoardsOK'
<1>0. BoardTypeOK /\ FetchType /\ PastType /\ TapType /\ Announced /\ CardsOK
    BY DEF LiveInv
<1>1. asking' \in [Board -> Order \cup {None}]
  <2>1. \E a \in Order \cup {None} : asking' = [asking EXCEPT ![b] = a]
      BY DEF CloseDialog, OpenDialog
  <2>2. asking \in [Board -> Order \cup {None}]
      BY <1>0 DEF BoardTypeOK
  <2>3. QED
      BY <2>1, <2>2
<1>2. UNCHANGED <<feed, before, backlog, told, page, open, screen, seen, chimes, loaded, live, past, fetch, tap, drops>>
    BY DEF CloseDialog, OpenDialog, vars, queue
<1>3. CardsOK'
  <2>1. asking \in [Board -> Order \cup {None}]
      BY <1>0 DEF BoardTypeOK
  <2>2. asking'[b] # None => screen[b][asking'[b]] # Absent
      BY <2>1 DEF CloseDialog, OpenDialog, OpenStatuses, Absent
  <2>3. \A d \in Board \ {b} : asking'[d] = asking[d]
      BY <2>1 DEF CloseDialog, OpenDialog
  <2>4. QED
      BY <1>0, <1>2, <2>2, <2>3 DEF CardsOK
<1>4. QED
    BY <1>0, <1>1, <1>2, <1>3
       DEF BoardsOK, BoardTypeOK, FetchType, PastType, TapType, Announced, Listed, Snapshot

\* A pressed button changes one card of a page that lists it.
LEMMA RunKeeps ==
    ASSUME LiveInv, NEW b \in open, NEW c \in Call, NEW o \in Order, NEW to, Run(b, c, o, to),
           screen[b][o] # Absent
    PROVE  BoardsOK'
<1>0. BoardTypeOK /\ FetchType /\ PastType /\ TapType /\ Announced /\ CardsOK /\ b \in Board
    BY DEF LiveInv, BoardTypeOK
<1>1. to \in Status
    BY TargetType DEF Run, Status
<1>2. /\ screen' \in [Board -> [Order -> Status \cup {Absent}]]
      /\ \A d \in Board : Listed(screen'[d]) \subseteq Listed(screen[d])
    BY <1>0, <1>1 DEF Run, BoardTypeOK, Listed
<1>3. asking' \in [Board -> Order \cup {None}]
    BY <1>0 DEF Run, BoardTypeOK
<1>4. screen[b][o] \in Status \cup {Absent}
    BY <1>0 DEF BoardTypeOK
<1>5. /\ tap' \in [Call -> [board : Board \cup {None}, was : Status \cup {Absent}]]
      /\ \A k \in Call : tap'[k] = NoTap \/ tap'[k].board \in open
    BY <1>0, <1>4 DEF Run, TapType, BoardTypeOK
<1>6. UNCHANGED <<feed, before, backlog, told, page, open, seen, chimes, loaded, live, past, fetch, drops>>
    BY DEF Run, Request, queue
<1>7. BoardTypeOK'
    BY <1>0, <1>2, <1>3, <1>5, <1>6 DEF BoardTypeOK, Listed, Snapshot
<1>8. CardsOK'
    BY <1>0, <1>1, <1>6 DEF Run, CardsOK, BoardTypeOK, Status, Absent
<1>9. QED
    BY <1>0, <1>5, <1>6, <1>7, <1>8 DEF BoardsOK, FetchType, PastType, TapType, Announced, Snapshot

LEMMA RevertKeeps ==
    ASSUME LiveInv, NEW c \in Call, Revert(c)
    PROVE  BoardsOK'
<1>0. BoardTypeOK /\ FetchType /\ PastType /\ TapType /\ Announced /\ CardsOK /\ TypeOK
    BY DEF LiveInv
<1> DEFINE b == tap[c].board
           o == task[c].order
           s == [screen[b] EXCEPT ![o] = IF @ = Absent THEN Absent ELSE tap[c].was]
<1>1. b \in open /\ b \in Board /\ tap[c].was \in Status \cup {Absent}
    BY <1>0 DEF Revert, BoardTypeOK, TapType
<1>2. s \in [Order -> Status \cup {Absent}] /\ Listed(s) \subseteq Listed(screen[b])
    BY <1>0, <1>1 DEF BoardTypeOK, Listed
<1>3. /\ screen' \in [Board -> [Order -> Status \cup {Absent}]]
      /\ asking' \in [Board -> Order \cup {None}]
      /\ screen'[b] = s
      /\ \A d \in Board \ {b} : screen'[d] = screen[d] /\ asking'[d] = asking[d]
      /\ asking'[b] # None => s[asking'[b]] # Absent
    BY <1>0, <1>1, <1>2, ShowFacts DEF Revert
<1>4. /\ tap' \in [Call -> [board : Board \cup {None}, was : Status \cup {Absent}]]
      /\ \A k \in Call : tap'[k] = NoTap \/ tap'[k].board \in open
    BY <1>0 DEF Revert, TapType, BoardTypeOK, NoTap
<1>5. UNCHANGED <<feed, before, backlog, told, page, open, seen, chimes, loaded, live, past, fetch, drops>>
    BY DEF Revert, vars, queue
<1>6. \A d \in Board : Listed(screen'[d]) \subseteq seen'[d]
    BY <1>0, <1>2, <1>3, <1>5 DEF BoardTypeOK
<1>7. BoardTypeOK'
    BY <1>0, <1>3, <1>4, <1>5, <1>6 DEF BoardTypeOK, Listed, Snapshot
<1>8. CardsOK'
    BY <1>0, <1>1, <1>3, <1>5 DEF CardsOK
<1>9. QED
    BY <1>0, <1>4, <1>5, <1>7, <1>8 DEF BoardsOK, FetchType, PastType, TapType, Announced, Snapshot

\* What happens elsewhere, and what happens nowhere.
LEMMA ElsewhereKeeps ==
    ASSUME LiveInv, DOMAIN feed \subseteq DOMAIN feed', UNCHANGED boardVars
    PROVE  BoardsOK'
<1>0. BoardTypeOK /\ FetchType /\ PastType /\ TapType /\ Announced /\ CardsOK
    BY DEF LiveInv
<1>1. UNCHANGED <<before, backlog, told, page, asking, open, screen, seen, chimes, loaded, live, past, fetch, tap, drops>>
    BY DEF boardVars, queue
<1>2. QED
    BY <1>0, <1>1
       DEF BoardsOK, BoardTypeOK, FetchType, PastType, TapType, Announced, CardsOK, Listed, Snapshot

\* A button, or the dialog's, is pressed on a page that is open and lists the order.
LEMMA PressesAreOnOpenPages ==
    ASSUME LiveInv, NEW b \in Board, NEW c \in Call, NEW o \in Order,
           Reject(b, c, o) \/ \E to \in Target : Tap(b, c, o, to)
    PROVE  BoardsOK'
<1>0. BoardTypeOK /\ CardsOK
    BY DEF LiveInv
<1>1. screen[b][o] # Absent
  <2>1. CASE Reject(b, c, o)
      BY <1>0, <2>1, NoneFresh DEF Reject, CardsOK
  <2>2. CASE \E to \in Target : Tap(b, c, o, to)
      <3>1. screen[b][o] \in Visible(b)
          BY <2>2 DEF Tap, Offered
      <3>2. QED
          BY <1>0, <3>1, PagesType
             DEF Visible, BoardVisible, KitchenQueue, FloorTiles, OpenStatuses, Finished, Status,
                 Absent
  <2>3. QED
      BY <2>1, <2>2
<1>2. b \in open
    BY <1>0, <1>1 DEF CardsOK
<1>3. QED
    BY <1>1, <1>2, RunKeeps DEF Reject, Tap

\* An order arrives, or an earlier one is settled.
LEMMA QueueKeeps ==
    ASSUME LiveInv, DOMAIN feed \subseteq DOMAIN feed',
           SettleEarlier \/ \E o \in Order : Arrive(o)
    PROVE  BoardsOK'
<1>0. BoardTypeOK /\ FetchType /\ PastType /\ TapType /\ Announced /\ CardsOK
    BY DEF LiveInv
<1>1. UNCHANGED <<page, asking, open, screen, seen, chimes, loaded, told, live, past, fetch, tap, drops>>
    BY DEF SettleEarlier, Arrive
<1>2. backlog' \in 0..Earlier
    BY <1>0, EarlierType DEF SettleEarlier, Arrive, BoardTypeOK
<1>3. before' \in [Order -> SUBSET Order]
    BY <1>0 DEF SettleEarlier, Arrive, BoardTypeOK, Placed
<1>4. QED
    BY <1>0, <1>1, <1>2, <1>3
       DEF BoardsOK, BoardTypeOK, FetchType, PastType, TapType, Announced, CardsOK, Listed, Snapshot

LEMMA LiveStep ==
    LiveInv /\ [LiveNext]_liveVars => LiveInv'
<1> SUFFICES ASSUME LiveInv, [LiveNext]_liveVars PROVE LiveInv'
    OBVIOUS
<1>1. TypeOK /\ [Next]_vars
    BY Beneath DEF LiveInv
<1>2. TypeOK' /\ DOMAIN feed \subseteq DOMAIN feed'
    BY <1>1, TypeStep, FeedGrows
<1>3. ASSUME UNCHANGED boardVars PROVE BoardsOK'
    BY <1>2, <1>3, ElsewhereKeeps
<1>4. ASSUME NEW b \in Board, BoardStep(b) PROVE BoardsOK'
  <2>1. CASE OpenPage(b)
      BY <2>1, OpenPageKeeps
  <2>2. CASE Deliver(b)
      BY <2>2, DeliverKeeps
  <2>3. CASE Connect(b) \/ Miss(b) \/ Drop(b)
      BY <2>3, StreamKeeps
  <2>4. CASE \E i \in Slot : Read(b, i) \/ Resync(b, i)
      BY <2>4, ReadKeeps, ResyncKeeps
  <2>5. CASE CloseDialog(b) \/ \E o \in Order : OpenDialog(b, o)
      BY <2>5, DialogKeeps
  <2>6. CASE \E c \in Call \ Remote, o \in Order :
                 Reject(b, c, o) \/ \E to \in Target : Tap(b, c, o, to)
      BY <2>6, PressesAreOnOpenPages
  <2>7. QED
      BY <1>4, <2>1, <2>2, <2>3, <2>4, <2>5, <2>6 DEF BoardStep
<1>5. ASSUME NEW c \in Call, Revert(c) PROVE BoardsOK'
    BY <1>5, RevertKeeps
<1>6. ASSUME SettleEarlier \/ \E o \in Order : Arrive(o) PROVE BoardsOK'
    BY <1>2, <1>6, QueueKeeps
<1>7. BoardsOK'
    BY <1>3, <1>4, <1>5, <1>6 DEF LiveNext, Elsewhere, liveVars
<1>8. QED
    BY <1>2, <1>7 DEF LiveInv, BoardsOK

LEMMA LiveInvHolds ==
    LiveSpec => []LiveInv
BY LiveInitInv, LiveStep, PTL DEF LiveSpec

\* Boards keep their types, and list only orders they have seen (useLiveOrders).
THEOREM BoardsTypeCorrect ==
    LiveSpec => []BoardTypeOK
<1>1. LiveInv => BoardTypeOK
    BY DEF LiveInv
<1>2. QED
    BY <1>1, LiveInvHolds, PTL

-------------------------------------------------------------------------------
(* What a page has seen it announced, once                                     *)

\* The orders of one page: what it opened with is seen and silent.
Accounted(b) ==
    \A o \in Order :
        /\ o \in loaded[b] => chimes[b][o] = 0 /\ o \in seen[b]
        /\ o \in seen[b] => chimes[b][o] = 1 \/ o \in loaded[b] \/ o \in told[b]

LEMMA AccountedStays ==
    ASSUME NEW b \in Board, Accounted(b), seen'[b] = seen[b], chimes'[b] = chimes[b],
           loaded'[b] = loaded[b], told'[b] = told[b]
    PROVE  Accounted(b)'
BY DEF Accounted

LEMMA OpenPageAccounts ==
    ASSUME LiveInv, NEW b \in Board, OpenPage(b)
    PROVE  Accounted(b)' /\ \A d \in Board \ {b} :
               /\ seen'[d] = seen[d] /\ chimes'[d] = chimes[d]
               /\ loaded'[d] = loaded[d] /\ told'[d] = told[d]
<1>0. BoardTypeOK /\ Announced
    BY DEF LiveInv
<1>1. /\ seen'[b] = Listed(Rendered(b)) /\ loaded'[b] = Listed(Rendered(b)) /\ chimes' = chimes /\ told' = told
      /\ \A d \in Board \ {b} : seen'[d] = seen[d] /\ loaded'[d] = loaded[d]
    BY <1>0 DEF OpenPage, BoardTypeOK
<1>2. \A o \in Order : chimes[b][o] = 0
    BY <1>0 DEF OpenPage, Announced
<1>3. QED
    BY <1>1, <1>2 DEF Accounted

LEMMA DeliverAccounts ==
    ASSUME LiveInv, [Next]_vars, NEW b \in Board, Accounted(b), Deliver(b)
    PROVE  Accounted(b)' /\ \A d \in Board \ {b} :
               /\ seen'[d] = seen[d] /\ chimes'[d] = chimes[d]
               /\ loaded'[d] = loaded[d] /\ told'[d] = told[d]
<1>0. BoardTypeOK /\ Announced /\ TypeOK
    BY DEF LiveInv
<1>1. PICK i \in DOMAIN feed :
          /\ seen' = [seen EXCEPT ![b] = @ \cup {feed[i].order}]
          /\ Chimed(b, Announces(b, feed[i]))
          /\ told' = IF feed[i].event = "order.created" THEN told
                     ELSE [told EXCEPT ![b] = @ \cup {feed[i].order}]
    BY DEF Deliver
<1>2. loaded' = loaded /\ feed[i] \in Message
    BY <1>0 DEF Deliver, TypeOK
<1>3. /\ \A o \in Order : chimes'[b][o] =
             IF o \in Announces(b, feed[i]) THEN chimes[b][o] + 1 ELSE chimes[b][o]
      /\ \A d \in Board \ {b} : chimes'[d] = chimes[d]
    BY <1>0, <1>1, ChimedFacts
<1>4. seen'[b] = seen[b] \cup {feed[i].order} /\ \A d \in Board \ {b} : seen'[d] = seen[d]
    BY <1>0, <1>1 DEF BoardTypeOK
<1>5. /\ \A d \in Board \ {b} : told'[d] = told[d]
      /\ told[b] \subseteq told'[b]
      /\ feed[i].event # "order.created" => feed[i].order \in told'[b]
    BY <1>0, <1>1 DEF BoardTypeOK
<1>7. ASSUME NEW o \in Order
      PROVE  /\ o \in loaded'[b] => chimes'[b][o] = 0 /\ o \in seen'[b]
             /\ o \in seen'[b] => chimes'[b][o] = 1 \/ o \in loaded'[b] \/ o \in told'[b]
  <2>1. /\ o \in loaded[b] => chimes[b][o] = 0 /\ o \in seen[b]
        /\ o \in seen[b] => chimes[b][o] = 1 \/ o \in loaded[b] \/ o \in told[b]
        /\ chimes[b][o] \in {0, 1} /\ (chimes[b][o] = 1 => o \in seen[b])
      BY <1>0 DEF Accounted, Announced
  <2>2. CASE o \in seen[b]
    <3>1. chimes'[b][o] = chimes[b][o]
        BY <1>3, <2>2 DEF Announces
    <3>2. QED
        BY <1>2, <1>4, <1>5, <2>1, <2>2, <3>1
  <2>3. CASE o \notin seen[b] /\ o = feed[i].order /\ feed[i].event = "order.created"
    <3>1. chimes'[b][o] = 1
        BY <1>3, <2>1, <2>3 DEF Announces
    <3>2. QED
        BY <1>2, <2>1, <2>3, <3>1
  <2>4. CASE o \notin seen[b] /\ (o # feed[i].order \/ feed[i].event # "order.created")
    <3>1. o \notin loaded'[b] /\ (o \in seen'[b] => o \in told'[b])
        BY <1>2, <1>4, <1>5, <2>1, <2>4
    <3>2. QED
        BY <3>1
  <2>5. QED
      BY <2>2, <2>3, <2>4
<1>8. QED
    BY <1>2, <1>3, <1>4, <1>5, <1>7 DEF Accounted

LEMMA ResyncAccounts ==
    ASSUME LiveInv, [Next]_vars, NEW b \in Board, NEW i \in Slot, Accounted(b), Resync(b, i)
    PROVE  Accounted(b)' /\ \A d \in Board \ {b} :
               /\ seen'[d] = seen[d] /\ chimes'[d] = chimes[d]
               /\ loaded'[d] = loaded[d] /\ told'[d] = told[d]
<1>0. BoardTypeOK /\ Announced /\ TypeOK
    BY DEF LiveInv
<1> DEFINE new == Listed(fetch[b][i])
<1>1. /\ \A o \in Order : chimes'[b][o] =
             IF o \in new \ seen[b] THEN chimes[b][o] + 1 ELSE chimes[b][o]
      /\ \A d \in Board \ {b} : chimes'[d] = chimes[d]
    BY <1>0, ChimedFacts DEF Resync
<1>2. /\ seen'[b] = seen[b] \cup new /\ loaded' = loaded
      /\ \A d \in Board \ {b} : seen'[d] = seen[d]
    BY <1>0 DEF Resync, SeenAfter, BoardTypeOK
<1>3. told' = told
    BY DEF Resync
<1>4. ASSUME NEW o \in Order
      PROVE  /\ o \in loaded'[b] => chimes'[b][o] = 0 /\ o \in seen'[b]
             /\ o \in seen'[b] => chimes'[b][o] = 1 \/ o \in loaded'[b] \/ o \in told'[b]
  <2>1. /\ o \in loaded[b] => chimes[b][o] = 0 /\ o \in seen[b]
        /\ o \in seen[b] => chimes[b][o] = 1 \/ o \in loaded[b] \/ o \in told[b]
        /\ chimes[b][o] \in {0, 1} /\ (chimes[b][o] = 1 => o \in seen[b])
      BY <1>0 DEF Accounted, Announced
  <2>2. QED
      BY <1>1, <1>2, <1>3, <2>1
<1>5. QED
    BY <1>1, <1>2, <1>3, <1>4 DEF Accounted

AllAccounted == \A b \in Board : Accounted(b)

LEMMA AccountedStep ==
    LiveInv /\ AllAccounted /\ [LiveNext]_liveVars => AllAccounted'
<1> SUFFICES ASSUME LiveInv, AllAccounted, [LiveNext]_liveVars, NEW d \in Board
             PROVE  Accounted(d)'
    BY DEF AllAccounted
<1>0. [Next]_vars /\ Accounted(d)
    BY Beneath DEF AllAccounted
<1>1. ASSUME UNCHANGED <<seen, chimes, loaded, told>> PROVE Accounted(d)'
    BY <1>0, <1>1, AccountedStays
<1>2. ASSUME NEW b \in Board, OpenPage(b) PROVE Accounted(d)'
    BY <1>0, <1>2, OpenPageAccounts, AccountedStays
<1>3. ASSUME NEW b \in Board, Deliver(b) PROVE Accounted(d)'
  <2>1. Accounted(b)
      BY DEF AllAccounted
  <2>2. QED
      BY <1>0, <1>3, <2>1, DeliverAccounts, AccountedStays
<1>4. ASSUME NEW b \in Board, NEW i \in Slot, Resync(b, i) PROVE Accounted(d)'
  <2>1. Accounted(b)
      BY DEF AllAccounted
  <2>2. QED
      BY <1>0, <1>4, <2>1, ResyncAccounts, AccountedStays
<1>5. ASSUME NEW b \in Board, BoardStep(b), ~OpenPage(b), ~Deliver(b), \A i \in Slot : ~Resync(b, i)
      PROVE  UNCHANGED <<seen, chimes, loaded, told>>
    BY <1>5 DEF BoardStep, Connect, Miss, Drop, Read, CloseDialog, OpenDialog, Reject, Tap, Run
<1>6. CASE \E b \in Board : BoardStep(b)
    BY <1>1, <1>2, <1>3, <1>4, <1>5, <1>6
<1>7. CASE \/ Elsewhere \/ SettleEarlier \/ (\E o \in Order : Arrive(o))
         \/ (\E c \in Call \ Remote : Revert(c)) \/ UNCHANGED liveVars
    BY <1>1, <1>7 DEF Elsewhere, Revert, liveVars, boardVars, SettleEarlier, Arrive
<1>8. QED
    BY <1>6, <1>7 DEF LiveNext

\* An order a page has seen was there when it opened or was announced, and once only,
\* however messages and resyncs of any number cross and whatever is lost, unless
\* somebody moved it (useLiveOrders: seenIds).
THEOREM BoardsChimeOnce ==
    LiveSpec => []SeenIsAnnouncedOnce
<1>1. LiveInit => AllAccounted
    BY DEF LiveInit, BoardInit, AllAccounted, Accounted
<1>2. LiveInv /\ AllAccounted => SeenIsAnnouncedOnce
    BY DEF LiveInv, Announced, AllAccounted, Accounted, SeenIsAnnouncedOnce
<1>3. LiveSpec => []AllAccounted
    BY <1>1, LiveInvHolds, AccountedStep, PTL DEF LiveSpec
<1>4. QED
    BY <1>2, <1>3, LiveInvHolds, PTL
================================================================================

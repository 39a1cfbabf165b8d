----------------------------- MODULE DinerTracking -----------------------------
(***************************************************************************)
(* The diner's tracking page: useLiveOrderStatus of                        *)
(* app/order/[trackToken]/live-status.ts, status-card.tsx and the route    *)
(* api/orders/[trackToken]/status. One order, one page; the status moves   *)
(* as OrderLifecycle lets it. A request is read by the server, and its     *)
(* answer is lost or reaches the page, in any order with another's.        *)
(*                                                                         *)
(* Setting the state, rendering it and replacing the effect are one step,  *)
(* as React does them before the page handles another answer.              *)
(* A definition marked "mutant" is a wrong variant of the next one.        *)
(***************************************************************************)
EXTENDS Naturals

CONSTANTS
    Asking,         \* bound: polls that a return to the page may have in flight
    MaxMoves,       \* bound: changes of the order's status
    MaxLost         \* bound: requests or answers lost

ASSUME TrackingBounds == {MaxMoves, MaxLost} \subseteq Nat

VARIABLES
    status,         \* orders: the order's status
    shown,          \* the status on the page
    visible,        \* the page is in the foreground
    timer,          \* the effect's timer is set
    poll,           \* every request: "none", "sent", or the status it was answered with
    moves, lost

trackingVars == <<status, shown, visible, timer, poll, moves, lost>>

OPEN == {"PENDING", "ACCEPTED"}
TrackStatus == OPEN \cup {"READY", "COMPLETED", "REJECTED"}

\* The poll of the timer, and those of returns to the page.
Ticking == "timer"
Poll == {Ticking} \cup Asking

NoPolls == [p \in Poll |-> "none"]

\* Rendered on the server with the status as it stands.
TrackingInit ==
    /\ status \in TrackStatus
    /\ shown = status
    /\ visible = TRUE
    /\ timer = (status \in OPEN)
    /\ poll = NoPolls
    /\ moves = 0
    /\ lost = 0

\* transitionMyOrder: to any status but PENDING. A finished order moves too, when a
\* call that found it open writes after the one that finished it (OrderLifecycle).
Move ==
    /\ moves < MaxMoves
    /\ moves' = moves + 1
    /\ status' \in TrackStatus \ {"PENDING"}
    /\ UNCHANGED <<shown, visible, timer, poll, lost>>

Following == shown \in OPEN

\* StatusCard, with what the page says below an open order: "This page updates on
\* its own - no need to refresh."
SaysItUpdates == shown \in OPEN

\* schedule's timeout: a hidden page does not ask, and waits for another tick.
StopsWhenHidden == timer'= FALSE                        \* mutant
WaitsForAnswer == timer' = ~visible

Tick ==
    /\ Following /\ timer
    /\ WaitsForAnswer
    /\ poll' = IF visible THEN [poll EXCEPT ![Ticking] = "sent"] ELSE poll
    /\ UNCHANGED <<status, shown, visible, moves, lost>>

HidePage ==
    /\ visible /\ visible' = FALSE
    /\ UNCHANGED <<status, shown, timer, poll, moves, lost>>

\* onVisible asks at once, beside whatever is under way.
ShowPage ==
    /\ ~visible /\ visible' = TRUE
    /\ \/ ~Following /\ UNCHANGED poll
       \/ Following /\ \E p \in Asking : poll[p] = "none" /\ poll' = [poll EXCEPT ![p] = "sent"]
       \/ Following /\ (\A p \in Asking : poll[p] # "none") /\ UNCHANGED poll
    /\ UNCHANGED <<status, shown, timer, moves, lost>>

ServerReads(p) ==
    /\ poll[p] = "sent"
    /\ poll' = [poll EXCEPT ![p] = status]
    /\ UNCHANGED <<status, shown, visible, timer, moves, lost>>

\* The timer is set again when its poll is over.
Rescheduled(p) == timer' = (timer \/ p = Ticking)

\* A status that is another replaces the effect: its polls are cancelled, and a
\* new timer is set while the order is open.
Cancelled(p) == NoPolls

Answer(p) ==
    /\ poll[p] \in TrackStatus
    /\ shown' = poll[p]
    /\ IF shown' = shown
       THEN poll' = [poll EXCEPT ![p] = "none"] /\ Rescheduled(p)
       ELSE poll' = Cancelled(p) /\ timer' = (shown' \in OPEN)
    /\ UNCHANGED <<status, visible, moves, lost>>

\* The request fails, or its answer does: the page keeps what it shows.
Lose(p) ==
    /\ poll[p] # "none" /\ lost < MaxLost
    /\ lost' = lost + 1
    /\ poll' = [poll EXCEPT ![p] = "none"]
    /\ Rescheduled(p)
    /\ UNCHANGED <<status, shown, visible, moves>>

TrackingNext ==
    \/ Move \/ Tick \/ HidePage \/ ShowPage
    \/ \E p \in Poll : ServerReads(p) \/ Answer(p) \/ Lose(p)

\* The timer of a page that is looked at fires; a request that is not lost is read
\* and answered. Nobody has to come back to the page, and nothing has to be lost.
TrackingFairness ==
    /\ WF_trackingVars(Tick /\ visible)
    /\ \A p \in Poll : WF_trackingVars(ServerReads(p)) /\ WF_trackingVars(Answer(p))

-----------------------------------------------------------------------------
TrackingTypeOK ==
    /\ {status, shown} \subseteq TrackStatus /\ {visible, timer} \subseteq BOOLEAN
    /\ poll \in [Poll -> {"none", "sent"} \cup TrackStatus]
    /\ Following \/ (~timer /\ poll = NoPolls)

\* A page that says it updates goes on asking: its timer is set or the timer's poll
\* is under way, whichever answers were lost, cancelled or late and however often
\* the page was hidden ("This page updates on its own", status-card.tsx).
KeepsAsking == SaysItUpdates => timer \/ poll[Ticking] # "none"

\* A diner who keeps looking comes to see the order's status as it is, whatever was
\* hidden, lost or answered late before ("the diner sees the truth the moment they
\* look at the screen", live-status.ts), unless the page shows READY, COMPLETED or
\* REJECTED: there it has stopped asking for good, "because nothing can change after
\* that". At READY something can: the order is served or refused after it, and a
\* page that was open goes on saying READY for as long as it stays open.
TrackerCatchesUp == ([]<>visible) => <>[](shown = status \/ shown \notin OPEN)
=============================================================================

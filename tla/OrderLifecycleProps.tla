------------------------- MODULE OrderLifecycleProps --------------------------
(***************************************************************************)
(* What moving an order through its statuses must guarantee.               *)
(***************************************************************************)
EXTENDS OrderLifecycle

\* Every variable holds a value of its kind, and a call that has left the
\* device is about a stored order and asks for a status.
TypeOK ==
    /\ row \in [Order -> Row]
    /\ trail \in [Order -> Seq(Event)]
    /\ announced \in [Order -> {"no", "owed", "sent", "lost"}]
    /\ task \in [Call -> Task]
    /\ feed \in Seq(Message)
    /\ failures \in 0..MaxFailures
    /\ \A c \in Call : task[c].at # "unused" =>
           /\ task[c].order \in Order
           /\ row[task[c].order].status # Absent
    /\ \A c \in Call : task[c].at \in {"sent", "checked", "updated"} => task[c].to \in Target
    /\ \A c \in Call : task[c].at = "reread" => task[c].payload # Absent

\* The statuses the order's history accounts for.
Explained(o) == {trail[o][i].status : i \in DOMAIN trail[o]}

\* A timestamp on the order without an event that explains it belongs to a
\* call that is about to write the event or failed before it could.
StampsAreExplained ==
    \A o \in Order : \A s \in row[o].stamps \ Explained(o) :
        \E c \in Call : /\ task[c].order = o
                        /\ task[c].to = s
                        /\ task[c].at \in {"updated", "failed"}

\* The history never tells of a transition that did not happen: each event
\* is the work of one call, tells the status that call asked for, is on the
\* order's timestamps, and no call appears twice.
HistoryIsTrue ==
    \A o \in Order : \A i \in DOMAIN trail[o] :
        LET e == trail[o][i] IN
        \/ i = 1 /\ e = [status |-> "PENDING", by |-> None]
        \/ /\ e.by \in Call
           /\ e.status \in row[o].stamps
           /\ task[e.by].order = o /\ task[e.by].to = e.status
           /\ \A j \in DOMAIN trail[o] : trail[o][j].by = e.by => j = i

\* Finished, with no call left that read the order before it was.
Settled(o) ==
    /\ row[o].status \in Finished
    /\ \A c \in Call : task[c].order = o => task[c].at # "checked"

\* "A rejected or completed order is finished; re-transitioning it would
\* quietly rewrite history that staff and the diner have already seen"
\* (order.service.ts:252-253). The check and the write are two transactions,
\* so a call that read the order before it finished still moves it; once none
\* of those is left, nothing ever moves it again.
SettledIsFinal ==
    [][\A o \in Order : Settled(o) => Settled(o)' /\ row'[o] = row[o]]_vars

\* Some message on the location's channel carries o's present status.
Told(o) ==
    \E i \in DOMAIN feed : feed[i].order = o /\ feed[i].status = row[o].status

\* A status no board has been told of is on its way: the call that wrote it
\* has still to publish, or failed. However calls overlap, the one that wrote
\* last reads its own status back and publishes it ("the updated order reaches
\* every screen over the realtime stream", app/staff/kitchen/actions.ts:52-53).
UntoldIsOnItsWay ==
    \A o \in Order : row[o].status # Absent /\ ~Told(o) =>
        \/ row[o].status = "PENDING" /\ announced[o] \in {"owed", "lost"}
        \/ \E c \in Call :
               /\ task[c].order = o
               /\ \/ task[c].at \in {"updated", "recorded", "failed"} /\ task[c].to = row[o].status
                  \/ task[c].at \in {"reread", "failed"} /\ task[c].payload = row[o].status

\* "Advance an order and record the transition in one transaction, so an order
\* can never end up in a state with no event explaining how"
\* (order.repository.ts:60-63), with the time between the two writes allowed.
NoStateWithoutEvent ==
    \A o \in Order :
        \/ row[o].status \in {Absent} \cup Explained(o)
        \/ \E c \in Call : task[c].order = o /\ task[c].at = "updated"

\* As far as the code keeps it: until a statement fails, every status has its event
\* or a call between the two writes, also when calls overlap and overwrite each other.
EventsUntilFailure == failures = 0 => NoStateWithoutEvent

===============================================================================

------------------------- MODULE OrderLifecycleProofs --------------------------
(***************************************************************************)
(* Proofs about OrderLifecycle, for every set of orders and calls.         *)
(***************************************************************************)
EXTENDS OrderLifecycleProps, TLAPS

\* Of all tasks only c's changed, and of c's only where it stands.
OnlyAt(c, at) ==
    /\ task' \in [Call -> Task]
    /\ task'[c].at = at
    /\ task'[c].order = task[c].order
    /\ task'[c].to = task[c].to
    /\ task'[c].payload = task[c].payload
    /\ \A d \in Call \ {c} : task'[d] = task[d]

\* What moving a call on changes: its position and nothing else.
LEMMA AdvanceFacts ==
    ASSUME task \in [Call -> Task], NEW c \in Call, NEW at \in At, Advance(c, at)
    PROVE  OnlyAt(c, at)
<1>1. task[c] \in Task
    OBVIOUS
<1>2. [task[c] EXCEPT !.at = at] \in Task
    BY <1>1 DEF Task
<1>3. task' = [task EXCEPT ![c] = [task[c] EXCEPT !.at = at]]
    BY DEF Advance
<1>4. task'[c] = [task[c] EXCEPT !.at = at]
    BY <1>3
<1>5. /\ task'[c].at = at
      /\ task'[c].order = task[c].order
      /\ task'[c].to = task[c].to
      /\ task'[c].payload = task[c].payload
    BY <1>1, <1>4 DEF Task
<1> QED
    BY <1>2, <1>3, <1>5 DEF OnlyAt

\* Nothing stored yet is well typed.
LEMMA InitType == Init => TypeOK
BY NoneFresh, MaxFailuresType
   DEF Init, TypeOK, Row, Event, Task, At, Ended, Message, Absent, Status, Notice

\* What a whole new record of call c makes of the tasks.
LEMMA AssignFacts ==
    ASSUME task \in [Call -> Task], NEW c \in Call, NEW t \in Task,
           task' = [task EXCEPT ![c] = t]
    PROVE  /\ task' \in [Call -> Task]
           /\ task'[c] = t
           /\ \A d \in Call \ {c} : task'[d] = task[d]
OBVIOUS

\* Call c after its second read of the order.
RereadTask(c) == [task[c] EXCEPT !.at = "reread", !.payload = Serialized(c)]

LEMMA RereadTaskFacts ==
    ASSUME task \in [Call -> Task], NEW c \in Call
    PROVE  /\ RereadTask(c).at = "reread"
           /\ RereadTask(c).order = task[c].order
           /\ RereadTask(c).to = task[c].to
           /\ RereadTask(c).payload = Serialized(c)
           /\ Serialized(c) \in Status \cup {Absent} => RereadTask(c) \in Task
<1>1. task[c] \in Task
  OBVIOUS
<1>2. QED
  BY <1>1 DEF RereadTask, Task, At

\* The statuses of Target are statuses of an order.
LEMMA MovedIsRow ==
    ASSUME NEW r \in Row, NEW to \in Target
    PROVE  Moved(r, to) \in Row /\ Moved(r, to).status \in Status \ {Absent}
BY TargetType DEF Moved, Row, Status, Absent

\* The type of the variables is inductive.
LEMMA TypeStep == TypeOK /\ [Next]_vars => TypeOK'
<1> SUFFICES ASSUME TypeOK, [Next]_vars PROVE TypeOK'
  OBVIOUS
<1>0. /\ task \in [Call -> Task]
      /\ row \in [Order -> Row]
      /\ failures \in 0..MaxFailures
      /\ MaxFailures \in Nat
  BY MaxFailuresType DEF TypeOK
<1>1. ASSUME NEW o \in Order, Place(o) PROVE TypeOK'
  <2>1. row' = [row EXCEPT ![o] = [row[o] EXCEPT !.status = "PENDING"]]
    BY <1>1 DEF Place
  <2>2. [row[o] EXCEPT !.status = "PENDING"] \in Row
    BY <1>0 DEF Row, Status
  <2>3. row' \in [Order -> Row] /\ row'[o].status = "PENDING"
    BY <1>0, <2>1, <2>2 DEF Row
  <2>4. \A p \in Order : row[p].status # Absent => row'[p].status # Absent
    BY <1>0, <2>1, <2>3 DEF Absent
  <2>5. [status |-> "PENDING", by |-> None] \in Event
    BY DEF Event, Status
  <2>6. <<[status |-> "PENDING", by |-> None]>> \in Seq(Event)
    BY <2>5
  <2>7. trail' \in [Order -> Seq(Event)]
    BY <1>1, <2>6 DEF Place, TypeOK
  <2>8. QED
    BY <1>1, <2>3, <2>4, <2>7 DEF Place, TypeOK
<1>2. ASSUME NEW o \in Order, Announce(o) PROVE TypeOK'
  <2>1. feed' \in Seq(Message)
    BY <1>2 DEF Announce, TypeOK, Message, Status
  <2>2. QED
    BY <1>2, <2>1 DEF Announce, TypeOK
<1>3. ASSUME NEW o \in Order, LoseAnnouncement(o) PROVE TypeOK'
  <2>1. failures' \in 0..MaxFailures
    BY <1>0, <1>3 DEF LoseAnnouncement
  <2>2. QED
    BY <1>3, <2>1 DEF LoseAnnouncement, TypeOK
<1>4. ASSUME NEW c \in Call, NEW o \in Order, StartNotice(c, o) PROVE TypeOK'
  <2> DEFINE t == [at |-> "recorded", order |-> o, to |-> Notice, payload |-> Absent]
  <2>1. t \in Task
    BY DEF Task, At
  <2>2. /\ task' \in [Call -> Task]
        /\ task'[c] = t
        /\ \A d \in Call \ {c} : task'[d] = task[d]
    BY <1>0, <1>4, <2>1, AssignFacts DEF StartNotice
  <2>3. QED
    BY <1>4, <2>2 DEF StartNotice, TypeOK
<1>5. ASSUME NEW c \in Call, NEW o \in Order, NEW to \in Target, Request(c, o, to)
      PROVE  TypeOK'
  <2> DEFINE t == [at |-> "sent", order |-> o, to |-> to, payload |-> Absent]
  <2>1. t \in Task
    BY DEF Task, At
  <2>2. /\ task' \in [Call -> Task]
        /\ task'[c] = t
        /\ \A d \in Call \ {c} : task'[d] = task[d]
    BY <1>0, <1>5, <2>1, AssignFacts DEF Request
  <2>3. QED
    BY <1>5, <2>2 DEF Request, TypeOK
<1>6. ASSUME NEW c \in Call, Check(c) PROVE TypeOK'
  <2>1. PICK at \in {"checked", "refused"} : Advance(c, at)
    BY <1>6 DEF Check
  <2>2. at \in At
    BY <2>1 DEF At, Ended
  <2>3. OnlyAt(c, at)
    BY <1>0, <2>1, <2>2, AdvanceFacts
  <2>4. QED
    BY <1>6, <2>1, <2>3 DEF Check, TypeOK, OnlyAt
<1>7. ASSUME NEW c \in Call, UpdateRow(c) PROVE TypeOK'
  <2> DEFINE o == task[c].order
  <2>1. o \in Order /\ task[c].to \in Target /\ row[o] \in Row
    BY <1>0, <1>7 DEF UpdateRow, TypeOK
  <2>2. row' = [row EXCEPT ![o] = Moved(row[o], task[c].to)]
    BY <1>7 DEF UpdateRow
  <2>3. /\ row' \in [Order -> Row]
        /\ \A p \in Order : row[p].status # Absent => row'[p].status # Absent
    BY <1>0, <2>1, <2>2, MovedIsRow
  <2>4. OnlyAt(c, "updated")
    BY <1>0, <1>7, AdvanceFacts DEF UpdateRow, At
  <2>5. QED
    BY <1>7, <2>3, <2>4 DEF UpdateRow, TypeOK, OnlyAt
<1>8. ASSUME NEW c \in Call, RecordEvent(c) PROVE TypeOK'
  <2> DEFINE o == task[c].order
  <2>1. o \in Order /\ task[c].to \in Status
    BY <1>8, TargetType DEF RecordEvent, TypeOK, Status
  <2>2. [status |-> task[c].to, by |-> c] \in Event /\ trail[o] \in Seq(Event)
    BY <2>1 DEF Event, TypeOK
  <2>3. trail' \in [Order -> Seq(Event)]
    BY <1>8, <2>1, <2>2 DEF RecordEvent, Recorded, TypeOK
  <2>4. OnlyAt(c, "recorded")
    BY <1>0, <1>8, AdvanceFacts DEF RecordEvent, At
  <2>5. QED
    BY <1>8, <2>3, <2>4 DEF RecordEvent, TypeOK, OnlyAt
<1>9. ASSUME NEW c \in Call, Reread(c) PROVE TypeOK'
  <2>1. Serialized(c) \in Status \cup {Absent} /\ Serialized(c) # Absent
    BY <1>0, <1>9 DEF Reread, TypeOK, Row, Serialized
  <2>2. RereadTask(c) \in Task
    BY <1>0, <2>1, RereadTaskFacts
  <2>3. task' = [task EXCEPT ![c] = RereadTask(c)]
    BY <1>9 DEF Reread, RereadTask
  <2>4. /\ task' \in [Call -> Task]
        /\ task'[c] = RereadTask(c)
        /\ \A d \in Call \ {c} : task'[d] = task[d]
    BY <1>0, <2>2, <2>3, AssignFacts
  <2>5. QED
    BY <1>0, <1>9, <2>1, <2>4, RereadTaskFacts DEF Reread, TypeOK
<1>10. ASSUME NEW c \in Call, Publish(c) PROVE TypeOK'
  <2> DEFINE m == [event |-> "order.updated", order |-> task[c].order,
                   status |-> task[c].payload]
  <2>1. task[c].payload \in Status /\ task[c].order \in Order
    BY <1>0, <1>10 DEF Publish, TypeOK, Task
  <2>2. m \in Message
    BY <2>1 DEF Message
  <2>3. feed' \in Seq(Message)
    BY <1>10, <2>2 DEF Publish, TypeOK
  <2>4. OnlyAt(c, "done")
    BY <1>0, <1>10, AdvanceFacts DEF Publish, At, Ended
  <2>5. QED
    BY <1>10, <2>3, <2>4 DEF Publish, TypeOK, OnlyAt
<1>11. ASSUME NEW c \in Call, Fail(c) PROVE TypeOK'
  <2>1. failures' \in 0..MaxFailures
    BY <1>0, <1>11 DEF Fail
  <2>2. OnlyAt(c, "failed")
    BY <1>0, <1>11, AdvanceFacts DEF Fail, At, Ended
  <2>3. QED
    BY <1>11, <2>1, <2>2 DEF Fail, TypeOK, OnlyAt
<1>12. CASE UNCHANGED vars
  BY <1>12 DEF vars, TypeOK
<1>13. QED
  BY <1>1, <1>2, <1>3, <1>4, <1>5, <1>6, <1>7, <1>8, <1>9, <1>10, <1>11, <1>12
     DEF Next, Serve, Finish

\* Type correctness of the order's life.
THEOREM LifecycleTypeCorrect == Spec => []TypeOK
  BY InitType, TypeStep, PTL DEF Spec

-------------------------------------------------------------------------------

\* A finished order that no call has already checked stays as it is: a later
\* call is refused at its check.
LEMMA SettledStep ==
    TypeOK /\ [Next]_vars =>
        \A o \in Order : Settled(o) => Settled(o)' /\ row'[o] = row[o]
<1> SUFFICES ASSUME TypeOK, [Next]_vars, NEW o \in Order, Settled(o)
             PROVE  Settled(o)' /\ row'[o] = row[o]
  OBVIOUS
<1>0. /\ task \in [Call -> Task]
      /\ row \in [Order -> Row]
      /\ row[o].status \in Finished
      /\ \A c \in Call : task[c].order = o => task[c].at # "checked"
  BY DEF TypeOK, Settled
\* What has to be shown of a step: it leaves the row alone and brings no call
\* about o to "checked".
<1>1. ASSUME row'[o] = row[o],
             \A c \in Call : task'[c] = task[c] \/ task'[c].order # o \/ task'[c].at # "checked"
      PROVE  Settled(o)' /\ row'[o] = row[o]
  BY <1>0, <1>1 DEF Settled
<1>2. ASSUME NEW p \in Order, Place(p) \/ Announce(p) \/ LoseAnnouncement(p)
      PROVE  row'[o] = row[o] /\ task' = task
  BY <1>0, <1>2 DEF Place, Announce, LoseAnnouncement, Finished, Absent
<1>3. ASSUME NEW c \in Call, NEW p \in Order,
             StartNotice(c, p) \/ \E to \in Target : Request(c, p, to)
      PROVE  row'[o] = row[o] /\ \A d \in Call : task'[d] = task[d] \/ task'[d].at # "checked"
  BY <1>0, <1>3 DEF StartNotice, Request
<1>4. ASSUME NEW c \in Call, Check(c)
      PROVE  /\ row'[o] = row[o]
             /\ \A d \in Call : \/ task'[d] = task[d]
                                \/ task'[d].order # o \/ task'[d].at # "checked"
  <2>1. CASE task[c].order = o
    <3>1. Advance(c, "refused") /\ "refused" \in At
      BY <1>0, <1>4, <2>1 DEF Check, MayMove, At, Ended
    <3>2. OnlyAt(c, "refused")
      BY <1>0, <3>1, AdvanceFacts
    <3>3. QED
      BY <1>4, <3>2 DEF Check, OnlyAt
  <2>2. CASE task[c].order # o
    <3>1. PICK at \in {"checked", "refused"} : Advance(c, at)
      BY <1>4 DEF Check
    <3>2. OnlyAt(c, at)
      BY <1>0, <3>1, AdvanceFacts DEF At, Ended
    <3>3. QED
      BY <1>4, <2>2, <3>2 DEF Check, OnlyAt
  <2>3. QED
    BY <2>1, <2>2
<1>5. ASSUME NEW c \in Call, UpdateRow(c) \/ RecordEvent(c) \/ Publish(c) \/ Fail(c)
      PROVE  row'[o] = row[o] /\ \A d \in Call : task'[d] = task[d] \/ task'[d].at # "checked"
  <2>1. row'[o] = row[o]
    BY <1>0, <1>5 DEF UpdateRow, RecordEvent, Publish, Fail
  <2>2. PICK at \in {"updated", "recorded", "done", "failed"} : Advance(c, at)
    BY <1>5 DEF UpdateRow, RecordEvent, Publish, Fail
  <2>3. OnlyAt(c, at)
    BY <1>0, <2>2, AdvanceFacts DEF At, Ended
  <2>4. QED
    BY <2>1, <2>3 DEF OnlyAt
<1>6. ASSUME NEW c \in Call, Reread(c)
      PROVE  row'[o] = row[o] /\ \A d \in Call : task'[d] = task[d] \/ task'[d].at # "checked"
  <2>1. task' = [task EXCEPT ![c] = RereadTask(c)] /\ row' = row
    BY <1>6 DEF Reread, RereadTask
  <2>2. RereadTask(c).at = "reread"
    BY <1>0, RereadTaskFacts
  <2>3. QED
    BY <1>0, <2>1, <2>2
<1>7. CASE UNCHANGED vars
  BY <1>1, <1>7 DEF vars
<1>8. CASE \E p \in Order : Place(p) \/ Announce(p) \/ LoseAnnouncement(p)
  BY <1>1, <1>2, <1>8
<1>9. CASE \E c \in Call, p \in Order : StartNotice(c, p) \/ \E to \in Target : Request(c, p, to)
  BY <1>1, <1>3, <1>9
<1>10. CASE \E c \in Call : Serve(c) \/ Fail(c)
  BY <1>1, <1>4, <1>5, <1>6, <1>10 DEF Serve
<1>11. QED
  BY <1>1, <1>7, <1>8, <1>9, <1>10 DEF Next, Finish

\* Once an order is finished and no call is past the check, its row never
\* changes again.
THEOREM SettledOrdersStay == Spec => SettledIsFinal
  BY SettledStep, LifecycleTypeCorrect, PTL DEF Spec, SettledIsFinal

-------------------------------------------------------------------------------

\* An order that is not stored has no timestamps.
AbsentIsBlank == \A o \in Order : row[o].status = Absent => row[o].stamps = {}

\* Recording an event explains its status and keeps every explanation.
LEMMA RecordExplains ==
    ASSUME TypeOK, NEW c \in Call, RecordEvent(c)
    PROVE  \A o \in Order : /\ Explained(o) \subseteq Explained(o)'
                            /\ o = task[c].order => task[c].to \in Explained(o)'
<1>0. PICK o \in Order, to \in Target : o = task[c].order /\ to = task[c].to
  BY DEF RecordEvent, TypeOK
<1> DEFINE e == [status |-> to, by |-> c]
<1>1. to \in Status /\ trail \in [Order -> Seq(Event)]
  BY TargetType DEF TypeOK, Status
<1>2. e \in Event /\ e.status = to
  BY <1>1 DEF Event
<1>3. trail'[o] = Append(trail[o], e) /\ \A p \in Order \ {o} : trail'[p] = trail[p]
  BY <1>0, <1>1 DEF RecordEvent, Recorded
<1>4. /\ trail[o] \in Seq(Event)
      /\ DOMAIN trail'[o] = 1..(Len(trail[o]) + 1)
      /\ DOMAIN trail[o] = 1..Len(trail[o])
      /\ Len(trail[o]) \in Nat
      /\ \A i \in 1..Len(trail[o]) : trail'[o][i] = trail[o][i]
      /\ trail'[o][Len(trail[o]) + 1] = e
  BY <1>1, <1>2, <1>3
<1>5. Explained(o) \subseteq Explained(o)'
  BY <1>4 DEF Explained
<1>6. to \in Explained(o)'
  BY <1>2, <1>4 DEF Explained
<1>7. \A p \in Order \ {o} : Explained(p)' = Explained(p)
  BY <1>3 DEF Explained
<1>8. QED
  BY <1>0, <1>5, <1>6, <1>7

\* A stamp that lacks its event keeps its witness, for one step.
LEMMA StampsStep ==
    TypeOK /\ AbsentIsBlank /\ StampsAreExplained /\ [Next]_vars
        => AbsentIsBlank' /\ StampsAreExplained'
<1> SUFFICES ASSUME TypeOK, AbsentIsBlank, StampsAreExplained, [Next]_vars,
                    NEW o \in Order
             PROVE  /\ row'[o].status = Absent => row'[o].stamps = {}
                    /\ \A s \in row'[o].stamps \ Explained(o)' :
                           \E c \in Call : /\ task'[c].order = o /\ task'[c].to = s
                                           /\ task'[c].at \in {"updated", "failed"}
  BY DEF AbsentIsBlank, StampsAreExplained
<1> DEFINE Owes(s) == \E c \in Call : /\ task[c].order = o /\ task[c].to = s
                                      /\ task[c].at \in {"updated", "failed"}
<1> DEFINE Goal == /\ row'[o].status = Absent => row'[o].stamps = {}
                   /\ \A s \in row'[o].stamps \ Explained(o)' : Owes(s)'
<1>0. /\ task \in [Call -> Task]
      /\ row \in [Order -> Row]
      /\ row[o].status = Absent => row[o].stamps = {}
      /\ \A s \in row[o].stamps \ Explained(o) : Owes(s)
  BY DEF TypeOK, AbsentIsBlank, StampsAreExplained
\* A step that neither writes the row nor loses an explanation has only to
\* keep the witnesses.
<1>1. ASSUME row'[o] = row[o], Explained(o) \subseteq Explained(o)',
             \A s : Owes(s) => Owes(s)' \/ s \in Explained(o)'
      PROVE  Goal
  BY <1>0, <1>1
<1>2. ASSUME NEW p \in Order, Place(p) PROVE Goal
  <2>1. CASE p = o
    <3>1. row'[o].stamps = {} /\ row'[o].status # Absent
      <4>1. row[o].stamps = {} /\ row[o] \in Row
        BY <1>0, <1>2, <2>1 DEF Place
      <4>2. row'[o] = [row[o] EXCEPT !.status = "PENDING"]
        BY <1>0, <1>2, <2>1 DEF Place
      <4>3. QED
        BY <4>1, <4>2 DEF Row, Absent
    <3>2. QED
      BY <3>1
  <2>2. CASE p # o
    <3>1. row'[o] = row[o] /\ trail'[o] = trail[o] /\ task' = task
      BY <1>0, <1>2, <2>2 DEF Place, TypeOK
    <3>2. Explained(o)' = Explained(o)
      BY <3>1 DEF Explained
    <3>3. QED
      BY <1>0, <3>1, <3>2
  <2>3. QED
    BY <2>1, <2>2
<1>3. ASSUME trail' = trail, row'[o] = row[o],
             \A c \in Call : task[c].at \in {"updated", "failed"} =>
                 /\ task'[c].at \in {"updated", "failed"}
                 /\ task'[c].order = task[c].order /\ task'[c].to = task[c].to
      PROVE  Goal
  <2>1. Explained(o)' = Explained(o)
    BY <1>3 DEF Explained
  <2>2. \A s : Owes(s) => Owes(s)'
    BY <1>3
  <2>3. QED
    BY <1>1, <1>3, <2>1, <2>2
<1>4. ASSUME NEW p \in Order, Announce(p) \/ LoseAnnouncement(p) PROVE Goal
  BY <1>3, <1>4 DEF Announce, LoseAnnouncement
<1>5. ASSUME NEW c \in Call, NEW p \in Order,
             StartNotice(c, p) \/ \E to \in Target : Request(c, p, to)
      PROVE  Goal
  BY <1>0, <1>3, <1>5 DEF StartNotice, Request
<1>6. ASSUME NEW c \in Call, Check(c) \/ Publish(c) \/ Fail(c) PROVE Goal
  <2>1. PICK at \in {"checked", "refused", "done", "failed"} :
            /\ Advance(c, at)
            /\ task[c].at \in {"updated", "failed"} => at = "failed"
    BY <1>6 DEF Check, Publish, Fail, Ended
  <2>2. OnlyAt(c, at)
    BY <1>0, <2>1, AdvanceFacts DEF At, Ended
  <2>3. trail' = trail /\ row' = row
    BY <1>6 DEF Check, Publish, Fail
  <2>4. QED
    BY <1>3, <2>1, <2>2, <2>3 DEF OnlyAt
<1>7. ASSUME NEW c \in Call, UpdateRow(c) PROVE Goal
  <2>1. OnlyAt(c, "updated") /\ task[c].at = "checked" /\ trail' = trail
    BY <1>0, <1>7, AdvanceFacts DEF UpdateRow, At
  <2>2. Explained(o)' = Explained(o)
    BY <2>1 DEF Explained
  <2>3. \A s : Owes(s) => Owes(s)'
    BY <2>1 DEF OnlyAt
  <2>4. CASE task[c].order = o
    <3>1. PICK to \in Target : to = task[c].to
      BY <1>7 DEF UpdateRow, TypeOK
    <3>2. row'[o].stamps = row[o].stamps \cup {to} /\ row'[o].status # Absent
      BY <1>0, <1>7, <2>4, <3>1, MovedIsRow DEF UpdateRow, Moved
    <3>3. Owes(to)'
      BY <2>1, <2>4, <3>1 DEF OnlyAt
    <3>4. QED
      BY <1>0, <2>2, <2>3, <3>2, <3>3
  <2>5. CASE task[c].order # o
    BY <1>0, <1>1, <1>7, <2>2, <2>3, <2>5 DEF UpdateRow
  <2>6. QED
    BY <2>4, <2>5
<1>8. ASSUME NEW c \in Call, RecordEvent(c) PROVE Goal
  <2>1. OnlyAt(c, "recorded") /\ task[c].at = "updated" /\ row' = row
    BY <1>0, <1>8, AdvanceFacts DEF RecordEvent, At
  <2>2. /\ Explained(o) \subseteq Explained(o)'
        /\ o = task[c].order => task[c].to \in Explained(o)'
    BY <1>8, RecordExplains
  <2>3. ASSUME NEW s, Owes(s) PROVE Owes(s)' \/ s \in Explained(o)'
    BY <2>1, <2>2, <2>3 DEF OnlyAt
  <2>4. QED
    BY <1>1, <2>1, <2>2, <2>3
<1>9. ASSUME NEW c \in Call, Reread(c) PROVE Goal
  <2>1. task' = [task EXCEPT ![c] = RereadTask(c)] /\ trail' = trail /\ row' = row
    BY <1>9 DEF Reread, RereadTask
  <2>2. \A d \in Call : task[d].at \in {"updated", "failed"} => task'[d] = task[d]
    BY <1>0, <1>9, <2>1 DEF Reread
  <2>3. trail' = trail /\ row'[o] = row[o]
    BY <2>1
  <2>4. QED
    BY <1>3, <2>2, <2>3
<1>10. CASE UNCHANGED vars
  BY <1>3, <1>10 DEF vars
<1>11. CASE \E p \in Order : Place(p) \/ Announce(p) \/ LoseAnnouncement(p)
  BY <1>2, <1>4, <1>11
<1>12. CASE \E c \in Call, p \in Order : StartNotice(c, p) \/ \E to \in Target : Request(c, p, to)
  BY <1>5, <1>12
<1>13. CASE \E c \in Call : Serve(c) \/ Fail(c)
  BY <1>6, <1>7, <1>8, <1>9, <1>13 DEF Serve
<1>14. QED
  BY <1>10, <1>11, <1>12, <1>13 DEF Next, Finish

\* However calls overlap, a timestamp without its event belongs to a call
\* between its two writes, or to one that failed there.
THEOREM StampsExplained == Spec => []StampsAreExplained
<1>1. Init => AbsentIsBlank /\ StampsAreExplained
  BY DEF Init, AbsentIsBlank, StampsAreExplained
<1>2. QED
  BY <1>1, StampsStep, LifecycleTypeCorrect, PTL DEF Spec

-------------------------------------------------------------------------------

\* What a published message does to who has been told.
LEMMA PublishTells ==
    ASSUME feed \in Seq(Message), NEW m \in Message, feed' = Append(feed, m),
           row' = row, NEW o \in Order
    PROVE  /\ Told(o) => Told(o)'
           /\ m.order = o /\ m.status = row[o].status => Told(o)'
<1>1. /\ Len(feed) \in Nat
      /\ DOMAIN feed = 1..Len(feed)
      /\ DOMAIN feed' = 1..(Len(feed) + 1)
      /\ \A i \in 1..Len(feed) : feed'[i] = feed[i]
      /\ feed'[Len(feed) + 1] = m
  OBVIOUS
<1>2. Told(o) => Told(o)'
  BY <1>1 DEF Told
<1>3. m.order = o /\ m.status = row[o].status => Told(o)'
  BY <1>1 DEF Told
<1>4. QED
  BY <1>2, <1>3

\* Call c has yet to publish status s of order o, or failed before it did.
Brings(c, o, s) ==
    /\ task[c].order = o
    /\ \/ task[c].at \in {"updated", "recorded", "failed"} /\ task[c].to = s
       \/ task[c].at \in {"reread", "failed"} /\ task[c].payload = s

OnItsWay(o) ==
    \/ row[o].status \in {Absent}
    \/ Told(o)
    \/ row[o].status = "PENDING" /\ announced[o] \in {"owed", "lost"}
    \/ \E c \in Call : Brings(c, o, row[o].status)

LEMMA OnItsWayMeaning == UntoldIsOnItsWay <=> \A o \in Order : OnItsWay(o)
  BY DEF UntoldIsOnItsWay, OnItsWay, Brings

\* A status nobody was told of stays on its way, for one step.
LEMMA UntoldStep == TypeOK /\ UntoldIsOnItsWay /\ [Next]_vars => UntoldIsOnItsWay'
<1> SUFFICES ASSUME TypeOK, UntoldIsOnItsWay, [Next]_vars, NEW o \in Order
             PROVE  OnItsWay(o)'
  BY OnItsWayMeaning DEF UntoldIsOnItsWay, OnItsWay, Brings, Told
<1>0. /\ task \in [Call -> Task]
      /\ row \in [Order -> Row]
      /\ feed \in Seq(Message)
      /\ announced \in [Order -> {"no", "owed", "sent", "lost"}]
      /\ OnItsWay(o)
  BY OnItsWayMeaning DEF TypeOK
\* A step that neither writes the row nor announces has to keep what was told
\* and what the calls bring.
<1>1. ASSUME row'[o] = row[o], announced'[o] = announced[o], Told(o) => Told(o)',
             \A c \in Call, s \in Status :
                 s = row[o].status /\ Brings(c, o, s) => Brings(c, o, s)' \/ Told(o)'
      PROVE  OnItsWay(o)'
  <2>1. row[o].status \in Status \cup {Absent}
    BY <1>0 DEF Row
  <2>2. QED
    BY <1>0, <1>1, <2>1 DEF OnItsWay
<1>2. ASSUME NEW p \in Order, Place(p) PROVE OnItsWay(o)'
  <2>1. CASE p = o
    <3>1. row'[o] = [row[o] EXCEPT !.status = "PENDING"] /\ row[o] \in Row
      BY <1>0, <1>2, <2>1 DEF Place
    <3>2. row'[o].status = "PENDING" /\ announced'[o] = "owed"
      BY <1>0, <1>2, <2>1, <3>1 DEF Place, Row
    <3>3. QED
      BY <3>2 DEF OnItsWay
  <2>2. CASE p # o
    <3>1. row'[o] = row[o] /\ announced'[o] = announced[o] /\ task' = task /\ feed' = feed
      BY <1>0, <1>2, <2>2 DEF Place
    <3>2. QED
      BY <1>1, <3>1 DEF Told, Brings
  <2>3. QED
    BY <2>1, <2>2
<1>3. ASSUME NEW p \in Order, Announce(p) PROVE OnItsWay(o)'
  <2> DEFINE m == [event |-> "order.created", order |-> p, status |-> "PENDING"]
  <2>1. m \in Message
    BY DEF Message, Status
  <2>2. /\ Told(o) => Told(o)'
        /\ p = o /\ row[o].status = "PENDING" => Told(o)'
    BY <1>0, <1>3, <2>1, PublishTells DEF Announce
  <2>3. /\ row' = row /\ task' = task
        /\ p # o => announced'[o] = announced[o]
    BY <1>0, <1>3 DEF Announce
  <2>4. QED
    BY <1>0, <2>2, <2>3 DEF OnItsWay, Brings
<1>4. ASSUME NEW p \in Order, LoseAnnouncement(p) PROVE OnItsWay(o)'
  <2>1. /\ row' = row /\ task' = task /\ feed' = feed
        /\ announced'[o] = announced[o] \/ announced'[o] = "lost"
    BY <1>0, <1>4 DEF LoseAnnouncement
  <2>2. announced[o] \in {"owed", "lost"} => announced'[o] \in {"owed", "lost"}
    BY <2>1
  <2>3. QED
    BY <1>0, <2>1, <2>2 DEF OnItsWay, Told, Brings
<1>5. ASSUME NEW c \in Call, NEW p \in Order,
             StartNotice(c, p) \/ \E to \in Target : Request(c, p, to)
      PROVE  OnItsWay(o)'
  <2>1. /\ task[c].at = "unused" /\ \A d \in Call \ {c} : task'[d] = task[d]
        /\ row' = row /\ announced' = announced /\ feed' = feed
    BY <1>0, <1>5 DEF StartNotice, Request
  <2>2. QED
    BY <1>1, <2>1 DEF Told, Brings
\* A call that only moves on, past nothing that it brings.
<1>6. ASSUME NEW c \in Call, Check(c) \/ RecordEvent(c) \/ Fail(c) PROVE OnItsWay(o)'
  <2>1. PICK at \in {"checked", "refused", "recorded", "failed"} :
            /\ Advance(c, at)
            /\ task[c].at \in {"updated", "recorded", "reread", "failed"} =>
                   \/ at = "failed"
                   \/ at = "recorded" /\ task[c].at = "updated"
    BY <1>6 DEF Check, RecordEvent, Fail
  <2>2. OnlyAt(c, at)
    BY <1>0, <2>1, AdvanceFacts DEF At, Ended
  <2>3. row' = row /\ announced' = announced /\ feed' = feed
    BY <1>6 DEF Check, RecordEvent, Fail
  <2>4. QED
    BY <1>1, <2>1, <2>2, <2>3 DEF Told, Brings, OnlyAt
<1>7. ASSUME NEW c \in Call, UpdateRow(c) PROVE OnItsWay(o)'
  <2>1. /\ OnlyAt(c, "updated") /\ task[c].at = "checked"
        /\ announced' = announced /\ feed' = feed
    BY <1>0, <1>7, AdvanceFacts DEF UpdateRow, At
  <2>2. CASE task[c].order = o
    <3>1. row'[o].status = task[c].to
      BY <1>0, <1>7, <2>2 DEF UpdateRow, Moved
    <3>2. Brings(c, o, row[o].status)'
      BY <2>1, <2>2, <3>1 DEF Brings, OnlyAt
    <3>3. QED
      BY <3>2 DEF OnItsWay
  <2>3. CASE task[c].order # o
    <3>1. row'[o] = row[o]
      BY <1>0, <1>7, <2>3 DEF UpdateRow
    <3>2. QED
      BY <1>1, <2>1, <2>3, <3>1 DEF Told, Brings, OnlyAt
  <2>4. QED
    BY <2>2, <2>3
<1>8. ASSUME NEW c \in Call, Reread(c) PROVE OnItsWay(o)'
  <2>1. /\ task' = [task EXCEPT ![c] = RereadTask(c)] /\ task[c].at = "recorded"
        /\ row' = row /\ announced' = announced /\ feed' = feed
    BY <1>8 DEF Reread, RereadTask
  <2>2. /\ task'[c].at = "reread" /\ task'[c].order = task[c].order
        /\ task'[c].payload = row[task[c].order].status
        /\ \A d \in Call \ {c} : task'[d] = task[d]
    BY <1>0, <2>1, RereadTaskFacts DEF Serialized
  <2>3. QED
    BY <1>1, <2>1, <2>2 DEF Told, Brings
<1>9. ASSUME NEW c \in Call, Publish(c) PROVE OnItsWay(o)'
  <2> DEFINE m == [event |-> "order.updated", order |-> task[c].order,
                   status |-> task[c].payload]
  <2>1. m \in Message
    BY <1>0, <1>9 DEF Publish, TypeOK, Task, Message
  <2>2. /\ Told(o) => Told(o)'
        /\ task[c].order = o /\ task[c].payload = row[o].status => Told(o)'
    BY <1>0, <1>9, <2>1, PublishTells DEF Publish
  <2>3. /\ OnlyAt(c, "done") /\ task[c].at = "reread"
        /\ row' = row /\ announced' = announced
    BY <1>0, <1>9, AdvanceFacts DEF Publish, At, Ended
  <2>4. QED
    BY <1>1, <2>2, <2>3 DEF Brings, OnlyAt
<1>10. CASE UNCHANGED vars
  BY <1>1, <1>10 DEF vars, Told, Brings
<1>11. CASE \E p \in Order : Place(p) \/ Announce(p) \/ LoseAnnouncement(p)
  BY <1>2, <1>3, <1>4, <1>11
<1>12. CASE \E c \in Call, p \in Order : StartNotice(c, p) \/ \E to \in Target : Request(c, p, to)
  BY <1>5, <1>12
<1>13. CASE \E c \in Call : Serve(c) \/ Fail(c)
  BY <1>6, <1>7, <1>8, <1>9, <1>13 DEF Serve
<1>14. QED
  BY <1>10, <1>11, <1>12, <1>13 DEF Next, Finish

\* A status no board was ever told of is still on its way, in the hands of a
\* call that has not published it or that failed.
THEOREM UntoldOnItsWay == Spec => []UntoldIsOnItsWay
<1>1. Init => UntoldIsOnItsWay
  BY DEF Init, UntoldIsOnItsWay
<1>2. QED
  BY <1>1, UntoldStep, LifecycleTypeCorrect, PTL DEF Spec

-------------------------------------------------------------------------------
(* The history                                                                *)

\* Where a call stands that may have written its event; before that it has none.
Written == {"recorded", "reread", "done", "failed"}

\* Event i of o is the order's first, or the work of a call past writing it.
EventIsTrue(o, i) ==
    LET e == trail[o][i] IN
    \/ i = 1 /\ e = [status |-> "PENDING", by |-> None]
    \/ /\ e.by \in Call
       /\ e.status \in row[o].stamps
       /\ task[e.by].order = o /\ task[e.by].to = e.status
       /\ task[e.by].at \in Written

\* No call has two events of o.
OnceEach(o) ==
    \A i, j \in DOMAIN trail[o] :
        trail[o][i].by \in Call /\ trail[o][i].by = trail[o][j].by => i = j

\* A call that has still to write its event has stamped the row.
StampedFirst ==
    \A c \in Call : task[c].at = "updated" => task[c].to \in row[task[c].order].stamps

TrueHistory ==
    /\ StampedFirst
    /\ \A o \in Order : OnceEach(o) /\ \A i \in DOMAIN trail[o] : EventIsTrue(o, i)

LEMMA TrueHistoryMeans ==
    TrueHistory => HistoryIsTrue
<1> SUFFICES ASSUME TrueHistory, NEW o \in Order, NEW i \in DOMAIN trail[o],
                    ~(i = 1 /\ trail[o][i] = [status |-> "PENDING", by |-> None])
             PROVE  /\ trail[o][i].by \in Call
                    /\ trail[o][i].status \in row[o].stamps
                    /\ task[trail[o][i].by].order = o
                    /\ task[trail[o][i].by].to = trail[o][i].status
                    /\ \A j \in DOMAIN trail[o] : trail[o][j].by = trail[o][i].by => j = i
  BY DEF HistoryIsTrue
<1>1. EventIsTrue(o, i) /\ OnceEach(o)
  BY DEF TrueHistory
<1>2. QED
  BY <1>1 DEF EventIsTrue, OnceEach

\* An order whose trail a step leaves alone keeps its history, as long as its
\* stamps stay and calls past writing their event keep what they were about.
LEMMA HistoryKept ==
    ASSUME NEW o \in Order, trail'[o] = trail[o],
           OnceEach(o), \A i \in DOMAIN trail[o] : EventIsTrue(o, i),
           row[o].stamps \subseteq row'[o].stamps,
           \A c \in Call : task[c].at \in Written =>
               /\ task'[c].at \in Written
               /\ task'[c].order = task[c].order /\ task'[c].to = task[c].to
    PROVE  OnceEach(o)' /\ \A i \in DOMAIN trail'[o] : EventIsTrue(o, i)'
<1>1. OnceEach(o)'
  BY DEF OnceEach
<1>2. ASSUME NEW i \in DOMAIN trail[o] PROVE EventIsTrue(o, i)'
  <2>1. EventIsTrue(o, i)
    OBVIOUS
  <2>2. QED
    BY <2>1 DEF EventIsTrue
<1>3. QED
  BY <1>1, <1>2

\* A call writes its event: the first of its own on the order.
LEMMA RecordKeepsHistory ==
    ASSUME TypeOK, TrueHistory, NEW c \in Call, RecordEvent(c)
    PROVE  TrueHistory'
<1>0. PICK o \in Order, to \in Target : o = task[c].order /\ to = task[c].to
  BY DEF RecordEvent, TypeOK
<1> DEFINE e == [status |-> to, by |-> c]
<1>1. OnlyAt(c, "recorded") /\ task[c].at = "updated" /\ row' = row
  BY AdvanceFacts DEF RecordEvent, At, TypeOK
<1>2. trail \in [Order -> Seq(Event)] /\ e \in Event
  BY TargetType DEF TypeOK, Event, Status
<1>3. trail'[o] = Append(trail[o], e) /\ \A p \in Order \ {o} : trail'[p] = trail[p]
  BY <1>0, <1>2 DEF RecordEvent, Recorded
<1>4. /\ Len(trail[o]) \in Nat
      /\ DOMAIN trail[o] = 1..Len(trail[o])
      /\ DOMAIN trail'[o] = 1..(Len(trail[o]) + 1)
      /\ \A i \in 1..Len(trail[o]) : trail'[o][i] = trail[o][i]
      /\ trail'[o][Len(trail[o]) + 1] = e
  BY <1>2, <1>3
<1>5. \A i \in DOMAIN trail[o] : EventIsTrue(o, i)
  BY DEF TrueHistory
<1>6. \A i \in DOMAIN trail[o] : trail[o][i].by # c
  BY <1>1, <1>5, NoneFresh DEF EventIsTrue, Written
<1>7. StampedFirst'
  BY <1>1 DEF TrueHistory, StampedFirst, OnlyAt
<1>8. ASSUME NEW p \in Order \ {o}
      PROVE  OnceEach(p)' /\ \A i \in DOMAIN trail'[p] : EventIsTrue(p, i)'
  BY <1>1, <1>3, HistoryKept DEF TrueHistory, OnlyAt, Written
<1>9. OnceEach(o)'
  <2>1. OnceEach(o)
    BY DEF TrueHistory
  <2>2. e.by = c
    OBVIOUS
  <2>3. QED
    BY <1>4, <1>6, <2>1, <2>2 DEF OnceEach
<1>10. ASSUME NEW i \in DOMAIN trail'[o] PROVE EventIsTrue(o, i)'
  <2>1. CASE i = Len(trail[o]) + 1
    <3>1. to \in row[o].stamps
      BY <1>0, <1>1 DEF TrueHistory, StampedFirst
    <3>2. e.by = c /\ e.status = to /\ trail'[o][i] = e
      BY <1>4, <2>1
    <3>3. QED
      BY <1>0, <1>1, <3>1, <3>2 DEF EventIsTrue, OnlyAt, Written
  <2>2. CASE i \in DOMAIN trail[o]
    <3>1. EventIsTrue(o, i) /\ trail'[o][i] = trail[o][i]
      BY <1>4, <1>5, <2>2
    <3>2. QED
      BY <1>1, <3>1 DEF EventIsTrue, OnlyAt, Written
  <2>3. QED
    BY <1>4, <2>1, <2>2
<1>11. QED
  BY <1>7, <1>8, <1>9, <1>10 DEF TrueHistory

\* An order is placed with one event and leaves the others alone.
LEMMA PlaceKeepsHistory ==
    ASSUME TypeOK, TrueHistory, NEW o \in Order, Place(o)
    PROVE  TrueHistory'
<1>1. task' = task /\ \A p \in Order : row'[p].stamps = row[p].stamps
  BY DEF Place, TypeOK, Row
<1>2. trail'[o] = <<[status |-> "PENDING", by |-> None]>>
  BY DEF Place, TypeOK
<1>3. ASSUME NEW p \in Order \ {o}
      PROVE  OnceEach(p)' /\ \A i \in DOMAIN trail'[p] : EventIsTrue(p, i)'
  <2>1. trail'[p] = trail[p]
    BY DEF Place, TypeOK
  <2>2. QED
    BY <1>1, <2>1, HistoryKept DEF TrueHistory
<1>4. OnceEach(o)' /\ \A i \in DOMAIN trail'[o] : EventIsTrue(o, i)'
  BY <1>2 DEF OnceEach, EventIsTrue
<1>5. StampedFirst'
  <2>1. ASSUME NEW c \in Call, task[c].at = "updated" PROVE task[c].order \in Order
    BY <2>1 DEF TypeOK
  <2>2. QED
    BY <1>1, <2>1 DEF TrueHistory, StampedFirst
<1>6. QED
  BY <1>3, <1>4, <1>5 DEF TrueHistory

LEMMA HistoryStep ==
    TypeOK /\ TrueHistory /\ [Next]_vars => TrueHistory'
<1> SUFFICES ASSUME TypeOK, TrueHistory, [Next]_vars PROVE TrueHistory'
  OBVIOUS
<1>0. task \in [Call -> Task] /\ row \in [Order -> Row]
  BY DEF TypeOK
\* All other steps leave the trail alone.
<1>1. ASSUME trail' = trail, StampedFirst',
             \A o \in Order : row[o].stamps \subseteq row'[o].stamps,
             \A c \in Call : task[c].at \in Written =>
                 /\ task'[c].at \in Written
                 /\ task'[c].order = task[c].order /\ task'[c].to = task[c].to
      PROVE  TrueHistory'
  BY <1>1, HistoryKept DEF TrueHistory
<1>2. ASSUME trail' = trail, row' = row,
             \A c \in Call :
                 /\ task[c].at \in Written =>
                        /\ task'[c].at \in Written
                        /\ task'[c].order = task[c].order /\ task'[c].to = task[c].to
                 /\ task'[c].at = "updated" =>
                        /\ task[c].at = "updated"
                        /\ task'[c].order = task[c].order /\ task'[c].to = task[c].to
      PROVE  TrueHistory'
  <2>1. StampedFirst'
    BY <1>2 DEF TrueHistory, StampedFirst
  <2>2. QED
    BY <1>1, <1>2, <2>1
<1>3. ASSUME NEW o \in Order, Announce(o) \/ LoseAnnouncement(o) PROVE TrueHistory'
  BY <1>2, <1>3 DEF Announce, LoseAnnouncement
<1>4. ASSUME NEW c \in Call, NEW o \in Order,
             StartNotice(c, o) \/ \E to \in Target : Request(c, o, to)
      PROVE  TrueHistory'
  <2>1. task[c].at = "unused" /\ trail' = trail /\ row' = row
    BY <1>4 DEF StartNotice, Request
  <2>2. task'[c].at \in {"sent", "recorded"} /\ \A d \in Call \ {c} : task'[d] = task[d]
    BY <1>0, <1>4 DEF StartNotice, Request
  <2>3. QED
    BY <1>2, <2>1, <2>2 DEF Written
<1>5. ASSUME NEW c \in Call, Check(c) \/ Publish(c) \/ Fail(c) PROVE TrueHistory'
  <2>1. PICK at \in {"checked", "refused", "done", "failed"} :
            /\ Advance(c, at)
            /\ task[c].at \in Written => at \in Written
    BY <1>5 DEF Check, Publish, Fail, Ended, Written
  <2>2. OnlyAt(c, at)
    BY <1>0, <2>1, AdvanceFacts DEF At, Ended
  <2>3. trail' = trail /\ row' = row
    BY <1>5 DEF Check, Publish, Fail
  <2>4. QED
    BY <1>2, <2>1, <2>2, <2>3 DEF OnlyAt
<1>6. ASSUME NEW c \in Call, UpdateRow(c) PROVE TrueHistory'
  <2>1. OnlyAt(c, "updated") /\ task[c].at = "checked" /\ trail' = trail
    BY <1>0, <1>6, AdvanceFacts DEF UpdateRow, At
  <2>2. PICK o \in Order, to \in Target : o = task[c].order /\ to = task[c].to
    BY <1>6 DEF UpdateRow, TypeOK
  <2>3. /\ row'[o].stamps = row[o].stamps \cup {to}
        /\ \A p \in Order \ {o} : row'[p] = row[p]
    BY <1>0, <1>6, <2>2 DEF UpdateRow, Moved
  <2>4. StampedFirst'
    <3>1. ASSUME NEW d \in Call, task'[d].at = "updated"
          PROVE  task'[d].to \in row'[task'[d].order].stamps
      <4>1. CASE d = c
        BY <2>1, <2>2, <2>3, <4>1 DEF OnlyAt
      <4>2. CASE d # c
        <5>1. task'[d] = task[d] /\ task[d].order \in Order
          BY <2>1, <3>1, <4>2 DEF OnlyAt, TypeOK
        <5>2. task[d].to \in row[task[d].order].stamps
          BY <3>1, <5>1 DEF TrueHistory, StampedFirst
        <5>3. QED
          BY <2>3, <5>1, <5>2
      <4>3. QED
        BY <4>1, <4>2
    <3>2. QED
      BY <3>1 DEF StampedFirst
  <2>5. QED
    BY <1>1, <2>1, <2>3, <2>4 DEF OnlyAt, Written
<1>7. ASSUME NEW c \in Call, Reread(c) PROVE TrueHistory'
  <2>1. task' = [task EXCEPT ![c] = RereadTask(c)] /\ trail' = trail /\ row' = row
    BY <1>7 DEF Reread, RereadTask
  <2>2. /\ task'[c].at = "reread" /\ task'[c].order = task[c].order /\ task'[c].to = task[c].to
        /\ \A d \in Call \ {c} : task'[d] = task[d]
    BY <1>0, <2>1, RereadTaskFacts
  <2>3. QED
    BY <1>2, <2>1, <2>2 DEF Written
<1>8. CASE UNCHANGED vars
  BY <1>2, <1>8 DEF vars
<1>9. CASE \E o \in Order : Place(o) \/ Announce(o) \/ LoseAnnouncement(o)
  BY <1>3, <1>9, PlaceKeepsHistory
<1>10. CASE \E c \in Call, o \in Order : StartNotice(c, o) \/ \E to \in Target : Request(c, o, to)
  BY <1>4, <1>10
<1>11. CASE \E c \in Call : Serve(c) \/ Fail(c)
  BY <1>5, <1>6, <1>7, <1>11, RecordKeepsHistory DEF Serve
<1>12. QED
  BY <1>8, <1>9, <1>10, <1>11 DEF Next, Finish

\* However calls overlap and fail, an order's history tells only what happened,
\* and each call's part of it once (transitionOrder).
THEOREM HistoryAlwaysTrue == Spec => []HistoryIsTrue
<1>1. Init => TrueHistory
  BY DEF Init, TrueHistory, StampedFirst, OnceEach, EventIsTrue
<1>2. QED
  BY <1>1, HistoryStep, TrueHistoryMeans, LifecycleTypeCorrect, PTL DEF Spec

-------------------------------------------------------------------------------

\* An order's status is one it is stamped with, or PENDING, which its first event
\* explains.
StatusStamped ==
    \A o \in Order : \/ row[o].status \in {Absent} \cup row[o].stamps
                     \/ row[o].status = "PENDING" /\ "PENDING" \in Explained(o)

\* A call failed only by a failure.
FailedByFailure == failures = 0 => \A c \in Call : task[c].at # "failed"

LEMMA StatusStampedStep ==
    TypeOK /\ StatusStamped /\ [Next]_vars => StatusStamped'
<1> SUFFICES ASSUME TypeOK, StatusStamped, [Next]_vars, NEW o \in Order
             PROVE  \/ row'[o].status \in {Absent} \cup row'[o].stamps
                    \/ row'[o].status = "PENDING" /\ "PENDING" \in Explained(o)'
  BY DEF StatusStamped
<1> DEFINE Goal == \/ row'[o].status \in {Absent} \cup row'[o].stamps
                   \/ row'[o].status = "PENDING" /\ "PENDING" \in Explained(o)'
<1>0. /\ row \in [Order -> Row] /\ row[o] \in Row
      /\ trail \in [Order -> Seq(Event)]
      /\ \/ row[o].status \in {Absent} \cup row[o].stamps
         \/ row[o].status = "PENDING" /\ "PENDING" \in Explained(o)
  BY DEF TypeOK, StatusStamped
<1>1. ASSUME row'[o] = row[o], Explained(o) \subseteq Explained(o)' PROVE Goal
  BY <1>0, <1>1
<1>2. ASSUME row' = row, trail' = trail PROVE Goal
  <2>1. Explained(o)' = Explained(o)
    BY <1>2 DEF Explained
  <2>2. QED
    BY <1>1, <1>2, <2>1
<1>3. ASSUME NEW p \in Order, Place(p) PROVE Goal
  <2>1. CASE p = o
    <3>1. row'[o] = [row[o] EXCEPT !.status = "PENDING"]
      BY <1>0, <1>3, <2>1 DEF Place
    <3>2. row'[o].status = "PENDING"
      BY <1>0, <3>1 DEF Row
    <3>3. trail'[o] = <<[status |-> "PENDING", by |-> None]>>
      BY <1>0, <1>3, <2>1 DEF Place
    <3>4. 1 \in DOMAIN trail'[o] /\ trail'[o][1].status = "PENDING"
      BY <3>3
    <3>5. "PENDING" \in Explained(o)'
      BY <3>4 DEF Explained
    <3>6. QED
      BY <3>2, <3>5
  <2>2. CASE p # o
    <3>1. row'[o] = row[o] /\ trail'[o] = trail[o]
      BY <1>0, <1>3, <2>2 DEF Place
    <3>2. Explained(o)' = Explained(o)
      BY <3>1 DEF Explained
    <3>3. QED
      BY <1>1, <3>1, <3>2
  <2>3. QED
    BY <2>1, <2>2
<1>4. ASSUME NEW c \in Call, UpdateRow(c) PROVE Goal
  <2>1. Explained(o)' = Explained(o)
    BY <1>4 DEF UpdateRow, Explained
  <2>2. CASE task[c].order = o
    <3>1. row'[o] = Moved(row[o], task[c].to)
      BY <1>0, <1>4, <2>2 DEF UpdateRow
    <3>2. QED
      BY <3>1 DEF Moved
  <2>3. CASE task[c].order # o
    <3>1. row'[o] = row[o]
      BY <1>0, <1>4, <2>3 DEF UpdateRow
    <3>2. QED
      BY <1>1, <2>1, <3>1
  <2>4. QED
    BY <2>2, <2>3
<1>5. ASSUME NEW c \in Call, RecordEvent(c) PROVE Goal
  BY <1>1, <1>5, RecordExplains DEF RecordEvent
<1>6. CASE UNCHANGED vars
  BY <1>2, <1>6 DEF vars
<1>7. CASE \E p \in Order : Place(p) \/ Announce(p) \/ LoseAnnouncement(p)
  BY <1>2, <1>3, <1>7 DEF Announce, LoseAnnouncement
<1>8. CASE \E c \in Call, p \in Order : StartNotice(c, p) \/ \E to \in Target : Request(c, p, to)
  BY <1>2, <1>8 DEF StartNotice, Request
<1>9. CASE \E c \in Call : Serve(c) \/ Fail(c)
  BY <1>2, <1>4, <1>5, <1>9 DEF Serve, Fail, Check, Reread, Publish
<1>10. QED
  BY <1>6, <1>7, <1>8, <1>9 DEF Next, Finish

LEMMA FailedStep ==
    TypeOK /\ FailedByFailure /\ [Next]_vars => FailedByFailure'
<1> SUFFICES ASSUME TypeOK, FailedByFailure, [Next]_vars, failures' = 0, NEW c \in Call
             PROVE  task'[c].at # "failed"
  BY DEF FailedByFailure
<1>0. task \in [Call -> Task] /\ task[c] \in Task /\ failures \in Nat
  BY MaxFailuresType DEF TypeOK
<1>1. ASSUME failures' = failures, task'[c].at = task[c].at \/ task'[c].at # "failed"
      PROVE  task'[c].at # "failed"
  BY <1>1 DEF FailedByFailure
<1>2. ASSUME NEW p \in Order, Place(p) \/ Announce(p) PROVE task'[c].at # "failed"
  BY <1>1, <1>2 DEF Place, Announce
<1>3. ASSUME NEW p \in Order, NEW d \in Call, StartNotice(d, p) \/ \E to \in Target : Request(d, p, to)
      PROVE  task'[c].at # "failed"
  BY <1>0, <1>1, <1>3 DEF StartNotice, Request
<1>4. ASSUME NEW d \in Call, Check(d) \/ UpdateRow(d) \/ RecordEvent(d) \/ Reread(d) \/ Publish(d)
      PROVE  task'[c].at # "failed"
  <2>1. failures' = failures
    BY <1>4 DEF Check, UpdateRow, RecordEvent, Reread, Publish
  <2>2. c # d => task'[c] = task[c]
    BY <1>0, <1>4 DEF Check, UpdateRow, RecordEvent, Reread, Publish, Advance
  <2>3. task'[d].at # "failed"
    BY <1>0, <1>4 DEF Check, UpdateRow, RecordEvent, Reread, Publish, Advance, Task
  <2>4. QED
    BY <1>1, <2>1, <2>2, <2>3
<1>5. ~\E d \in Call : Fail(d)
  BY <1>0 DEF Fail
<1>6. ~\E p \in Order : LoseAnnouncement(p)
  BY <1>0 DEF LoseAnnouncement
<1>7. CASE UNCHANGED vars
  BY <1>1, <1>7 DEF vars
<1>8. QED
  BY <1>2, <1>3, <1>4, <1>5, <1>6, <1>7 DEF Next, Serve, Finish

\* Until a statement fails, every status an order gets has its event or a call about
\* to write it, however calls overlap (transitionOrder's two writes).
THEOREM StatesExplained == Spec => []EventsUntilFailure
<1>1. ASSUME StatusStamped, FailedByFailure, StampsAreExplained PROVE EventsUntilFailure
  <2> SUFFICES ASSUME failures = 0, NEW o \in Order, row[o].status \notin {Absent} \cup Explained(o)
               PROVE  \E c \in Call : task[c].order = o /\ task[c].at = "updated"
    BY DEF EventsUntilFailure, NoStateWithoutEvent
  <2>1. row[o].status \in row[o].stamps \ Explained(o)
    BY <1>1 DEF StatusStamped
  <2>2. PICK c \in Call : task[c].order = o /\ task[c].at \in {"updated", "failed"}
    BY <1>1, <2>1 DEF StampsAreExplained
  <2>3. task[c].at # "failed"
    BY <1>1 DEF FailedByFailure
  <2>4. QED
    BY <2>2, <2>3
<1>2. Init => StatusStamped /\ FailedByFailure
  BY DEF Init, StatusStamped, FailedByFailure
<1>3. QED
  BY <1>1, <1>2, StatusStampedStep, FailedStep, StampsExplained, LifecycleTypeCorrect, PTL DEF Spec
================================================================================

------------------------- MODULE OrderNumberingProofs -------------------------
(***************************************************************************)
(* Proofs about OrderNumbering, for any set of calls, counters and pools.  *)
(***************************************************************************)
EXTENDS OrderNumberingProps, FiniteSetTheorems, TLAPS

\* The strengthening. Numbers(k) is 1..NextNumber(k)-1, or one more when an
\* order is stored whose transaction has not moved the counter (yet). No call
\* carries a number beyond the next one; the call holding the row carries
\* exactly the next one, and after its insert that number is stored.
Contiguous ==
    \A k \in Key : \/ Numbers(k) = 1..(NextNumber(k) - 1)
                   \/ Numbers(k) = 1..NextNumber(k)

Carrying == {"allocated", "inserting", "inserted"}

NumbersBehind ==
    \A r \in Req : pc[r] \in Carrying =>
        num[r] \in 1..NextNumber(KeyOf[r])

HolderIsCurrent ==
    \A r \in Req : open[r] /\ pc[r] \in Carrying =>
        /\ lock[KeyOf[r]] = r
        /\ num[r] = NextNumber(KeyOf[r])

InsertedIsStored ==
    \A r \in Req : pc[r] = "inserted" =>
        [key |-> KeyOf[r], num |-> num[r], req |-> r] \in orders

OpenWhere ==
    \A r \in Req : open[r] => pc[r] \in {"ensuring", "locking"} \cup Carrying

IInv ==
    /\ TypeOK
    /\ Contiguous
    /\ NumbersBehind
    /\ HolderIsCurrent
    /\ InsertedIsStored
    /\ OpenWhere
-------------------------------------------------------------------------------

USE ReqFinite, KeyOfType, NoReqFresh, PoolSizesType, MaxFaultsType

\* Before any order is placed the strengthened invariant holds.
LEMMA InitIInv == Init => IInv
<1> SUFFICES ASSUME Init PROVE IInv
  OBVIOUS
<1>1. TypeOK
  BY DEF Init, TypeOK, PC, Running, Failures, Order
<1>2. Contiguous
  BY DEF Init, Contiguous, Numbers, NextNumber
<1>3. NumbersBehind /\ HolderIsCurrent /\ InsertedIsStored /\ OpenWhere
  BY DEF Init, NumbersBehind, HolderIsCurrent, InsertedIsStored, OpenWhere, Carrying
<1>4. QED
  BY <1>1, <1>2, <1>3 DEF IInv

\* Types alone are preserved by every step, given that a carried number is a
\* positive one.
LEMMA TypeStep == IInv /\ [Next]_vars => TypeOK'
<1> SUFFICES ASSUME IInv, [Next]_vars PROVE TypeOK'
  OBVIOUS
<1> USE DEF TypeOK, PC, Running, Failures
<1>0. TypeOK
  BY DEF IInv
<1>n. \A k \in Key : NextNumber(k) \in Nat \ {0}
  BY <1>0 DEF NextNumber
<1>1. ASSUME NEW r \in Req, Validate(r) PROVE TypeOK'
  BY <1>0, <1>1 DEF Validate
<1>2. ASSUME NEW r \in Req, OpenOuter(r) PROVE TypeOK'
  BY <1>0, <1>2 DEF OpenOuter
<1>3. ASSUME NEW r \in Req, OpenTimeout(r) PROVE TypeOK'
  BY <1>0, <1>3 DEF OpenTimeout
<1>4. ASSUME NEW r \in Req, EnsureCounterRow(r) PROVE TypeOK'
  BY <1>0, <1>4 DEF EnsureCounterRow
<1>5. ASSUME NEW r \in Req, Allocate(r) PROVE TypeOK'
  BY <1>0, <1>n, <1>5 DEF Allocate
<1>6. ASSUME NEW r \in Req, OpenInner(r) PROVE TypeOK'
  BY <1>0, <1>6 DEF OpenInner
<1>7. ASSUME NEW r \in Req, InnerTimeout(r) PROVE TypeOK'
  BY <1>0, <1>7 DEF InnerTimeout, CloseOuter
<1>8. ASSUME NEW r \in Req, InsertOrder(r) PROVE TypeOK'
  <2>1. num[r] \in Nat \ {0}
    BY <1>0, <1>n, <1>8 DEF IInv, NumbersBehind, Carrying, InsertOrder
  <2>2. CASE NumberTaken(r)
    BY <1>0, <1>8, <2>2 DEF InsertOrder, CloseOuter
  <2>3. CASE ~NumberTaken(r)
    BY <1>0, <1>8, <2>1, <2>3 DEF InsertOrder, Order
  <2>4. QED
    BY <2>2, <2>3
<1>9. ASSUME NEW r \in Req, Commit(r) PROVE TypeOK'
  BY <1>0, <1>9 DEF Commit, CloseOuter, CounterAfter
<1>10. ASSUME NEW r \in Req, Acknowledge(r) PROVE TypeOK'
  BY <1>0, <1>10 DEF Acknowledge
<1>11. ASSUME NEW r \in Req, LoseOuter(r) PROVE TypeOK'
  BY <1>0, <1>11 DEF LoseOuter, CloseOuter
<1>12. ASSUME NEW r \in Req, LoseInner(r) PROVE TypeOK'
  BY <1>0, <1>12 DEF LoseInner, CloseOuter
<1>13. CASE Crash
  BY <1>0, <1>13 DEF Crash
<1>14. CASE UNCHANGED vars
  BY <1>0, <1>14 DEF vars
<1>15. QED
  BY <1>1, <1>2, <1>3, <1>4, <1>5, <1>6, <1>7, <1>8, <1>9, <1>10, <1>11, <1>12,
     <1>13, <1>14 DEF Next, Step, Finished

\* What any step but an insert and a commit does to what the strengthening
\* speaks of: orders and counters stay.
LEMMA QuietStep ==
    ASSUME IInv, orders' = orders, counter' = counter,
           num' = num,
           \A r \in Req : pc'[r] \in Carrying => pc[r] \in Carrying,
           \A r \in Req : pc'[r] = "inserted" => pc[r] = "inserted",
           \A r \in Req : open'[r] => open[r] \/ pc'[r] = "ensuring",
           \A r \in Req : open'[r] => pc'[r] \in {"ensuring", "locking"} \cup Carrying,
           \A r \in Req : open[r] /\ open'[r] /\ pc[r] \in Carrying /\ lock[KeyOf[r]] = r
                            => lock'[KeyOf[r]] = r
    PROVE  /\ Contiguous'
           /\ NumbersBehind'
           /\ HolderIsCurrent'
           /\ InsertedIsStored'
           /\ OpenWhere'
<1>1. \A k \in Key : NextNumber(k)' = NextNumber(k) /\ Numbers(k)' = Numbers(k)
  BY DEF NextNumber, Numbers
<1>2. Contiguous'
  BY <1>1 DEF IInv, Contiguous
<1>3. NumbersBehind'
  BY <1>1 DEF IInv, NumbersBehind
<1>4. HolderIsCurrent'
  BY <1>1 DEF IInv, HolderIsCurrent, Carrying
<1>5. InsertedIsStored'
  BY DEF IInv, InsertedIsStored
<1>6. OpenWhere'
  BY DEF OpenWhere
<1>7. QED
  BY <1>2, <1>3, <1>4, <1>5, <1>6

\* How each counter's numbers grow: by the inserter's, on its own counter only.
LEMMA NumbersAfterInsert ==
    ASSUME NEW r \in Req, TypeOK, num[r] \in Nat,
           orders' = orders \cup {[key |-> KeyOf[r], num |-> num[r], req |-> r]}
    PROVE  \A k \in Key :
               Numbers(k)' = IF k = KeyOf[r] THEN Numbers(k) \cup {num[r]} ELSE Numbers(k)
<1> DEFINE row == [key |-> KeyOf[r], num |-> num[r], req |-> r]
<1> SUFFICES ASSUME NEW k \in Key
             PROVE  Numbers(k)' = IF k = KeyOf[r] THEN Numbers(k) \cup {num[r]} ELSE Numbers(k)
  OBVIOUS
<1>1. row.key = KeyOf[r] /\ row.num = num[r]
  OBVIOUS
<1>2. {x \in orders' : x.key = k}
        = {x \in orders : x.key = k} \cup (IF k = KeyOf[r] THEN {row} ELSE {})
  BY <1>1, Zenon
<1>3. CASE k = KeyOf[r]
  BY <1>1, <1>2, <1>3, Zenon DEF Numbers
<1>4. CASE k # KeyOf[r]
  BY <1>2, <1>4 DEF Numbers
<1>5. QED
  BY <1>3, <1>4

\* A number that is stored leaves the numbers as they are or is the next one.
LEMMA InsertKeepsContiguous ==
    ASSUME IInv, NEW r \in Req, InsertOrder(r), ~NumberTaken(r)
    PROVE  /\ Numbers(KeyOf[r]) = 1..(NextNumber(KeyOf[r]) - 1)
           /\ num[r] = NextNumber(KeyOf[r])
           /\ Numbers(KeyOf[r])' = 1..NextNumber(KeyOf[r])
<1> DEFINE k == KeyOf[r]
<1>1. /\ k \in Key
      /\ num[r] \in 1..NextNumber(k)
      /\ num[r] \notin Numbers(k)
      /\ NextNumber(k) \in Nat \ {0}
  BY DEF IInv, TypeOK, NumbersBehind, InsertOrder, NumberTaken, Carrying, NextNumber
<1>2. Numbers(k) = 1..(NextNumber(k) - 1)
  BY <1>1 DEF IInv, Contiguous
<1>3. num[r] = NextNumber(k)
  BY <1>1, <1>2
<1>4. Numbers(k)' = Numbers(k) \cup {num[r]}
  BY <1>1, NumbersAfterInsert DEF IInv, InsertOrder, NumberTaken
<1>5. Numbers(k)' = 1..NextNumber(k)
  BY <1>1, <1>2, <1>3, <1>4
<1>6. QED
  BY <1>2, <1>3, <1>5

LEMMA InsertStep == ASSUME IInv, NEW r \in Req, InsertOrder(r), ~NumberTaken(r) PROVE IInv'
<1>1. TypeOK'
  BY TypeStep DEF Next, Step
<1>2. /\ open' = open /\ lock' = lock /\ num' = num /\ counter' = counter
      /\ pc' = [pc EXCEPT ![r] = "inserted"]
      /\ pc[r] = "inserting"
      /\ orders' = orders \cup {[key |-> KeyOf[r], num |-> num[r], req |-> r]}
  BY DEF InsertOrder, NumberTaken
<1>3. \A k \in Key : NextNumber(k)' = NextNumber(k)
  BY <1>2 DEF NextNumber
<1>4. Contiguous'
  <2>1. \A k \in Key : k # KeyOf[r] => Numbers(k)' = Numbers(k)
    BY <1>2, NumbersAfterInsert DEF IInv, TypeOK
  <2>2. QED
    BY <2>1, <1>3, InsertKeepsContiguous DEF IInv, Contiguous
<1>5. NumbersBehind' /\ HolderIsCurrent' /\ InsertedIsStored' /\ OpenWhere'
  BY <1>2, <1>3 DEF IInv, TypeOK, NumbersBehind, HolderIsCurrent, InsertedIsStored,
     OpenWhere, Carrying, NextNumber
<1>6. QED
  BY <1>1, <1>4, <1>5 DEF IInv

LEMMA AllocateStep == ASSUME IInv, NEW r \in Req, Allocate(r) PROVE IInv'
<1>1. TypeOK'
  BY TypeStep DEF Next, Step
<1>2. \A k \in Key : NextNumber(k)' = NextNumber(k) /\ Numbers(k)' = Numbers(k)
  BY DEF Allocate, NextNumber, Numbers
<1>3. Contiguous'
  BY <1>2 DEF IInv, Contiguous
<1>4. NextNumber(KeyOf[r]) \in Nat \ {0}
  BY DEF IInv, TypeOK, NextNumber
<1>5. NumbersBehind' /\ InsertedIsStored' /\ OpenWhere'
  BY <1>2, <1>4 DEF IInv, TypeOK, NumbersBehind, InsertedIsStored, OpenWhere,
     Allocate, Carrying
<1>6. HolderIsCurrent'
  \* No other open call carries a number of this counter: it would hold the row.
  BY <1>2 DEF IInv, TypeOK, HolderIsCurrent, Allocate, RowGranted, Carrying
<1>7. QED
  BY <1>1, <1>3, <1>5, <1>6 DEF IInv

LEMMA CommitStep == ASSUME IInv, NEW r \in Req, Commit(r), open[r] PROVE IInv'
<1> DEFINE k == KeyOf[r]
<1>1. TypeOK'
  BY TypeStep DEF Next, Step
<1>2. /\ k \in Key
      /\ lock[k] = r
      /\ num[r] = NextNumber(k)
      /\ num[r] \in Numbers(k)
      /\ NextNumber(k) \in Nat \ {0}
      /\ num[r] \in Nat
  <2>1. k \in Key /\ lock[k] = r /\ num[r] = NextNumber(k) /\ num[r] \in Nat
    BY DEF IInv, TypeOK, HolderIsCurrent, Commit, Carrying
  <2>2. [key |-> k, num |-> num[r], req |-> r] \in orders
    BY DEF IInv, InsertedIsStored, Commit
  <2>3. num[r] \in Numbers(k)
    BY <2>2 DEF Numbers
  <2>4. NextNumber(k) \in Nat \ {0}
    BY <2>1 DEF IInv, TypeOK, NextNumber
  <2>5. QED
    BY <2>1, <2>3, <2>4
<1>3. /\ counter' = [counter EXCEPT ![k] = num[r] + 1]
      /\ num' = num /\ orders' = orders
      /\ open' = [open EXCEPT ![r] = FALSE]
      /\ lock' = [q \in Key |-> IF lock[q] = r THEN NoReq ELSE lock[q]]
      /\ pc' = [pc EXCEPT ![r] = "committed"]
  BY DEF Commit, CounterAfter, CloseOuter
<1>4. NextNumber(k)' = NextNumber(k) + 1
  BY <1>2, <1>3 DEF NextNumber, IInv, TypeOK
<1>5. \A q \in Key : /\ q # k => NextNumber(q)' = NextNumber(q)
                     /\ NextNumber(q) \in Nat
                     /\ Numbers(q)' = Numbers(q)
  BY <1>3 DEF NextNumber, Numbers, IInv, TypeOK
<1>6. Contiguous'
  <2>1. Numbers(k) = 1..NextNumber(k)
    BY <1>2 DEF IInv, Contiguous
  <2>2. Numbers(k)' = 1..(NextNumber(k)' - 1)
    BY <2>1, <1>2, <1>4, <1>5
  <2>3. QED
    BY <2>2, <1>5 DEF IInv, Contiguous
<1>7. NumbersBehind'
  BY <1>2, <1>3, <1>4, <1>5 DEF IInv, TypeOK, NumbersBehind, Carrying
<1>8. HolderIsCurrent'
  \* Another open carrier is on another counter, since r holds this one.
  BY <1>2, <1>3, <1>5 DEF IInv, TypeOK, HolderIsCurrent, Carrying
<1>9. InsertedIsStored' /\ OpenWhere'
  BY <1>3 DEF IInv, TypeOK, InsertedIsStored, OpenWhere, Carrying
<1>10. QED
  BY <1>1, <1>6, <1>7, <1>8, <1>9 DEF IInv

LEMMA InvStep == IInv /\ [Next]_vars => IInv'
<1> SUFFICES ASSUME IInv, [Next]_vars PROVE IInv'
  OBVIOUS
<1>0. TypeOK /\ TypeOK'
  BY TypeStep DEF IInv
<1>o. OpenWhere
  BY DEF IInv
<1>q. ASSUME /\ Contiguous' /\ NumbersBehind' /\ HolderIsCurrent'
             /\ InsertedIsStored' /\ OpenWhere'
      PROVE  IInv'
  BY <1>0, <1>q DEF IInv
<1> USE DEF TypeOK, Carrying
<1>1. ASSUME NEW r \in Req, Validate(r) PROVE IInv'
  BY <1>0, <1>o, <1>1, <1>q, QuietStep DEF Validate, OpenWhere
<1>2. ASSUME NEW r \in Req, OpenOuter(r) PROVE IInv'
  BY <1>0, <1>o, <1>2, <1>q, QuietStep DEF OpenOuter, OpenWhere
<1>3. ASSUME NEW r \in Req, OpenTimeout(r) PROVE IInv'
  BY <1>0, <1>o, <1>3, <1>q, QuietStep DEF OpenTimeout, OpenWhere
<1>4. ASSUME NEW r \in Req, EnsureCounterRow(r) PROVE IInv'
  BY <1>0, <1>o, <1>4, <1>q, QuietStep DEF EnsureCounterRow, OpenWhere
<1>5. ASSUME NEW r \in Req, Allocate(r) PROVE IInv'
  BY <1>5, AllocateStep
<1>6. ASSUME NEW r \in Req, OpenInner(r) PROVE IInv'
  BY <1>0, <1>o, <1>6, <1>q, QuietStep DEF OpenInner, OpenWhere
<1>7. ASSUME NEW r \in Req, InnerTimeout(r) PROVE IInv'
  BY <1>0, <1>o, <1>7, <1>q, QuietStep DEF InnerTimeout, CloseOuter, OpenWhere
<1>8. ASSUME NEW r \in Req, InsertOrder(r) PROVE IInv'
  <2>1. CASE ~NumberTaken(r)
    BY <1>8, <2>1, InsertStep
  <2>2. CASE NumberTaken(r)
    BY <1>0, <1>o, <1>8, <2>2, <1>q, QuietStep DEF InsertOrder, CloseOuter, OpenWhere
  <2>3. QED
    BY <2>1, <2>2
<1>9. ASSUME NEW r \in Req, Commit(r) PROVE IInv'
  <2>1. CASE open[r]
    BY <1>9, <2>1, CommitStep
  <2>2. CASE ~open[r]
    BY <1>0, <1>o, <1>9, <2>2, <1>q, QuietStep DEF Commit, CounterAfter, CloseOuter, OpenWhere
  <2>3. QED
    BY <2>1, <2>2
<1>10. ASSUME NEW r \in Req, Acknowledge(r) PROVE IInv'
  BY <1>0, <1>o, <1>10, <1>q, QuietStep DEF Acknowledge, OpenWhere
<1>11. ASSUME NEW r \in Req, LoseOuter(r) PROVE IInv'
  BY <1>0, <1>o, <1>11, <1>q, QuietStep DEF LoseOuter, CloseOuter, OpenWhere
<1>12. ASSUME NEW r \in Req, LoseInner(r) PROVE IInv'
  BY <1>0, <1>o, <1>12, <1>q, QuietStep DEF LoseInner, CloseOuter, OpenWhere
<1>13. CASE Crash
  BY <1>0, <1>13, <1>q, QuietStep DEF Crash, Running
<1>14. CASE UNCHANGED vars
  BY <1>0, <1>o, <1>14, <1>q, QuietStep DEF vars, OpenWhere
<1>15. QED
  BY <1>1, <1>2, <1>3, <1>4, <1>5, <1>6, <1>7, <1>8, <1>9, <1>10, <1>11, <1>12,
     <1>13, <1>14 DEF Next, Step, Finished

\* Every behaviour keeps the strengthening.
THEOREM Invariance == Spec => []IInv
  BY InitIInv, InvStep, PTL DEF Spec

\* Type correctness: no interleaving, timeout or crash of placeOrder leaves a
\* variable outside its type.
THEOREM TypeCorrect == Spec => []TypeOK
  BY Invariance, PTL DEF IInv

-------------------------------------------------------------------------------

\* Every step leaves the orders alone or stores one more.
LEMMA OrdersStep ==
    ASSUME IInv, [Next]_vars
    PROVE  orders' = orders \/ \E r \in Req : InsertOrder(r) /\ ~NumberTaken(r)
  BY DEF Next, Step, Finished, vars, Validate, OpenOuter, OpenTimeout, EnsureCounterRow,
     Allocate, OpenInner, InnerTimeout, InsertOrder, Commit, Acknowledge, LoseOuter,
     LoseInner, Crash

\* The detailed placement implements the abstract numbering: whatever is lost,
\* times out or crashes, the orders stored for a location and day are numbered
\* 1, 2, 3, ... without a repeat and without a gap.
THEOREM NumberingRefines == Spec => ImplementsOrderNumbers
<1> DEFINE bar == [k \in Key |-> Numbers(k)]
<1>1. Init => Numbered!Init
  BY DEF Init, Numbered!Init, Numbers
<1>2. IInv /\ [Next]_vars => [Numbered!Next]_bar
  <2> SUFFICES ASSUME IInv, [Next]_vars PROVE [Numbered!Next]_bar
    OBVIOUS
  <2>1. CASE orders' = orders
    BY <2>1 DEF Numbers
  <2>2. ASSUME NEW r \in Req, InsertOrder(r), ~NumberTaken(r) PROVE Numbered!Next
    <3> DEFINE k == KeyOf[r]
    <3>1. k \in Key /\ NextNumber(k) \in Nat \ {0}
      BY DEF IInv, TypeOK, NextNumber
    <3>2. /\ Numbers(k) = 1..(NextNumber(k) - 1)
          /\ num[r] = NextNumber(k)
      BY <2>2, InsertKeepsContiguous
    <3>3. Numbers(k)' = 1..num[r]
      BY <2>2, <3>2, InsertKeepsContiguous
    <3>4. \A q \in Key : q # k => Numbers(q)' = Numbers(q)
      BY <2>2, <3>1, <3>2, NumbersAfterInsert DEF IInv, TypeOK, InsertOrder, NumberTaken
    <3>5. bar' = [bar EXCEPT ![k] = 1..num[r]]
      BY <3>1, <3>3, <3>4
    <3>6. /\ bar[k] = 1..(num[r] - 1)
          /\ num[r] \in {1} \cup {i + 1 : i \in bar[k]}
      <4>1. bar[k] = 1..(num[r] - 1) /\ num[r] \in Nat \ {0}
        BY <3>1, <3>2
      <4>2. CASE num[r] = 1
        BY <4>1, <4>2
      <4>3. CASE num[r] # 1
        <5>1. num[r] - 1 \in 1..(num[r] - 1) /\ (num[r] - 1) + 1 = num[r]
          BY <4>1, <4>3
        <5>2. \E i \in bar[k] : num[r] = i + 1
          BY <4>1, <5>1
        <5>3. QED
          BY <4>1, <5>2
      <4>4. QED
        BY <4>2, <4>3
    <3>7. Numbered!Issue(k)
      BY <3>5, <3>6, Zenon DEF Numbered!Issue
    <3>8. QED
      BY <3>1, <3>7, Zenon DEF Numbered!Next
  <2>3. QED
    BY <2>1, <2>2, OrdersStep
<1>3. QED
  BY <1>1, <1>2, Invariance, PTL DEF Spec, ImplementsOrderNumbers, Numbered!Spec

-------------------------------------------------------------------------------

\* While no transaction is lost, a call that carries a number has its outer
\* transaction, and the next number is taken only by an order about to commit.
Healthy ==
    faults = 0 =>
        /\ \A r \in Req : pc[r] \in {"ensuring", "locking"} \cup Carrying => open[r]
        /\ \A r \in Req : pc[r] # "duplicateNumber"
        /\ \A k \in Key : NextNumber(k) \in Numbers(k) =>
               \E r \in Req : KeyOf[r] = k /\ pc[r] = "inserted"

LEMMA HealthyImplies == IInv /\ Healthy => NoDuplicateWithoutFault
<1> SUFFICES ASSUME IInv, Healthy, faults = 0, NEW r \in Req,
                    pc[r] \in {"allocated", "inserting"}, num[r] \in Numbers(KeyOf[r])
             PROVE  FALSE
  BY DEF NoDuplicateWithoutFault, Healthy
<1>1. /\ KeyOf[r] \in Key
      /\ lock[KeyOf[r]] = r
      /\ num[r] = NextNumber(KeyOf[r])
  BY DEF IInv, Healthy, HolderIsCurrent, Carrying
<1>2. PICK q \in Req : KeyOf[q] = KeyOf[r] /\ pc[q] = "inserted"
  BY <1>1 DEF Healthy
<1>3. lock[KeyOf[r]] = q
  BY <1>2 DEF IInv, Healthy, HolderIsCurrent, Carrying
<1>4. QED
  BY <1>1, <1>2, <1>3

\* Steps that neither store an order, nor commit, nor lose anything.
LEMMA HealthyQuiet ==
    ASSUME Healthy, orders' = orders, counter' = counter, faults' = faults,
           \A r \in Req : pc'[r] \in {"ensuring", "locking"} \cup Carrying =>
               \/ open'[r]
               \/ pc[r] \in {"ensuring", "locking"} \cup Carrying /\ ~open[r],
           \A r \in Req : pc'[r] = "duplicateNumber" => pc[r] = "duplicateNumber",
           \A r \in Req : pc[r] = "inserted" => pc'[r] = "inserted"
    PROVE  Healthy'
<1>1. \A k \in Key : NextNumber(k)' = NextNumber(k) /\ Numbers(k)' = Numbers(k)
  BY DEF NextNumber, Numbers
<1>2. QED
  BY <1>1 DEF Healthy

LEMMA HealthyStep == IInv /\ IInv' /\ Healthy /\ [Next]_vars => Healthy'
<1> SUFFICES ASSUME IInv, IInv', Healthy, [Next]_vars, faults' = 0 PROVE Healthy'
  BY DEF Healthy
<1>0. TypeOK /\ faults \in Nat
  BY DEF IInv, TypeOK
<1>h. /\ faults = 0 => \A r \in Req : pc[r] \in {"ensuring", "locking"} \cup Carrying => open[r]
      /\ OpenWhere
  BY DEF Healthy, IInv
<1> USE DEF TypeOK, Carrying
<1>1. ASSUME NEW r \in Req,
             \/ Validate(r) \/ OpenOuter(r) \/ OpenTimeout(r) \/ EnsureCounterRow(r)
             \/ OpenInner(r) \/ InnerTimeout(r) \/ Acknowledge(r) \/ Allocate(r)
      PROVE  Healthy'
  BY <1>0, <1>1, <1>h, HealthyQuiet DEF Validate, OpenOuter, OpenTimeout,
     EnsureCounterRow, OpenInner, InnerTimeout, Acknowledge, Allocate, CloseOuter
<1>3. ASSUME NEW r \in Req, InsertOrder(r) PROVE Healthy'
  <2> DEFINE k == KeyOf[r]
  <2>0. faults = 0 /\ k \in Key
    BY <1>0, <1>3 DEF InsertOrder
  <2>1. ~NumberTaken(r)
    BY <2>0, <1>3, HealthyImplies DEF InsertOrder, NumberTaken, NoDuplicateWithoutFault
  <2>2. /\ pc[r] = "inserting" /\ pc' = [pc EXCEPT ![r] = "inserted"]
        /\ open' = open /\ counter' = counter
        /\ orders' = orders \cup {[key |-> k, num |-> num[r], req |-> r]}
    BY <1>3, <2>1 DEF InsertOrder
  <2>3. \A q \in Key : NextNumber(q)' = NextNumber(q)
    BY <2>2 DEF NextNumber
  <2>4. \A q \in Key : q # k => Numbers(q)' = Numbers(q)
    BY <1>0, <2>2, NumbersAfterInsert
  <2>5. \A q \in Req : pc'[q] \in {"ensuring", "locking"} \cup Carrying => open'[q]
    BY <1>0, <1>h, <2>0, <2>2
  <2>6. \A q \in Req : pc'[q] # "duplicateNumber"
    BY <1>0, <2>0, <2>2 DEF Healthy
  <2>7. ASSUME NEW q \in Key, NextNumber(q)' \in Numbers(q)'
        PROVE  \E p \in Req : KeyOf[p] = q /\ pc'[p] = "inserted"
    <3>1. CASE q = k
      BY <1>0, <2>2, <3>1
    <3>2. CASE q # k
      BY <1>0, <2>0, <2>2, <2>3, <2>4, <2>7, <3>2 DEF Healthy
    <3>3. QED
      BY <3>1, <3>2
  <2>8. QED
    BY <2>5, <2>6, <2>7 DEF Healthy
<1>4. ASSUME NEW r \in Req, Commit(r) PROVE Healthy'
  <2> DEFINE k == KeyOf[r]
  <2>0. faults = 0 /\ k \in Key
    BY <1>0, <1>4 DEF Commit
  <2>1. /\ pc[r] = "inserted" /\ open[r] /\ lock[k] = r /\ num[r] = NextNumber(k)
    BY <1>h, <2>0, <1>4 DEF Commit, IInv, HolderIsCurrent
  <2>2. /\ counter' = [counter EXCEPT ![k] = num[r] + 1]
        /\ pc' = [pc EXCEPT ![r] = "committed"]
        /\ open' = [open EXCEPT ![r] = FALSE]
        /\ orders' = orders
    BY <1>4, <2>1 DEF Commit, CounterAfter, CloseOuter
  <2>3. /\ \A q \in Key : Numbers(q)' = Numbers(q)
        /\ \A q \in Key : q # k => NextNumber(q)' = NextNumber(q)
        /\ NextNumber(k)' = NextNumber(k) + 1
        /\ NextNumber(k) \in Nat
    <3>1. \A q \in Key : Numbers(q)' = Numbers(q)
      BY <2>2 DEF Numbers
    <3>2. \A q \in Key : q # k => NextNumber(q)' = NextNumber(q)
      BY <1>0, <2>0, <2>2 DEF NextNumber
    <3>3. NextNumber(k) \in Nat
      BY <1>0, <2>0 DEF NextNumber
    <3>4. NextNumber(k)' = NextNumber(k) + 1
      BY <1>0, <2>0, <2>1, <2>2, <3>3 DEF NextNumber
    <3>5. QED
      BY <3>1, <3>2, <3>3, <3>4
  <2>4. NextNumber(k)' \notin Numbers(k)'
    \* Before the commit the numbers end at NextNumber(k) at the latest.
    <3>1. Numbers(k) = 1..(NextNumber(k) - 1) \/ Numbers(k) = 1..NextNumber(k)
      BY <2>0 DEF IInv, Contiguous
    <3>2. Numbers(k)' = Numbers(k) /\ NextNumber(k)' = NextNumber(k) + 1
      BY <2>0, <2>3
    <3>3. NextNumber(k) + 1 \notin Numbers(k)
      BY <2>3, <3>1
    <3>4. QED
      BY <3>2, <3>3
  <2>5. \A q \in Req : pc'[q] \in {"ensuring", "locking"} \cup Carrying => open'[q]
    BY <1>0, <1>h, <2>0, <2>2
  <2>6. \A q \in Req : pc'[q] # "duplicateNumber"
    BY <1>0, <2>0, <2>2 DEF Healthy
  <2>7. ASSUME NEW q \in Key, NextNumber(q)' \in Numbers(q)'
        PROVE  \E p \in Req : KeyOf[p] = q /\ pc'[p] = "inserted"
    <3>1. q # k
      BY <2>4, <2>7
    <3>2. PICK p \in Req : KeyOf[p] = q /\ pc[p] = "inserted"
      BY <2>0, <2>3, <2>7, <3>1 DEF Healthy
    <3>3. QED
      BY <1>0, <2>2, <3>1, <3>2
  <2>8. QED
    BY <2>5, <2>6, <2>7 DEF Healthy
<1>5. ASSUME NEW r \in Req, LoseOuter(r) \/ LoseInner(r) PROVE FALSE
  BY <1>0, <1>5 DEF LoseOuter, LoseInner
<1>6. CASE Crash
  BY <1>0, <1>6 DEF Crash
<1>7. CASE UNCHANGED vars
  BY <1>7, <1>h, HealthyQuiet DEF vars
<1>8. QED
  BY <1>1, <1>3, <1>4, <1>5, <1>6, <1>7 DEF Next, Step, Finished

\* Without a lost transaction the unique index never refuses an order: the
\* counter's row lock alone keeps every allocated number free.
THEOREM NoDuplicates == Spec => []NoDuplicateWithoutFault
<1>1. Init => Healthy
  BY DEF Init, Healthy, Carrying, Numbers
<1>2. QED
  BY <1>1, HealthyStep, HealthyImplies, Invariance, PTL DEF Spec

\* No two orders of a counter have the same number: the unique index.
DistinctNumbers ==
    \A o \in orders, p \in orders : o.key = p.key /\ o.num = p.num => o = p

LEMMA DistinctStep == TypeOK /\ DistinctNumbers /\ [Next]_vars => DistinctNumbers'
<1> SUFFICES ASSUME TypeOK, DistinctNumbers, [Next]_vars PROVE DistinctNumbers'
  OBVIOUS
<1>1. ASSUME orders' = orders PROVE DistinctNumbers'
  BY <1>1 DEF DistinctNumbers
<1>2. ASSUME NEW r \in Req, InsertOrder(r) PROVE DistinctNumbers'
  <2> DEFINE new == [key |-> KeyOf[r], num |-> num[r], req |-> r]
  <2>1. CASE orders' = orders
    BY <1>1, <2>1
  <2>2. CASE ~NumberTaken(r) /\ orders' = orders \cup {new}
    <3>1. \A o \in orders : ~(o.key = new.key /\ o.num = new.num)
      BY <2>2 DEF NumberTaken, Numbers
    <3>2. QED
      BY <2>2, <3>1 DEF DistinctNumbers
  <2>3. QED
    BY <1>2, <2>1, <2>2 DEF InsertOrder
<1>3. orders' = orders \/ \E r \in Req : InsertOrder(r)
  BY DEF Next, vars, Step, Validate, OpenOuter, OpenTimeout, EnsureCounterRow, Allocate, OpenInner,
     InnerTimeout, Commit, Acknowledge, LoseOuter, LoseInner, Crash, Finished
<1>4. QED
  BY <1>1, <1>2, <1>3

\* Until a transaction is lost, no order is stored whose number the counter has not
\* passed, but for the one its open placement is about to commit (placeOrder).
THEOREM CommitsUntilFault == Spec => []OrderCommitsUntilFault
<1>1. ASSUME IInv, Healthy, DistinctNumbers PROVE OrderCommitsUntilFault
  <2> SUFFICES ASSUME faults = 0, NEW o \in orders, ~(o.num < NextNumber(o.key))
               PROVE  pc[o.req] = "inserted" /\ open[o.req]
    BY DEF OrderCommitsUntilFault, OrderCommitsWithCounter
  <2>1. /\ o.key \in Key /\ o.num \in Nat /\ o.num \in Numbers(o.key)
        /\ NextNumber(o.key) \in Nat
    BY <1>1 DEF IInv, TypeOK, Order, Numbers, NextNumber
  <2>2. o.num = NextNumber(o.key)
    BY <1>1, <2>1 DEF IInv, Contiguous
  <2>3. PICK r \in Req : KeyOf[r] = o.key /\ pc[r] = "inserted"
    BY <1>1, <2>1, <2>2 DEF Healthy
  <2>4. open[r]
    BY <1>1, <2>3 DEF Healthy, Carrying
  <2>5. num[r] = o.num
    BY <1>1, <2>2, <2>3, <2>4 DEF IInv, HolderIsCurrent, Carrying
  <2>6. [key |-> o.key, num |-> o.num, req |-> r] \in orders
    BY <1>1, <2>3, <2>5 DEF IInv, InsertedIsStored
  <2>7. o = [key |-> o.key, num |-> o.num, req |-> r]
    BY <1>1, <2>6 DEF DistinctNumbers
  <2>8. o.req = r
    BY <2>7
  <2>9. QED
    BY <2>3, <2>4, <2>8
<1>2. Init => Healthy /\ DistinctNumbers
  BY DEF Init, Healthy, Carrying, Numbers, DistinctNumbers
<1>3. IInv => TypeOK
  BY DEF IInv
<1>4. QED
  BY <1>1, <1>2, <1>3, HealthyStep, DistinctStep, Invariance, PTL DEF Spec

-------------------------------------------------------------------------------

\* What an acknowledged call left behind.
Acknowledged ==
    \A r \in Req : pc[r] \in {"committed", "done"} =>
        /\ [key |-> KeyOf[r], num |-> num[r], req |-> r] \in orders
        /\ num[r] < counter[KeyOf[r]]

\* Orders are only ever added, and a counter only ever moves up, by a commit.
LEMMA MonotoneStep ==
    ASSUME IInv, [Next]_vars
    PROVE  /\ orders \subseteq orders'
           /\ \A k \in Key : counter[k] <= counter'[k]
<1>0. TypeOK
  BY DEF IInv
<1>1. ASSUME NEW r \in Req, Commit(r)
      PROVE  /\ orders \subseteq orders'
             /\ \A k \in Key : counter[k] <= counter'[k]
  <2>1. CASE open[r]
    <3>1. num[r] = NextNumber(KeyOf[r]) /\ KeyOf[r] \in Key
      BY <1>1, <2>1 DEF IInv, HolderIsCurrent, Carrying, Commit
    <3>2. QED
      BY <1>0, <1>1, <2>1, <3>1 DEF Commit, CounterAfter, NextNumber, TypeOK
  <2>2. CASE ~open[r]
    BY <1>0, <1>1, <2>2 DEF Commit, CounterAfter, TypeOK
  <2>3. QED
    BY <2>1, <2>2
<1>2. ASSUME orders \subseteq orders', counter' = counter
      PROVE  /\ orders \subseteq orders'
             /\ \A k \in Key : counter[k] <= counter'[k]
  BY <1>0, <1>2 DEF TypeOK
<1>3. QED
  BY <1>1, <1>2 DEF Next, Step, Finished, vars, Validate, OpenOuter, OpenTimeout,
     EnsureCounterRow, Allocate, OpenInner, InnerTimeout, InsertOrder, Acknowledge,
     LoseOuter, LoseInner, Crash

LEMMA AcknowledgedStep == IInv /\ Acknowledged /\ [Next]_vars => Acknowledged'
<1> SUFFICES ASSUME IInv, Acknowledged, [Next]_vars,
                    NEW r \in Req, pc'[r] \in {"committed", "done"}
             PROVE  /\ [key |-> KeyOf[r], num |-> num'[r], req |-> r] \in orders'
                    /\ num'[r] < counter'[KeyOf[r]]
  BY DEF Acknowledged
<1>0. TypeOK /\ TypeOK' /\ KeyOf[r] \in Key
  BY TypeStep DEF IInv
<1>1. CASE pc[r] \in {"committed", "done"}
  <2>1. num'[r] = num[r]
    BY <1>0, <1>1 DEF TypeOK, Next, Step, Finished, vars, Validate, OpenOuter, OpenTimeout,
       EnsureCounterRow, Allocate, OpenInner, InnerTimeout, InsertOrder, Commit,
       Acknowledge, LoseOuter, LoseInner, Crash
  <2>2. QED
    BY <1>0, <1>1, <2>1, MonotoneStep DEF Acknowledged, TypeOK
<1>2. CASE pc[r] \notin {"committed", "done"}
  <2>1. Commit(r) /\ open[r]
    BY <1>0, <1>2 DEF TypeOK, Next, Step, Finished, vars, Validate, OpenOuter, OpenTimeout,
       EnsureCounterRow, Allocate, OpenInner, InnerTimeout, InsertOrder, Commit,
       Acknowledge, LoseOuter, LoseInner, Crash
  <2>2. QED
    BY <1>0, <2>1 DEF IInv, InsertedIsStored, Commit, CounterAfter, TypeOK
<1>3. QED
  BY <1>1, <1>2

\* A diner who holds a track token has a stored order whose number the counter
\* has moved past.
THEOREM AcknowledgedDurable == Spec => []AcknowledgedIsDurable
<1>1. Init => Acknowledged
  BY DEF Init, Acknowledged
<1>2. Acknowledged => AcknowledgedIsDurable
  <2> SUFFICES ASSUME Acknowledged, NEW r \in Req, pc[r] \in {"committed", "done"}
               PROVE  \E o \in orders : o.req = r /\ o.num < counter[o.key]
    BY DEF AcknowledgedIsDurable
  <2> DEFINE o == [key |-> KeyOf[r], num |-> num[r], req |-> r]
  <2>1. o \in orders /\ num[r] < counter[KeyOf[r]]
    BY DEF Acknowledged
  <2>2. o.req = r /\ o.num < counter[o.key]
    BY <2>1
  <2>3. QED
    BY <2>1, <2>2
<1>3. QED
  BY <1>1, <1>2, AcknowledgedStep, Invariance, PTL DEF Spec

-------------------------------------------------------------------------------

\* No step moves a wedged counter or frees the number it points at.
LEMMA WedgeStep == IInv /\ [Next]_vars => \A k \in Key : Wedged(k) => Wedged(k)'
<1> SUFFICES ASSUME IInv, [Next]_vars, NEW k \in Key, Wedged(k) PROVE Wedged(k)'
  OBVIOUS
<1>0. TypeOK
  BY DEF IInv
<1>1. ASSUME NEW r \in Req, InsertOrder(r), ~NumberTaken(r) PROVE Wedged(k)'
  <2>1. KeyOf[r] # k
    BY <1>0, <1>1, InsertKeepsContiguous DEF Wedged, TypeOK, NextNumber
  <2>2. num[r] \in Nat
    BY <1>0 DEF TypeOK
  <2>3. Numbers(k)' = Numbers(k)
    BY <1>0, <1>1, <2>1, <2>2, NumbersAfterInsert DEF InsertOrder
  <2>4. QED
    BY <1>0, <1>1, <2>1, <2>3 DEF Wedged, NextNumber, InsertOrder, TypeOK
<1>2. ASSUME NEW r \in Req, Commit(r), open[r] PROVE Wedged(k)'
  <2>1. KeyOf[r] # k
    BY <1>2 DEF Wedged, Commit
  <2>2. /\ NextNumber(k)' = NextNumber(k)
        /\ Numbers(k)' = Numbers(k)
    BY <1>0, <1>2, <2>1 DEF TypeOK, NextNumber, Numbers, Commit, CounterAfter
  <2>3. QED
    BY <1>0, <1>2, <2>1, <2>2 DEF Wedged, Commit, CloseOuter, TypeOK
<1>3. ASSUME orders' = orders, counter' = counter,
             \A r \in Req : pc'[r] = "inserted" /\ open'[r] => pc[r] = "inserted" /\ open[r]
      PROVE  Wedged(k)'
  <2>1. NextNumber(k)' = NextNumber(k) /\ Numbers(k)' = Numbers(k)
    BY <1>3 DEF NextNumber, Numbers
  <2>2. QED
    BY <1>3, <2>1 DEF Wedged
<1>4. ASSUME NEW r \in Req,
             \/ Validate(r) \/ OpenOuter(r) \/ OpenTimeout(r) \/ EnsureCounterRow(r)
             \/ Allocate(r) \/ OpenInner(r) \/ Acknowledge(r)
      PROVE  Wedged(k)'
  <2>1. orders' = orders /\ counter' = counter /\ \A q \in Req : pc'[q] = "inserted" => pc[q] = "inserted"
    BY <1>0, <1>4 DEF TypeOK, Validate, OpenOuter, OpenTimeout, EnsureCounterRow, Allocate,
       OpenInner, Acknowledge
  <2>2. \A q \in Req : pc'[q] = "inserted" /\ open'[q] => open[q]
    BY <1>0, <1>4 DEF TypeOK, Validate, OpenOuter, OpenTimeout, EnsureCounterRow, Allocate,
       OpenInner, Acknowledge
  <2>3. QED
    BY <1>3, <2>1, <2>2
<1>5. ASSUME NEW r \in Req,
             \/ InnerTimeout(r) \/ LoseOuter(r) \/ LoseInner(r)
             \/ InsertOrder(r) /\ NumberTaken(r)
             \/ Commit(r) /\ ~open[r]
      PROVE  Wedged(k)'
  <2>1. orders' = orders /\ counter' = counter /\ open' = [open EXCEPT ![r] = FALSE]
    BY <1>5 DEF InnerTimeout, LoseOuter, LoseInner, InsertOrder, Commit, CounterAfter, CloseOuter
  <2>2. \A q \in Req : pc'[q] = "inserted" => pc[q] = "inserted"
    BY <1>0, <1>5 DEF TypeOK, InnerTimeout, LoseOuter, LoseInner, InsertOrder, Commit
  <2>3. QED
    BY <1>0, <1>3, <2>1, <2>2 DEF TypeOK
<1>6. CASE Crash \/ UNCHANGED vars
  BY <1>0, <1>3, <1>6 DEF TypeOK, Crash, vars, Running
<1>7. QED
  BY <1>1, <1>2, <1>4, <1>5, <1>6 DEF Next, Step, Finished

\* Once an order sits on the number its counter hands out next, with the
\* transaction that stored it gone, no step of the program repairs it.
THEOREM WedgePermanent == Spec => WedgeIsPermanent
  BY WedgeStep, Invariance, PTL DEF WedgeIsPermanent, Spec

-------------------------------------------------------------------------------

\* Who has a counter's row is in the transaction that locked it.
HolderRuns ==
    \A k \in Key : lock[k] # NoReq =>
        /\ KeyOf[lock[k]] = k /\ open[lock[k]]
        /\ pc[lock[k]] \in {"locking"} \cup Carrying

\* A call on its way to its number is inside its transaction: when that is lost, the
\* statement it waits for fails.
WaitersAreOpen == \A r \in Req : pc[r] \in {"ensuring", "locking"} => open[r]

LEMMA WaitersStep == TypeOK /\ WaitersAreOpen /\ [Next]_vars => WaitersAreOpen'
<1> SUFFICES ASSUME TypeOK, WaitersAreOpen, [Next]_vars, NEW q \in Req,
                    pc'[q] \in {"ensuring", "locking"}
             PROVE  open'[q]
  BY DEF WaitersAreOpen
<1>0. /\ pc \in [Req -> PC] /\ open \in [Req -> BOOLEAN]
      /\ pc[q] \in {"ensuring", "locking"} => open[q]
  BY DEF TypeOK, WaitersAreOpen
<1>1. ASSUME NEW r \in Req, Validate(r) \/ OpenTimeout(r) \/ EnsureCounterRow(r) \/ OpenInner(r)
                            \/ Allocate(r) \/ Acknowledge(r)
      PROVE  open'[q]
  BY <1>0, <1>1 DEF Validate, OpenTimeout, EnsureCounterRow, OpenInner, Allocate, Acknowledge
<1>2. ASSUME NEW r \in Req, OpenOuter(r) PROVE open'[q]
  BY <1>0, <1>2 DEF OpenOuter
<1>3. ASSUME NEW r \in Req, InnerTimeout(r) \/ InsertOrder(r) \/ Commit(r) \/ LoseOuter(r) \/ LoseInner(r)
      PROVE  open'[q]
  <2>1. q # r
    BY <1>0, <1>3 DEF InnerTimeout, InsertOrder, Commit, LoseOuter, LoseInner
  <2>2. pc'[q] = pc[q] /\ open'[q] = open[q]
    BY <1>0, <1>3, <2>1 DEF InnerTimeout, InsertOrder, Commit, LoseOuter, LoseInner, CloseOuter
  <2>3. QED
    BY <1>0, <2>2
<1>4. ~Crash
  BY <1>0 DEF Crash, Running
<1>5. CASE Finished \/ UNCHANGED vars
  BY <1>0, <1>5 DEF Finished, vars
<1>6. QED
  BY <1>1, <1>2, <1>3, <1>4, <1>5 DEF Next, Step

\* A call whose transaction ends has no row afterwards.
LEMMA ClosedHoldsNothing ==
    ASSUME TypeOK, HolderRuns, NEW r \in Req, CloseOuter(r),
           \A q \in Req \ {r} : pc'[q] = pc[q]
    PROVE  HolderRuns'
<1> SUFFICES ASSUME NEW k \in Key, lock'[k] # NoReq
             PROVE  /\ KeyOf[lock'[k]] = k /\ open'[lock'[k]]
                    /\ pc'[lock'[k]] \in {"locking"} \cup Carrying
  BY DEF HolderRuns
<1>1. lock'[k] = lock[k] /\ lock[k] \in Req \ {r}
  BY DEF CloseOuter, TypeOK
<1>2. \A q \in Req \ {r} : open'[q] = open[q]
  BY DEF CloseOuter, TypeOK
<1>3. QED
  BY <1>1, <1>2 DEF HolderRuns

LEMMA HolderStep == TypeOK /\ WaitersAreOpen /\ HolderRuns /\ [Next]_vars => HolderRuns'
<1> SUFFICES ASSUME TypeOK, WaitersAreOpen, HolderRuns, [Next]_vars PROVE HolderRuns'
  OBVIOUS
<1>0. /\ pc \in [Req -> PC] /\ open \in [Req -> BOOLEAN] /\ lock \in [Key -> Req \cup {NoReq}]
      /\ NoReq \notin Req
  BY DEF TypeOK
\* A step of r that takes no row and keeps its own.
<1>1. ASSUME NEW r \in Req, lock' = lock,
             open[r] => open'[r],
             pc[r] \in {"locking"} \cup Carrying => pc'[r] \in {"locking"} \cup Carrying,
             \A q \in Req \ {r} : pc'[q] = pc[q] /\ open'[q] = open[q]
      PROVE  HolderRuns'
  <2> SUFFICES ASSUME NEW k \in Key, lock[k] # NoReq
               PROVE  /\ KeyOf[lock[k]] = k /\ open'[lock[k]]
                      /\ pc'[lock[k]] \in {"locking"} \cup Carrying
    BY <1>1 DEF HolderRuns
  <2>1. lock[k] \in Req /\ KeyOf[lock[k]] = k /\ open[lock[k]]
        /\ pc[lock[k]] \in {"locking"} \cup Carrying
    BY <1>0 DEF HolderRuns
  <2>2. QED
    BY <1>1, <2>1
\* A step of r, whose transaction is open, that takes its counter's row.
<1>2. ASSUME NEW r \in Req, lock[KeyOf[r]] \in {NoReq, r}, lock' = [lock EXCEPT ![KeyOf[r]] = r],
             open' = open, open[r], pc'[r] \in {"locking"} \cup Carrying,
             \A q \in Req \ {r} : pc'[q] = pc[q]
      PROVE  HolderRuns'
  <2> SUFFICES ASSUME NEW k \in Key, lock'[k] # NoReq
               PROVE  /\ KeyOf[lock'[k]] = k /\ open'[lock'[k]]
                      /\ pc'[lock'[k]] \in {"locking"} \cup Carrying
    BY DEF HolderRuns
  <2>1. CASE k = KeyOf[r]
    BY <1>0, <1>2, <2>1
  <2>2. CASE k # KeyOf[r]
    <3>1. lock'[k] = lock[k] /\ lock[k] \in Req /\ KeyOf[lock[k]] = k
      BY <1>0, <1>2, <2>2 DEF HolderRuns
    <3>2. QED
      BY <1>2, <2>2, <3>1 DEF HolderRuns
  <2>3. QED
    BY <2>1, <2>2
<1>3. ASSUME NEW r \in Req, Validate(r) \/ OpenOuter(r) \/ OpenTimeout(r) \/ OpenInner(r) \/ Acknowledge(r)
      PROVE  HolderRuns'
  <2>1. pc[r] \in {"locking"} \cup Carrying => pc'[r] \in {"locking"} \cup Carrying
    BY <1>0, <1>3 DEF Validate, OpenOuter, OpenTimeout, OpenInner, Acknowledge, Carrying
  <2>2. (open[r] => open'[r]) /\ \A q \in Req \ {r} : pc'[q] = pc[q] /\ open'[q] = open[q]
    BY <1>0, <1>3 DEF Validate, OpenOuter, OpenTimeout, OpenInner, Acknowledge
  <2>3. lock' = lock
    BY <1>3 DEF Validate, OpenOuter, OpenTimeout, OpenInner, Acknowledge
  <2>4. QED
    BY <1>1, <2>1, <2>2, <2>3
<1>4. ASSUME NEW r \in Req, EnsureCounterRow(r) PROVE HolderRuns'
  <2>1. pc[r] = "ensuring" /\ pc'[r] = "locking" /\ open' = open
        /\ \A q \in Req \ {r} : pc'[q] = pc[q]
    BY <1>0, <1>4 DEF EnsureCounterRow
  <2>2. CASE lock' = lock
    BY <1>1, <2>1, <2>2
  <2>3. CASE lock[KeyOf[r]] = NoReq /\ lock' = [lock EXCEPT ![KeyOf[r]] = r] /\ open[r]
    BY <1>2, <2>1, <2>3
  <2>4. open[r]
    BY <2>1 DEF WaitersAreOpen
  <2>5. QED
    BY <1>4, <2>2, <2>3, <2>4 DEF EnsureCounterRow
<1>5. ASSUME NEW r \in Req, Allocate(r) PROVE HolderRuns'
  <2>1. /\ pc[r] = "locking" /\ pc'[r] = "allocated" /\ open' = open
        /\ lock[KeyOf[r]] \in {NoReq, r} /\ lock' = [lock EXCEPT ![KeyOf[r]] = r]
        /\ \A q \in Req \ {r} : pc'[q] = pc[q]
    BY <1>0, <1>5 DEF Allocate, RowGranted
  <2>2. open[r]
    BY <2>1 DEF WaitersAreOpen
  <2>3. QED
    BY <1>2, <2>1, <2>2 DEF Carrying
<1>6. ASSUME NEW r \in Req, InsertOrder(r) PROVE HolderRuns'
  <2>1. CASE UNCHANGED <<open, lock>> /\ pc' = [pc EXCEPT ![r] = "inserted"]
    BY <1>0, <1>1, <2>1 DEF Carrying
  <2>2. CASE CloseOuter(r) /\ pc' = [pc EXCEPT ![r] = "duplicateNumber"]
    BY <1>0, <2>2, ClosedHoldsNothing
  <2>3. QED
    BY <1>6, <2>1, <2>2 DEF InsertOrder
<1>7. ASSUME NEW r \in Req, InnerTimeout(r) \/ Commit(r) \/ LoseOuter(r) \/ LoseInner(r)
      PROVE  HolderRuns'
  <2>1. CloseOuter(r) /\ \A q \in Req \ {r} : pc'[q] = pc[q]
    BY <1>0, <1>7 DEF InnerTimeout, Commit, LoseOuter, LoseInner
  <2>2. QED
    BY <2>1, ClosedHoldsNothing
<1>8. CASE Crash
  BY <1>8 DEF Crash, HolderRuns
<1>9. CASE Finished \/ UNCHANGED vars
  BY <1>9 DEF Finished, vars, HolderRuns
<1>10. QED
  BY <1>3, <1>4, <1>5, <1>6, <1>7, <1>8, <1>9 DEF Next, Step

\* However calls queue for rows and connections, fail and crash, whoever is waited
\* for runs and does not wait (allocateOrderNumber's row lock inside placeOrder).
THEOREM NeverWaitsForAWaiter == Spec => []WaitsForNoWaiter
<1>1. ASSUME TypeOK, HolderRuns PROVE WaitsForNoWaiter
  <2> SUFFICES ASSUME NEW r \in Req, Waits(r)
               PROVE  LET holder == lock[KeyOf[r]] IN
                      /\ holder \in Req \ {r} /\ KeyOf[holder] = KeyOf[r]
                      /\ open[holder] /\ pc[holder] \in Running /\ ~Waits(holder)
    BY DEF WaitsForNoWaiter
  <2> DEFINE holder == lock[KeyOf[r]]
  <2>1. KeyOf[r] \in Key /\ holder \in Req /\ holder # NoReq
    BY <1>1 DEF TypeOK, Waits
  <2>2. KeyOf[holder] = KeyOf[r] /\ open[holder] /\ pc[holder] \in {"locking"} \cup Carrying
    BY <1>1, <2>1 DEF HolderRuns
  <2>3. holder # r /\ ~Waits(holder)
    BY <2>2 DEF Waits, Carrying
  <2>4. QED
    BY <2>1, <2>2, <2>3 DEF Carrying, Running
<1>2. Init => HolderRuns /\ WaitersAreOpen
  BY DEF Init, HolderRuns, WaitersAreOpen
<1>3. IInv => TypeOK
  BY DEF IInv
<1>4. QED
  BY <1>1, <1>2, <1>3, WaitersStep, HolderStep, Invariance, PTL DEF Spec

-------------------------------------------------------------------------------

\* The two kinds of connection Busy counts: a call's outer transaction, and
\* the inner one its insert runs on.
Outer == {r \in Req : open[r]}
Inner == {r \in Req : pc[r] = "inserting"}

LEMMA ConnectionsFinite ==
    /\ Outer \subseteq Req /\ Inner \subseteq Req
    /\ IsFiniteSet(Outer) /\ IsFiniteSet(Inner)
    /\ Cardinality(Outer) \in Nat /\ Cardinality(Inner) \in Nat
    /\ Busy = Cardinality(Outer) + Cardinality(Inner)
    /\ Busy \in Nat
<1>1. Outer \subseteq Req /\ Inner \subseteq Req
  BY DEF Outer, Inner
<1>2. IsFiniteSet(Outer) /\ IsFiniteSet(Inner)
  BY <1>1, ReqFinite, FS_Subset
<1>3. Cardinality(Outer) \in Nat /\ Cardinality(Inner) \in Nat
  BY <1>2, FS_CardinalityType
<1>4. Busy = Cardinality(Outer) + Cardinality(Inner)
  BY DEF Busy, Outer, Inner
<1>5. QED
  BY <1>1, <1>2, <1>3, <1>4

\* A call that holds two connections holds its counter's row as well, so at
\* most one call per counter does, and never one whose counter another open
\* carrier has.
LEMMA TwoConnectionsPerCounter ==
    ASSUME IInv, NEW spare \in SUBSET Key,
           \A r \in Outer \cap Inner : KeyOf[r] \notin spare
    PROVE  Cardinality(Outer \cap Inner) <= Cardinality(Key \ spare)
<1> DEFINE S == Outer \cap Inner
           T == Key \ spare
           f == [r \in S |-> KeyOf[r]]
<1>1. IsFiniteSet(T)
  BY KeyFinite, FS_Subset
<1>2. \A r \in S : r \in Req /\ lock[KeyOf[r]] = r /\ KeyOf[r] \in T
  BY DEF IInv, HolderIsCurrent, Carrying, Outer, Inner
<1>3. f \in Injection(S, T)
  <2>1. f \in [S -> T]
    BY <1>2
  <2>2. \A a, b \in S : f[a] = f[b] => a = b
    BY <1>2
  <2>3. QED
    BY <2>1, <2>2 DEF Injection, IsInjective
<1>4. QED
  BY <1>1, <1>3, FS_Injection

\* A call that is about to ask for a connection leaves at least one of an
\* ample pool's connections free: it has none itself, or it holds its
\* counter's row and so nobody else on that counter has two.
LEMMA OneIsFree ==
    ASSUME IInv, NEW r \in Req, pc[r] \in {"new", "opening", "allocated"}
    PROVE  Busy < Cardinality(Req) + Cardinality(Key)
<1> DEFINE both == Outer \cap Inner
           any == Outer \cup Inner
<1>1. /\ Cardinality(Req) \in Nat /\ Cardinality(Key) \in Nat
      /\ Cardinality(any) \in Nat /\ Cardinality(both) \in Nat
      /\ any \subseteq Req
      /\ Busy = Cardinality(any) + Cardinality(both)
  <2>1. IsFiniteSet(any) /\ Cardinality(any) = Cardinality(Outer) + Cardinality(Inner) - Cardinality(both)
    BY ConnectionsFinite, FS_Union
  <2>2. IsFiniteSet(both)
    BY ConnectionsFinite, FS_Subset
  <2>3. /\ Cardinality(any) \in Nat /\ Cardinality(both) \in Nat
        /\ Cardinality(Req) \in Nat /\ Cardinality(Key) \in Nat
    BY <2>1, <2>2, ReqFinite, KeyFinite, FS_CardinalityType
  <2>4. any \subseteq Req
    BY ConnectionsFinite
  <2>5. Busy = Cardinality(any) + Cardinality(both)
    BY <2>1, <2>3, ConnectionsFinite
  <2>6. QED
    BY <2>3, <2>4, <2>5
<1>2. r \notin Inner
  BY DEF Inner
<1>3. CASE open[r]
  <2>1. pc[r] = "allocated" /\ lock[KeyOf[r]] = r /\ KeyOf[r] \in Key
    BY <1>3 DEF IInv, OpenWhere, HolderIsCurrent, Carrying
  <2>2. \A q \in both : KeyOf[q] \notin {KeyOf[r]}
    BY <1>2, <2>1 DEF IInv, HolderIsCurrent, Carrying, Outer, Inner
  <2>3. Cardinality(both) <= Cardinality(Key \ {KeyOf[r]})
    BY <2>1, <2>2, TwoConnectionsPerCounter
  <2>4. Cardinality(Key \ {KeyOf[r]}) = Cardinality(Key) - 1
    BY <2>1, KeyFinite, FS_RemoveElement
  <2>5. Cardinality(any) <= Cardinality(Req)
    BY <1>1, ReqFinite, FS_Subset
  <2>6. QED
    BY <1>1, <2>3, <2>4, <2>5
<1>4. CASE ~open[r]
  <2>1. any \subseteq Req \ {r}
    BY <1>1, <1>2, <1>4 DEF Outer
  <2>2. IsFiniteSet(Req \ {r}) /\ Cardinality(Req \ {r}) = Cardinality(Req) - 1
    BY ReqFinite, FS_RemoveElement
  <2>3. Cardinality(any) <= Cardinality(Req) - 1
    BY <2>1, <2>2, FS_Subset
  <2>4. Cardinality(both) <= Cardinality(Key \ {})
    BY TwoConnectionsPerCounter
  <2>5. Key \ {} = Key
    OBVIOUS
  <2>6. QED
    BY <1>1, <2>3, <2>4, <2>5
<1>5. QED
  BY <1>3, <1>4

\* The connections of a step that opens no transaction, and of one that opens
\* a single one with the pool not full.
LEMMA BusyStep ==
    ASSUME poolSize \in Nat, poolSize' = poolSize, Busy <= poolSize, NEW r,
           \/ Outer' \subseteq Outer /\ Inner' \subseteq Inner
           \/ ~PoolFull /\ Outer' \subseteq Outer \cup {r} /\ Inner' \subseteq Inner
           \/ ~PoolFull /\ Outer' \subseteq Outer /\ Inner' \subseteq Inner \cup {r}
    PROVE  (Busy <= poolSize)'
<1>1. /\ IsFiniteSet(Outer) /\ IsFiniteSet(Inner)
      /\ Cardinality(Outer) \in Nat /\ Cardinality(Inner) \in Nat
      /\ Busy = Cardinality(Outer) + Cardinality(Inner)
  BY ConnectionsFinite
<1>2. /\ Cardinality(Outer') \in Nat /\ Cardinality(Inner') \in Nat
      /\ Busy' = Cardinality(Outer') + Cardinality(Inner')
  <2>1. Outer' \subseteq Req /\ Inner' \subseteq Req
    BY DEF Outer, Inner
  <2>2. Cardinality(Outer') \in Nat /\ Cardinality(Inner') \in Nat
    BY <2>1, ReqFinite, FS_Subset, FS_CardinalityType
  <2>3. QED
    BY <2>2 DEF Busy, Outer, Inner
<1>3. /\ IsFiniteSet(Outer \cup {r}) /\ Cardinality(Outer \cup {r}) <= Cardinality(Outer) + 1
      /\ IsFiniteSet(Inner \cup {r}) /\ Cardinality(Inner \cup {r}) <= Cardinality(Inner) + 1
  <2>1. ASSUME NEW S, IsFiniteSet(S), Cardinality(S) \in Nat
        PROVE  IsFiniteSet(S \cup {r}) /\ Cardinality(S \cup {r}) <= Cardinality(S) + 1
    <3>1. /\ IsFiniteSet(S \cup {r})
          /\ Cardinality(S \cup {r}) = IF r \in S THEN Cardinality(S) ELSE Cardinality(S) + 1
      BY <2>1, FS_AddElement
    <3>2. QED
      BY <2>1, <3>1
  <2>2. QED
    BY <1>1, <2>1
<1>4. Outer' \subseteq Outer => Cardinality(Outer') <= Cardinality(Outer)
  BY <1>1, FS_Subset
<1>5. Inner' \subseteq Inner => Cardinality(Inner') <= Cardinality(Inner)
  BY <1>1, FS_Subset
<1>6. Outer' \subseteq Outer \cup {r} => Cardinality(Outer') <= Cardinality(Outer) + 1
  <2>1. Outer' \subseteq Outer \cup {r} => Cardinality(Outer') <= Cardinality(Outer \cup {r})
    BY <1>3, FS_Subset
  <2>2. Cardinality(Outer \cup {r}) \in Nat
    BY <1>3, FS_CardinalityType
  <2>3. QED
    BY <1>1, <1>2, <1>3, <2>1, <2>2
<1>7. Inner' \subseteq Inner \cup {r} => Cardinality(Inner') <= Cardinality(Inner) + 1
  <2>1. Inner' \subseteq Inner \cup {r} => Cardinality(Inner') <= Cardinality(Inner \cup {r})
    BY <1>3, FS_Subset
  <2>2. Cardinality(Inner \cup {r}) \in Nat
    BY <1>3, FS_CardinalityType
  <2>3. QED
    BY <1>1, <1>2, <1>3, <2>1, <2>2
<1>8. PoolFull <=> Busy >= poolSize
  BY DEF PoolFull
<1>9. QED
  BY <1>1, <1>2, <1>4, <1>5, <1>6, <1>7, <1>8

LEMMA AmpleStep == IInv /\ AmplePoolSuffices /\ [Next]_vars => AmplePoolSuffices'
<1> SUFFICES ASSUME IInv, AmplePoolSuffices, [Next]_vars PROVE AmplePoolSuffices'
  OBVIOUS
<1>0. /\ TypeOK /\ poolSize \in Nat /\ Busy \in Nat
      /\ Cardinality(Req) \in Nat /\ Cardinality(Key) \in Nat
  BY KeyFinite, FS_CardinalityType, ConnectionsFinite DEF IInv, TypeOK
<1>1. AmplePool => \A r \in Req : pc[r] \in {"new", "opening", "allocated"} => ~PoolFull
  BY <1>0, OneIsFree DEF AmplePool, PoolFull
<1>2. poolSize' = poolSize /\ AmplePool' = AmplePool
  BY DEF AmplePool, Next, Step, Finished, vars, Validate, OpenOuter, OpenTimeout,
     EnsureCounterRow, Allocate, OpenInner, InnerTimeout, InsertOrder, Commit,
     Acknowledge, LoseOuter, LoseInner, Crash
<1>b. Busy <= poolSize
  BY DEF AmplePoolSuffices
<1>3. (Busy <= poolSize)'
  <2>1. ASSUME NEW r \in Req, OpenOuter(r) PROVE (Busy <= poolSize)'
    <3>1. ~PoolFull /\ Outer' \subseteq Outer \cup {r} /\ Inner' \subseteq Inner
      BY <1>0, <2>1 DEF TypeOK, OpenOuter, Outer, Inner
    <3>2. QED
      BY <1>0, <1>2, <1>b, <3>1, BusyStep
  <2>2. ASSUME NEW r \in Req, OpenInner(r) PROVE (Busy <= poolSize)'
    <3>1. ~PoolFull /\ Outer' \subseteq Outer /\ Inner' \subseteq Inner \cup {r}
      BY <1>0, <2>2 DEF TypeOK, OpenInner, Outer, Inner
    <3>2. QED
      BY <1>0, <1>2, <1>b, <3>1, BusyStep
  <2>3. ASSUME Outer' \subseteq Outer, Inner' \subseteq Inner PROVE (Busy <= poolSize)'
    BY <1>0, <1>2, <1>b, <2>3, BusyStep
  <2>4. ASSUME NEW r \in Req,
               \/ Validate(r) \/ OpenTimeout(r) \/ EnsureCounterRow(r) \/ Allocate(r)
               \/ InnerTimeout(r) \/ InsertOrder(r) \/ Commit(r) \/ Acknowledge(r)
               \/ LoseOuter(r) \/ LoseInner(r)
        PROVE  Outer' \subseteq Outer /\ Inner' \subseteq Inner
    <3>1. Outer' \subseteq Outer
      BY <1>0, <2>4 DEF TypeOK, Outer, Validate, OpenTimeout, EnsureCounterRow, Allocate,
         InnerTimeout, InsertOrder, Commit, Acknowledge, LoseOuter, LoseInner, CloseOuter
    <3>2. Inner' \subseteq Inner
      BY <1>0, <2>4 DEF TypeOK, Inner, Validate, OpenTimeout, EnsureCounterRow, Allocate,
         InnerTimeout, InsertOrder, Commit, Acknowledge, LoseOuter, LoseInner
    <3>3. QED
      BY <3>1, <3>2
  <2>5. CASE Crash \/ UNCHANGED vars
    <3>1. Outer' \subseteq Outer /\ Inner' \subseteq Inner
      BY <1>0, <2>5 DEF TypeOK, Outer, Inner, Crash, vars
    <3>2. QED
      BY <2>3, <3>1
  <2>6. QED
    BY <2>1, <2>2, <2>3, <2>4, <2>5 DEF Next, Step, Finished
<1>4. AmplePool' => \A r \in Req : pc'[r] # "noConnection"
  <2> SUFFICES ASSUME AmplePool, NEW r \in Req, pc[r] # "noConnection"
               PROVE  pc'[r] # "noConnection"
    BY <1>2 DEF AmplePoolSuffices
  <2>1. \A q \in Req : ~OpenTimeout(q) /\ ~InnerTimeout(q)
    BY <1>1 DEF OpenTimeout, InnerTimeout
  <2>2. \A q \in Req : Validate(q) => pc'[r] # "noConnection"
    BY <1>0, <1>1 DEF TypeOK, Validate
  <2>3. QED
    BY <1>0, <2>1, <2>2 DEF TypeOK, Next, Step, Finished, vars, OpenOuter,
       EnsureCounterRow, Allocate, OpenInner, InsertOrder, Commit, Acknowledge, LoseOuter,
       LoseInner, Crash
<1>5. QED
  BY <1>3, <1>4 DEF AmplePoolSuffices

\* The pool is never overdrawn, and one connection per call plus one per
\* counter is enough for every load: no call then fails for want of one,
\* however the two transactions of each placement interleave.
THEOREM PoolSuffices == Spec => []AmplePoolSuffices
<1>1. Init => AmplePoolSuffices
  <2> SUFFICES ASSUME Init PROVE AmplePoolSuffices
    OBVIOUS
  <2>1. Outer = {} /\ Inner = {}
    BY DEF Init, Outer, Inner
  <2>2. Busy = 0
    BY <2>1, ConnectionsFinite, FS_EmptySet
  <2>3. QED
    BY <2>2 DEF Init, AmplePoolSuffices
<1>2. QED
  BY <1>1, AmpleStep, Invariance, PTL DEF Spec

===============================================================================

-------------------------- MODULE TenantAccessProofs --------------------------
(***************************************************************************)
(* Requests stay within one restaurant, for any restaurants, people,       *)
(* models and operations, and whichever role the server connects as.       *)
(*                                                                         *)
(* The argument has three parts. Under a role the policies bind, they      *)
(* admit a transaction with a tenant to that tenant's rows alone, whatever *)
(* the table (PoliciesIsolate). Under one they do not, the client's own    *)
(* narrowing does it for the models and operations it knows                *)
(* (OperationStaysHome). And whoever asks is a member, because guards read *)
(* memberships, which no code takes away.                                  *)
(***************************************************************************)
EXTENDS TenantAccess, TLAPS

\* Settings that name a tenant reach rows of that tenant alone, on every table.
LEMMA PoliciesIsolate ==
    ASSUME NEW t \in Tenant, NEW r \in DataRow, ~bypassed, Selectable(t, r)
    PROVE  owner[r] = t
<1>1. Settings(t).tenant = t /\ t # Nobody
    BY NobodyIsNone DEF Settings, RLS!NoSettings
<1>2. CASE r[2] = "Menu"
    BY <1>1, <1>2 DEF Selectable, RLS!TenantIsolation
<1>3. CASE r[2] = "Table"
    BY <1>1, <1>3 DEF Selectable, RLS!TableSelect, RLS!TenantIsolation
<1>4. CASE r[2] \notin {"Menu", "Table"}
    BY <1>1, <1>4 DEF Selectable, RLS!TrackedSelect, RLS!TenantIsolation
<1>5. QED
    BY <1>2, <1>3, <1>4

\* What is written carries that tenant as well.
LEMMA WritesAreOwn ==
    ASSUME NEW t \in Tenant, NEW o, ~bypassed, Writable(t, o)
    PROVE  o = t
BY NobodyIsNone DEF Writable, RLS!MayWrite, RLS!TenantIsolation, Settings, RLS!NoSettings

\* The rows a scoped operation gets to are the restaurant's, unless the policies are
\* bypassed and its model or operation is one the client does not narrow.
Strays(model, op) == bypassed /\ (op = "upsert" \/ model \notin TENANT_SCOPED_MODELS)

LEMMA MatchedAreOwn ==
    ASSUME NEW t \in Tenant, NEW op \in Operation, NEW model \in Model,
           NEW want \in SUBSET DataRowsOf(model), ~Strays(model, op), op \notin Creating
    PROVE  \A r \in Matched(t, op, want) : owner[r] = t
<1> SUFFICES ASSUME NEW r \in Matched(t, op, want)
             PROVE  owner[r] = t
    OBVIOUS
<1>1. r \in DataRow /\ r[2] = model
    BY DEF Matched, DataRowsOf, DataRow
<1>2. CASE ~bypassed
    BY <1>1, <1>2, PoliciesIsolate DEF Matched
<1>3. CASE bypassed
  <2>1. Narrows(model, op)
      BY <1>3, OperationType DEF Strays, Narrows
  <2>2. QED
      BY <1>1, <2>1 DEF Matched
<1>4. QED
    BY <1>2, <1>3

\* What one operation leaves behind: who asked, and rows of the restaurant alone.
\* The data of an update is the policies' to check.
StaysHome(last, t) ==
    \/ last.reached \cup last.written \subseteq {t}
    \/ bypassed /\ last.op \in Updating /\ last.reached \subseteq {t}
    \/ Strays(last.model, last.op)

LEMMA OperationStaysHome ==
    ASSUME NEW by, NEW t \in Tenant, Operate(by, t)
    PROVE  touched'.by = by /\ touched'.tenant = t /\ StaysHome(touched', t)
<1> DEFINE Last(model, op, want, written) ==
              [by |-> by, tenant |-> t, was |-> restaurant[t], model |-> model, op |-> op,
               reached |-> {owner[r] : r \in Matched(t, op, want)}, written |-> written]
<1>1. PICK op \in Operation, model \in Model :
        \E want \in SUBSET DataRowsOf(model) :
          \/ op \notin Creating /\ touched' = Last(model, op, want, {})
          \/ /\ op \in Updating \cup {"upsert"}
             /\ \E claimed : Writable(t, claimed) /\ touched' = Last(model, op, want, {claimed})
          \/ /\ op \in Creating \cup {"upsert"} /\ Matched(t, op, want) = {}
             /\ \E claimed : LET given == IF Assigns(model, op) THEN t ELSE claimed IN
                    Writable(t, given) /\ touched' = Last(model, op, want, {given})
    BY DEF Operate, Reading, Updating, Deleting, Creating
<1>2. PICK want \in SUBSET DataRowsOf(model) :
          \/ op \notin Creating /\ touched' = Last(model, op, want, {})
          \/ /\ op \in Updating \cup {"upsert"}
             /\ \E claimed : Writable(t, claimed) /\ touched' = Last(model, op, want, {claimed})
          \/ /\ op \in Creating \cup {"upsert"} /\ Matched(t, op, want) = {}
             /\ \E claimed : LET given == IF Assigns(model, op) THEN t ELSE claimed IN
                    Writable(t, given) /\ touched' = Last(model, op, want, {given})
    BY <1>1
<1>3. PICK written : touched' = Last(model, op, want, written)
    BY <1>2
<1>4. /\ touched'.by = by /\ touched'.tenant = t /\ touched'.model = model /\ touched'.op = op
      /\ touched'.reached = {owner[r] : r \in Matched(t, op, want)} /\ touched'.written = written
    BY <1>3
<1>5. CASE op \notin Creating /\ written = {}
    BY <1>4, <1>5, MatchedAreOwn DEF StaysHome
<1>6. ASSUME op \in Updating \cup {"upsert"} /\ \E claimed : Writable(t, claimed) /\ written = {claimed}
      PROVE  StaysHome(touched', t)
  <2>1. op \notin Creating
      BY <1>6 DEF Updating, Creating
  <2>2. CASE ~bypassed
    <3>1. written \subseteq {t}
        BY <1>6, <2>2, WritesAreOwn
    <3>2. touched'.reached \subseteq {t}
        BY <1>4, <2>1, <2>2, MatchedAreOwn DEF Strays
    <3>3. QED
        BY <1>4, <3>1, <3>2 DEF StaysHome
  <2>3. CASE bypassed
    <3>1. CASE Strays(model, op)
        BY <1>4, <3>1 DEF StaysHome
    <3>2. CASE ~Strays(model, op)
      <4>1. op \in Updating
          BY <1>6, <2>3, <3>2 DEF Strays
      <4>2. touched'.reached \subseteq {t}
          BY <1>4, <2>1, <3>2, MatchedAreOwn
      <4>3. QED
          BY <1>4, <2>3, <4>1, <4>2 DEF StaysHome
    <3>3. QED
        BY <3>1, <3>2
  <2>4. QED
      BY <2>2, <2>3
<1>7. ASSUME NEW claimed, op \in Creating \cup {"upsert"} /\ Matched(t, op, want) = {}
                          /\ Writable(t, IF Assigns(model, op) THEN t ELSE claimed)
                          /\ written = {IF Assigns(model, op) THEN t ELSE claimed}
      PROVE  StaysHome(touched', t)
  <2>1. touched'.reached = {}
      BY <1>4, <1>7
  <2>2. CASE ~bypassed \/ Assigns(model, op)
      BY <1>4, <1>7, <2>1, <2>2, WritesAreOwn DEF StaysHome
  <2>3. CASE bypassed /\ ~Assigns(model, op)
      BY <1>4, <1>7, <2>3 DEF StaysHome, Strays, Assigns
  <2>4. QED
      BY <2>2, <2>3
<1>8. \/ op \notin Creating /\ written = {}
      \/ op \in Updating \cup {"upsert"} /\ \E claimed : Writable(t, claimed) /\ written = {claimed}
      \/ \E claimed : /\ op \in Creating \cup {"upsert"} /\ Matched(t, op, want) = {}
                      /\ Writable(t, IF Assigns(model, op) THEN t ELSE claimed)
                      /\ written = {IF Assigns(model, op) THEN t ELSE claimed}
  <2>1. CASE op \notin Creating /\ touched' = Last(model, op, want, {})
      BY <1>4, <2>1
  <2>2. ASSUME NEW claimed, touched' = Last(model, op, want, {claimed})
        PROVE  written = {claimed}
      BY <1>4, <2>2
  <2>3. QED
      BY <1>2, <2>1, <2>2
<1>9. QED
    BY <1>4, <1>5, <1>6, <1>7, <1>8

-----------------------------------------------------------------------------
\* A sign-up that got as far as the restaurant has its account.
Joined == \A p \in Person : joining[p] = "restaurant" => p \in account

Inv == AccessTypeOK /\ Joined /\ RowsStayHome

LEMMA InvInit == AccessInit => Inv
<1> SUFFICES ASSUME AccessInit PROVE Inv
    OBVIOUS
<1>1. AccessTypeOK
  <2>1. \A m \in Roster : m.tenant \in Tenant /\ m.person \in Person
      BY RosterType
  <2>2. restaurant \in [Tenant -> {"none", "open", "suspended"}]
      BY DEF AccessInit
  <2>3. owner \in [DataRow -> Tenant \cup {Nobody}]
      BY DEF AccessInit, DataRow
  <2>4. QED
      BY <2>1, <2>2, <2>3, RosterType DEF AccessInit, AccessTypeOK
<1>2. Joined /\ RowsStayHome
    BY DEF AccessInit, Joined, RowsStayHome, Untouched
<1>3. QED
    BY <1>1, <1>2 DEF Inv

\* Memberships are kept, and so are the pairs they give.
LEMMA PairsKept ==
    ASSUME membership \subseteq membership'
    PROVE  Pairs \subseteq Pairs'
BY DEF Pairs

\* A step that is no request keeps the last one as it was.
LEMMA NoRequestStaysHome ==
    ASSUME RowsStayHome, touched' = touched, bypassed' = bypassed, membership \subseteq membership'
    PROVE  RowsStayHome'
BY PairsKept DEF RowsStayHome

\* A request of a member, or of nobody, stays home.
LEMMA RequestStaysHome ==
    ASSUME Inv, NEW by, NEW t \in Tenant, Request(by, t), by # Nobody => <<t, by>> \in Pairs
    PROVE  Inv'
<1>1. Operate(by, t) /\ UNCHANGED <<bypassed, restaurant, account, membership, joining, web, tablet>>
    BY DEF Request
<1>2. RowsStayHome'
    BY <1>1, OperationStaysHome DEF RowsStayHome, StaysHome, Strays, Pairs
<1>3. owner' \in [DataRow -> Tenant \cup {Nobody}]
  <2> DEFINE Changed(rows, o) == owner' = [r \in DataRow |-> IF r \in rows THEN o ELSE owner[r]]
  <2>1. PICK op \in Operation, model \in Model :
          \E want \in SUBSET DataRowsOf(model) :
            \/ UNCHANGED owner
            \/ \E o \in Tenant : Changed(Matched(t, op, want), o)
            \/ Changed(Matched(t, op, want), Nobody)
            \/ \E claimed \in Tenant, x \in DataRowsOf(model) :
                  Changed({x}, IF Assigns(model, op) THEN t ELSE claimed)
      BY <1>1 DEF Operate, Claimable
  <2>2. QED
      BY <2>1 DEF Inv, AccessTypeOK
<1>4. QED
    BY <1>1, <1>2, <1>3 DEF Inv, AccessTypeOK, Joined

\* Founding a restaurant adds its owner.
LEMMA FoundedTypes ==
    ASSUME AccessTypeOK, NEW p \in Person, NEW t \in Tenant, Founded(p, t)
    PROVE  /\ restaurant' \in [Tenant -> {"none", "open", "suspended"}]
           /\ membership \subseteq membership'
           /\ membership' \subseteq [tenant : Tenant, person : Person,
                                     role : {"OWNER", "MANAGER", "WAITER", "KITCHEN"}]
BY DEF AccessTypeOK, Founded

LEMMA InvStep == Inv /\ [AccessNext]_accessVars => Inv'
<1> SUFFICES ASSUME Inv, [AccessNext]_accessVars PROVE Inv'
    OBVIOUS
<1> USE DEF Inv
<1>1. ASSUME NEW p \in Person,
             SignUpLooks(p) \/ SignUpCreatesUser(p) \/ SignUpFails(p) \/ SignIn(p)
      PROVE  Inv'
  <2>1. /\ UNCHANGED <<bypassed, owner, touched, restaurant, membership, tablet>>
        /\ account \subseteq account' /\ account' \subseteq Person /\ web' \subseteq account'
        /\ joining' \in [Person -> {"no", "user", "restaurant"}]
        /\ \A q \in Person : joining'[q] = "restaurant" => q \in account'
      BY <1>1 DEF SignUpLooks, SignUpCreatesUser, SignUpFails, SignIn, DataUnchanged,
                  AccessTypeOK, Joined
  <2>2. QED
      BY <2>1, NoRequestStaysHome DEF AccessTypeOK, Joined
<1>2. ASSUME NEW p \in Person, NEW t \in Tenant,
             SignUpCreatesRestaurant(p, t) \/ CreateRestaurant(p, t)
      PROVE  Inv'
  <2>1. /\ UNCHANGED <<bypassed, owner, touched, account, tablet>> /\ Founded(p, t)
        /\ web' \subseteq account
        /\ joining' \in [Person -> {"no", "user", "restaurant"}]
        /\ \A q \in Person : joining'[q] = "restaurant" => q \in account
      BY <1>2 DEF SignUpCreatesRestaurant, CreateRestaurant, DataUnchanged, AccessTypeOK, Joined
  <2>2. QED
      BY <2>1, FoundedTypes, NoRequestStaysHome DEF AccessTypeOK, Joined
<1>3. ASSUME NEW t \in Tenant, NEW m \in DOMAIN PinCode, StaffLogin(t, PinCode[m])
      PROVE  Inv'
  <2>1. /\ UNCHANGED <<bypassed, owner, touched, restaurant, account, membership, joining, web>>
        /\ tablet' \in membership
      BY <1>3 DEF StaffLogin, DataUnchanged, MembersOf
  <2>2. QED
      BY <2>1, NoRequestStaysHome DEF AccessTypeOK, Joined
<1>4. ASSUME StaffLogout \/ \E t \in Tenant : SuspendOrRestore(t)
      PROVE  Inv'
  <2>1. /\ UNCHANGED <<bypassed, owner, touched, account, membership, joining, web>>
        /\ restaurant' \in [Tenant -> {"none", "open", "suspended"}]
        /\ tablet' \in {tablet, NoStaff}
      BY <1>4 DEF StaffLogout, SuspendOrRestore, DataUnchanged, AccessTypeOK
  <2>2. QED
      BY <2>1, NoRequestStaysHome DEF AccessTypeOK, Joined
<1>5. ASSUME NEW p \in Person, NEW t \in Tenant, DashboardRequest(p, t)
      PROVE  Inv'
  <2>1. <<t, p>> \in Pairs /\ Request(p, t)
      BY <1>5 DEF DashboardRequest, MembersOf, Pairs
  <2>2. QED
      BY <2>1, RequestStaysHome
<1>6. ASSUME StaffRequest
      PROVE  Inv'
  <2>1. tablet \in membership /\ Request(tablet.person, tablet.tenant)
      BY <1>6 DEF StaffRequest, AccessTypeOK
  <2>2. tablet.tenant \in Tenant /\ <<tablet.tenant, tablet.person>> \in Pairs
      BY <2>1 DEF Pairs, AccessTypeOK
  <2>3. QED
      BY <2>1, <2>2, RequestStaysHome
<1>7. ASSUME DinerRequest
      PROVE  Inv'
  <2>1. PICK r \in DataRowsOf("Table") : owner[r] # Nobody /\ Request(Nobody, owner[r])
      BY <1>7 DEF DinerRequest
  <2>2. owner[r] \in Tenant
      BY <2>1, TablesAreRows DEF AccessTypeOK, DataRow, DataRowsOf
  <2>3. QED
      BY <2>1, <2>2, RequestStaysHome
<1>8. CASE UNCHANGED accessVars
    BY <1>8, NoRequestStaysHome DEF accessVars, AccessTypeOK, Joined
<1>9. QED
    BY <1>1, <1>2, <1>3, <1>4, <1>5, <1>6, <1>7, <1>8 DEF AccessNext

\* The access variables keep their types.
THEOREM AccessTypeCorrect == AccessSpec => []AccessTypeOK
BY InvInit, InvStep, PTL DEF AccessSpec, Inv

\* Whatever a request asks for, it reaches rows of one restaurant and writes none for
\* another, but for what has row level security alone under a role that bypasses
\* it, and whoever asks belongs to the restaurant (tenant-client.ts).
THEOREM RequestsStayHome == AccessSpec => []RowsStayHome
BY InvInit, InvStep, PTL DEF AccessSpec, Inv
=============================================================================

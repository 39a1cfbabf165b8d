----------------------------- MODULE TenantAccess -----------------------------
(***************************************************************************)
(* Who reaches a restaurant, and what a request reaches: sign-up and       *)
(* sign-in (modules/auth, lib/auth.ts), staff PINs, the dashboard's guard, *)
(* a table's code, suspension, and the client that server/db/tenant-client *)
(* .ts scopes to one restaurant over the policies of RowLevelSecurity.     *)
(*                                                                         *)
(* An account is its email and a restaurant its slug. A request finds its  *)
(* restaurant and runs one operation of the scoped client, whose arguments *)
(* are arbitrary: both layers promise to hold against a mistake in them.   *)
(* `bypass` is as in Billing. Passwords, and the operator's own sign-in,   *)
(* are left out; staff are those of the roster, whom no code adds.         *)
(* A definition marked "mutant" is a wrong variant of the next one.        *)
(***************************************************************************)
EXTENDS Naturals, FiniteSets

CONSTANTS
    Tenant, Person,
    Roster,         \* memberships the restaurants begin with
    PinCode,        \* staff_pins: the PIN of some of the roster
    Model,          \* models of the schema that hold restaurants' rows
    Operation,      \* operations of the client that are asked for
    Nobody,         \* no restaurant, no person, no setting
    MaxVisits       \* bound: requests, sign-ins and suspensions

ASSUME NobodyIsNone == Nobody \notin Tenant \cup Person
ASSUME RosterType ==
    Roster \subseteq [tenant : Tenant, person : Person, role : {"OWNER", "MANAGER", "WAITER", "KITCHEN"}]
ASSUME TablesAreRows == "Table" \in Model
ASSUME PinType == DOMAIN PinCode \subseteq Roster
ASSUME VisitBound == MaxVisits \in Nat

VARIABLES
    bypassed,       \* the server's database role ignores row level security
    restaurant,     \* tenants: "none", "open" or "suspended" (deletedAt)
    account,        \* users
    membership,     \* memberships
    owner,          \* every row's restaurant, or Nobody where there is no row
    joining,        \* every person's sign-up
    web,            \* browsers signed in as an account
    tablet,         \* the staff session of a tablet
    visits,
    touched         \* for the properties: the last request

accessVars == <<bypassed, restaurant, account, membership, owner, joining, web, tablet,
                visits, touched>>

\* A row is named for the restaurant that has it at first and for its model.
DataRow == Tenant \X Model
DataRowsOf(model) == Tenant \X {model}

RLS == INSTANCE RowLevelSecurity WITH Unset <- Nobody

NoStaff == [tenant |-> Nobody, person |-> Nobody, role |-> "none"]
Untouched == [by |-> Nobody, tenant |-> Nobody, was |-> "none", model |-> "none", op |-> "none",
              reached |-> {}, written |-> {}]

AccessInit ==
    /\ bypassed \in BOOLEAN
    /\ restaurant = [t \in Tenant |-> IF \E m \in Roster : m.tenant = t THEN "open" ELSE "none"]
    /\ account = {m.person : m \in Roster}
    /\ membership = Roster
    /\ owner = [r \in DataRow |-> IF restaurant[r[1]] = "none" THEN Nobody ELSE r[1]]
    /\ joining = [p \in Person |-> "no"]
    /\ web = {}
    /\ tablet = NoStaff
    /\ visits = 0
    /\ touched = Untouched

Visit == visits < MaxVisits /\ visits' = visits + 1

MembersOf(t) == {m \in membership : m.tenant = t}
Pairs == {<<m.tenant, m.person>> : m \in membership}

\* The row of restaurant t as a transaction with settings g may select it.
TenantRow(t) == [id |-> t, slug |-> t, deleted |-> restaurant[t] = "suspended"]
SeesTenant(g, t) == bypassed \/ RLS!TenantSelect(g, TenantRow(t), Pairs)
SeesMember(g, m) == bypassed \/ RLS!MembershipSelect(g, m.tenant, m.person)

-----------------------------------------------------------------------------
(* Sign-up and sign-in                                                      *)

DataUnchanged == UNCHANGED <<bypassed, owner, touched>>

\* signUp: findUserByEmail, createUser, createTenantRecord.
SignUpLooks(p) ==
    /\ joining[p] = "no" /\ p \notin account
    /\ joining' = [joining EXCEPT ![p] = "user"]
    /\ DataUnchanged /\ UNCHANGED <<restaurant, account, membership, web, tablet, visits>>

\* The email is unique: a second sign-up that looked meanwhile fails.
SignUpCreatesUser(p) ==
    /\ joining[p] = "user"
    /\ joining' = [joining EXCEPT ![p] = IF p \in account THEN "no" ELSE "restaurant"]
    /\ account' = account \cup {p}
    /\ DataUnchanged /\ UNCHANGED <<restaurant, membership, web, tablet, visits>>

\* createTenantRecord: the restaurant and its owner in one transaction. The id
\* is new, and set as the tenant; a slug that is taken changes nothing.
Founded(p, t) ==
    IF restaurant[t] = "none"
    THEN /\ restaurant' = [restaurant EXCEPT ![t] = "open"]
         /\ membership' = membership \cup {[tenant |-> t, person |-> p, role |-> "OWNER"]}
    ELSE UNCHANGED <<restaurant, membership>>

\* Taken, the user stays: "they can retry". On success signUpAction signs in.
SignUpCreatesRestaurant(p, t) ==
    /\ joining[p] = "restaurant"
    /\ Founded(p, t)
    /\ joining' = [joining EXCEPT ![p] = "no"]
    /\ web' = IF restaurant[t] = "none" THEN web \cup {p} ELSE web
    /\ DataUnchanged /\ UNCHANGED <<account, tablet, visits>>

\* It fails in between: the user stays all the same.
SignUpFails(p) ==
    /\ joining[p] # "no"
    /\ joining' = [joining EXCEPT ![p] = "no"]
    /\ DataUnchanged /\ UNCHANGED <<restaurant, account, membership, web, tablet, visits>>

\* The credentials of an account, or Google, which makes one where there is none.
SignIn(p) ==
    /\ p \notin web /\ Visit
    /\ web' = web \cup {p}
    /\ account' = account \cup {p}
    /\ DataUnchanged /\ UNCHANGED <<restaurant, membership, joining, tablet>>

\* createRestaurantAction of dashboard/new.
CreateRestaurant(p, t) ==
    /\ p \in web /\ restaurant[t] = "none"
    /\ Founded(p, t)
    /\ DataUnchanged /\ UNCHANGED <<account, joining, web, tablet, visits>>

\* staffLoginAction: the restaurant by its slug, then whoever of its roster comes
\* first with that PIN, both read in the staff-login window.
StaffLogin(t, code) ==
    LET window == [RLS!NoSettings EXCEPT !.staffLogin = TRUE]
        roster == {m \in MembersOf(t) : SeesMember([window EXCEPT !.staffTenant = t], m)}
    IN /\ Visit
       /\ SeesTenant(window, t) /\ restaurant[t] = "open"
       /\ tablet' \in {m \in roster \cap DOMAIN PinCode : PinCode[m] = code}
       /\ DataUnchanged /\ UNCHANGED <<restaurant, account, membership, joining, web>>

\* Twelve hours later, or signed out.
StaffLogout ==
    /\ tablet # NoStaff /\ tablet' = NoStaff
    /\ DataUnchanged /\ UNCHANGED <<restaurant, account, membership, joining, web, visits>>

\* suspendTenantAction, restoreTenantAction.
SuspendOrRestore(t) ==
    /\ Visit
    /\ restaurant[t] # "none"
    /\ restaurant' = [restaurant EXCEPT ![t] = IF @ = "open" THEN "suspended" ELSE "open"]
    /\ DataUnchanged /\ UNCHANGED <<account, membership, joining, web, tablet>>

-----------------------------------------------------------------------------
(* The scoped client                                                        *)

\* Of the models with a tenantId, some of those it filters. A restaurant's own row,
\* which it filters by id, and the rest are left out.
TENANT_SCOPED_MODELS == {"Menu", "Table", "Order"}

Reading == {"findUnique", "findFirst", "findMany", "count"}
Updating == {"update", "updateMany"}
Deleting == {"delete", "deleteMany"}
Creating == {"create", "createMany"}

ASSUME OperationType ==
    Operation \subseteq Reading \cup Updating \cup Deleting \cup Creating \cup {"upsert"}

\* injectTenantScope: operations whose where it narrows to the restaurant, the
\* single-row ones by rewriteOperation; and those whose rows it gives to it.
NarrowsReadsOnly(model, op) == model \in TENANT_SCOPED_MODELS /\ op \in Reading      \* mutant
Narrows(model, op) == model \in TENANT_SCOPED_MODELS /\ op \in Reading \cup Updating \cup Deleting
Assigns(model, op) == model \in TENANT_SCOPED_MODELS /\ op \in Creating

Settings(t) == [RLS!NoSettings EXCEPT !.tenant = t]

\* What the policies let a transaction of the scoped client select.
Selectable(t, r) ==
    \/ bypassed
    \/ CASE r[2] = "Menu" -> RLS!TenantIsolation(Settings(t), owner[r])
         [] r[2] = "Table" -> RLS!TableSelect(Settings(t), owner[r], TRUE)
         [] OTHER -> RLS!TrackedSelect(Settings(t), owner[r])
Writable(t, o) == bypassed \/ RLS!MayWrite(Settings(t), o)

\* The rows that an operation asking for `want` gets to.
Matched(t, op, want) ==
    {r \in want : /\ owner[r] # Nobody /\ Selectable(t, r)
                  /\ Narrows(r[2], op) => owner[r] = t}

\* The restaurants that data may name: a mistaken id is that of another restaurant.
Claimable == {t \in Tenant : restaurant[t] # "none"}

\* One operation of forTenant(t), asked for by `by`. A write the policies refuse
\* throws and undoes the operation. The data of an update may name a restaurant,
\* at which injectTenantScope does not look: only the policies' WITH CHECK does.
Operate(by, t) ==
    \E op \in Operation, model \in Model : \E want \in SUBSET DataRowsOf(model) :
        LET found == Matched(t, op, want)
            Touches(written) ==
                touched' = [by |-> by, tenant |-> t, was |-> restaurant[t], model |-> model,
                            op |-> op, reached |-> {owner[r] : r \in found}, written |-> written]
            Changes(rows, o) == owner' = [r \in DataRow |-> IF r \in rows THEN o ELSE owner[r]]
        IN \/ /\ op \in Reading
              /\ UNCHANGED owner /\ Touches({})
           \/ /\ op \in Updating \cup {"upsert"} /\ found # {}
              /\ \A r \in found : Writable(t, owner[r])
              /\ \/ UNCHANGED owner /\ Touches({})
                 \/ \E claimed \in Claimable : /\ Writable(t, claimed)
                                              /\ Changes(found, claimed) /\ Touches({claimed})
           \/ /\ op \in Deleting
              /\ \A r \in found : Writable(t, owner[r])
              /\ Changes(found, Nobody) /\ Touches({})
           \/ /\ op \in Creating \cup {"upsert"} /\ found = {}
              /\ \E claimed \in Claimable, r \in DataRowsOf(model) :
                   LET given == IF Assigns(model, op) THEN t ELSE claimed IN
                   /\ owner[r] = Nobody /\ Writable(t, given)
                   /\ Changes({r}, given) /\ Touches({given})

Request(by, t) ==
    /\ Visit
    /\ Operate(by, t)
    /\ UNCHANGED <<bypassed, restaurant, account, membership, joining, web, tablet>>

\* requireDashboardTenant: a membership of the signed-in account in a restaurant
\* that is not suspended, read in a transaction that sets the account.
DashboardRequest(p, t) ==
    LET g == [RLS!NoSettings EXCEPT !.user = p] IN
    /\ p \in web
    /\ \E m \in MembersOf(t) : /\ m.person = p /\ SeesMember(g, m) /\ SeesTenant(g, t)
                               /\ m.role \notin {"WAITER", "KITCHEN"}
    /\ restaurant[t] = "open"
    /\ Request(p, t)

\* requireStaffSession asks the token alone.
StaffRequest ==
    /\ tablet # NoStaff
    /\ Request(tablet.person, tablet.tenant)

\* resolveTableByPublicCode, for the storefront and placeOrder: the code's table,
\* and the restaurant it belongs to.
DinerRequest ==
    \E r \in DataRowsOf("Table") :
        /\ owner[r] # Nobody
        /\ bypassed \/ RLS!TableSelect(RLS!NoSettings, owner[r], TRUE)
        /\ Request(Nobody, owner[r])

AccessNext ==
    \/ \E p \in Person : \/ SignUpLooks(p) \/ SignUpCreatesUser(p) \/ SignUpFails(p) \/ SignIn(p)
                         \/ \E t \in Tenant : \/ SignUpCreatesRestaurant(p, t) \/ CreateRestaurant(p, t)
                                              \/ DashboardRequest(p, t)
    \/ \E t \in Tenant, m \in DOMAIN PinCode : StaffLogin(t, PinCode[m])
    \/ \E t \in Tenant : SuspendOrRestore(t)
    \/ StaffLogout \/ StaffRequest \/ DinerRequest

AccessSpec == AccessInit /\ [][AccessNext]_accessVars

-----------------------------------------------------------------------------
AccessTypeOK ==
    /\ bypassed \in BOOLEAN
    /\ restaurant \in [Tenant -> {"none", "open", "suspended"}]
    /\ account \subseteq Person /\ web \subseteq account
    /\ membership \subseteq [tenant : Tenant, person : Person, role : {"OWNER", "MANAGER", "WAITER", "KITCHEN"}]
    /\ owner \in [DataRow -> Tenant \cup {Nobody}]
    /\ joining \in [Person -> {"no", "user", "restaurant"}]
    /\ tablet \in membership \cup {NoStaff}

\* Whatever a request asks for, it reaches rows of one restaurant and writes none
\* for another, and the account or the member of staff that asks belongs to it.
\* Either layer is enough: "a bug in application code cannot leak another tenant's
\* rows even if RLS were ever misconfigured" (tenant-client.ts), but for an upsert,
\* for the models its list lacks, and for the restaurant that an update's data
\* names, which have row level security alone.
RowsStayHome ==
    /\ \/ touched.reached \cup touched.written \subseteq {touched.tenant}
       \/ bypassed /\ touched.op \in Updating /\ touched.reached \subseteq {touched.tenant}
       \/ bypassed /\ (touched.op = "upsert" \/ touched.model \notin TENANT_SCOPED_MODELS)
    /\ touched.by # Nobody => <<touched.tenant, touched.by>> \in Pairs

\* "Setting deletedAt stops the storefront resolving" (platform.repository.ts): a
\* suspended restaurant serves no diner.
SuspendedIsOffline ==
    touched.tenant # Nobody /\ touched.by = Nobody => touched.was # "suspended"
=============================================================================

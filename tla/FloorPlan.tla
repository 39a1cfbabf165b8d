------------------------------- MODULE FloorPlan -------------------------------
(***************************************************************************)
(* Locations and tables under the limits of the plan:                      *)
(* dashboard/[tenantSlug]/tables, modules/tables, modules/locations and    *)
(* createLocationAction of dashboard/[tenantSlug]/menu/actions.ts.         *)
(*                                                                         *)
(* An action reads the restaurant's row (requireDashboardTenant), counts   *)
(* what exists (assertCanCreate) and creates, one row per transaction.     *)
(* Other actions come in between, and so do the writes to the plan that    *)
(* Billing has. The restaurant's first location is the only one tables are *)
(* made for; zones, seats and the codes themselves are left out.           *)
(* A definition marked "mutant" is a wrong variant of the next one.        *)
(***************************************************************************)
EXTENDS Plans, FiniteSets

CONSTANTS
    Maker,          \* pages with a form, which is submitted once a page
    MaxPages,       \* bound: pages opened
    Settled,        \* how many tables a restaurant may start with, with a location
    Label,          \* labels of tables, the numbers of a range
    TableRange,          \* ranges asked for, pairs of a first and a last label
    TypedLabel,          \* labels typed into the form for one table
    Subscribed,     \* what the row's plan and status may become, pairs
    MaxFloorEvents  \* bound: failures, deletions and changes of the plan

ASSUME LabelType == Label \subseteq Nat /\ TypedLabel \subseteq Label
ASSUME TableRangeType == TableRange \subseteq Label \X Label
ASSUME SubscribedType ==
    Subscribed \subseteq PLAN_IDS \X {"TRIALING", "ACTIVE", "CANCELED", "PAST_DUE"}
\* A restaurant starts within its plan.
ASSUME SettledFits ==
    /\ IsFiniteSet(Label) /\ Settled \subseteq Nat
    /\ \A n \in Settled \cup {0} : Cardinality({l \in Label : l <= n}) <= PLANS["FREE"].tables
ASSUME FloorBounds == {MaxPages, MaxFloorEvents} \subseteq Nat

VARIABLES
    plan,       \* tenants: plan and status
    table,      \* every label: "none", "live" or "deleted" (its row stays)
    locations,  \* live locations
    maker,      \* every page, and what its submission is doing
    pages,      \* pages opened so far
    floorEvents,
    excuse      \* for the properties: why a limit may be exceeded

floorVars == <<plan, table, locations, maker, pages, floorEvents, excuse>>

FirstForms == {"menuLocation", "tablesLocation"}
Form == FirstForms \cup {"table", "range"}
Blank == [at |-> "unused", form |-> "table", offers |-> {}, plan |-> "FREE",
          status |-> "TRIALING", from |-> 0, to |-> 0]

FloorInit ==
    /\ plan = [plan |-> "FREE", status |-> "TRIALING"]
    /\ \E n \in Settled \cup {0} :
         /\ table = [l \in Label |-> IF l <= n THEN "live" ELSE "none"]
         /\ locations = IF n = 0 THEN 0 ELSE 1
    /\ pages = 0
    /\ maker = [m \in Maker |-> Blank]
    /\ floorEvents = 0
    /\ excuse = {}

LiveTables == {l \in Label : table[l] = "live"}

\* The tables page and the menu page: a first location, then a run of tables,
\* then one table at a time.
FormsShown ==
    CASE locations = 0 -> FirstForms
      [] locations > 0 /\ LiveTables = {} -> {"range"}
      [] OTHER -> {"table"}

OpenTableForm(m) ==
    /\ maker[m] = Blank /\ pages < MaxPages
    /\ pages' = pages + 1
    /\ maker' = [maker EXCEPT ![m].at = "page", ![m].offers = FormsShown]
    /\ UNCHANGED <<plan, table, locations, floorEvents, excuse>>

\* requireDashboardTenant reads the row, whatever the form asks for.
Asked(form) ==
    CASE form = "range" -> TableRange
      [] form = "table" -> {<<l, l>> : l \in TypedLabel}
      [] OTHER -> {<<0, 0>>}

SubmitTableForm(m) ==
    /\ maker[m].at = "page"
    /\ \E form \in maker[m].offers : \E r \in Asked(form) :
         maker' = [maker EXCEPT ![m] =
              [Blank EXCEPT !.at = IF form = "tablesLocation" THEN "create" ELSE "count",
                            !.form = form, !.plan = plan.plan, !.status = plan.status,
                            !.from = r[1], !.to = r[2]]]
    /\ UNCHANGED <<plan, table, locations, floorEvents, excuse, pages>>

MakesTables(m) == maker[m].form \in {"table", "range"}

\* max(0, to - from + 1) for a range, one for a table.
Adding(m) == IF maker[m].to < maker[m].from THEN 0 ELSE maker[m].to - maker[m].from + 1

\* assertCanCreate, with the plan as it was when the row was read. A location
\* made on the tables page does not get here.
Count(m) ==
    /\ maker[m].at = "count"
    /\ LET room == IF MakesTables(m)
                   THEN CanCreate(maker[m], "tables", Cardinality(LiveTables), Adding(m))
                   ELSE CanCreate(maker[m], "locations", locations, 1)
           others == {o \in Maker \ {m} : maker[o].at = "create" /\ MakesTables(o) = MakesTables(m)}
       IN /\ maker' = [maker EXCEPT ![m] = IF room THEN [@ EXCEPT !.at = "create"] ELSE Blank]
          /\ excuse' = IF room /\ others # {} THEN excuse \cup {"overlap"} ELSE excuse
    /\ UNCHANGED <<plan, table, locations, floorEvents, pages>>

CreateLocation(m) ==
    /\ maker[m].at = "create" /\ ~MakesTables(m)
    /\ locations' = locations + 1
    /\ maker' = [maker EXCEPT ![m] = Blank]
    /\ excuse' = IF /\ maker[m].form = "tablesLocation"
                    /\ locations # 0 \/ \E o \in Maker \ {m} : maker[o].at = "create" /\ ~MakesTables(o)
                 THEN excuse \cup {"unchecked"} ELSE excuse
    /\ UNCHANGED <<plan, table, floorEvents, pages>>

\* The next row of a table or a range. The label is unique in its location,
\* deleted rows included: a range skips one that is taken, a table fails. A range
\* that ends before it begins is refused by its schema.
CreateTableRow(m) ==
    /\ maker[m].at = "create" /\ MakesTables(m)
    /\ LET l == maker[m].from
           over == l >= maker[m].to
       IN /\ table' = IF Adding(m) = 0 \/ table[l] # "none" THEN table
                      ELSE [table EXCEPT ![l] = "live"]
          /\ maker' = [maker EXCEPT ![m] = IF over THEN Blank ELSE [@ EXCEPT !.from = l + 1]]
    /\ UNCHANGED <<plan, locations, floorEvents, excuse, pages>>

Happens == floorEvents < MaxFloorEvents /\ floorEvents' = floorEvents + 1

\* softDeleteTable.
DeleteTable(l) ==
    /\ Happens
    /\ table[l] = "live"
    /\ table' = [table EXCEPT ![l] = "deleted"]
    /\ UNCHANGED <<plan, locations, maker, excuse, pages>>

\* A row's transaction fails, or the server dies: the rows before it stay.
MakerFails(m) ==
    /\ Happens
    /\ maker[m].at \in {"count", "create"}
    /\ maker' = [maker EXCEPT ![m] = Blank]
    /\ UNCHANGED <<plan, table, locations, excuse, pages>>

\* A subscription's event or the operator, as in Billing.
PlanChanges ==
    /\ Happens
    /\ \E s \in Subscribed : plan' = [plan |-> s[1], status |-> s[2]]
    /\ excuse' = IF effectivePlan(plan') = effectivePlan(plan) THEN excuse
                 ELSE excuse \cup {"planChanged"}
    /\ UNCHANGED <<table, locations, maker, pages>>

FloorNext ==
    \/ \E m \in Maker : \/ OpenTableForm(m) \/ SubmitTableForm(m) \/ Count(m) \/ CreateLocation(m)
                        \/ CreateTableRow(m) \/ MakerFails(m)
    \/ \E l \in Label : DeleteTable(l)
    \/ PlanChanges

-----------------------------------------------------------------------------
FloorTypeOK ==
    /\ plan \in [plan : PLAN_IDS, status : {"TRIALING", "ACTIVE", "CANCELED", "PAST_DUE"}]
    /\ table \in [Label -> {"none", "live", "deleted"}] /\ locations \in Nat
    /\ \A m \in Maker : maker[m].form \in Form /\ maker[m].plan \in PLAN_IDS

Within(limit, count) == LET l == limitFor(plan, limit) IN l = Unlimited \/ count <= l

\* A restaurant has no more tables and locations than its plan grants ("a hidden
\* button is not a permission check", tables/actions.ts), whatever was deleted and
\* failed in between, unless two creations overlapped between assertCanCreate's
\* count and their rows, the plan changed, or a location was made on the tables
\* page, which does not count them.
WithinPlan ==
    /\ excuse \cap {"overlap", "planChanged"} = {} => Within("tables", Cardinality(LiveTables))
    /\ excuse = {} => Within("locations", locations)
=============================================================================

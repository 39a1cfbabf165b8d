------------------------------ MODULE Application ------------------------------
(***************************************************************************)
(* The parts of the application that share nothing but the database, side  *)
(* by side: `part` is the one that takes steps, and the others stay as     *)
(* they were at first. Orders, payments, boards and billing have modules   *)
(* and specifications of their own.                                        *)
(***************************************************************************)
EXTENDS Checkout, MenuBrowsing, DinerTracking, FloorPlan, PhotoLibrary, PlatformSettings,
        TenantAccess

VARIABLE part

applicationVars == <<part, checkoutVars, browsingVars, trackingVars, floorVars, mediaVars,
                     settingsVars, accessVars>>

Part == {"checkout", "browsing", "tracking", "floor", "media", "settings", "access"}

\* Where a part that takes no steps can begin in several states, it is in one.
Idly(active) ==
    /\ active # "checkout" => storable
    /\ active # "tracking" => status = "COMPLETED"
    /\ active # "floor" => locations = 0
    /\ active # "access" => bypassed
    /\ active # "browsing" =>
         /\ \A d \in MenuDish : /\ category[d] = CHOOSE c \in Category : TRUE
                                /\ tags[d] = {} /\ available[d]
         /\ fallback = (CHOOSE l \in Locale : TRUE) /\ offered = {fallback}
         /\ browser = fallback /\ favourites = {} /\ chosen = NoText

ApplicationInit ==
    /\ part \in Part
    /\ CheckoutInit /\ TrackingInit /\ FloorInit /\ MediaInit /\ SettingsInit /\ AccessInit
    /\ BrowsingInit
    /\ Idly(part)

Alone(name, others) == part = name /\ UNCHANGED <<part, others>>

ApplicationNext ==
    \/ /\ Alone("checkout", <<browsingVars, trackingVars, floorVars, mediaVars, settingsVars, accessVars>>)
       /\ CheckoutNext
    \/ /\ Alone("browsing", <<checkoutVars, trackingVars, floorVars, mediaVars, settingsVars, accessVars>>)
       /\ BrowsingNext
    \/ /\ Alone("tracking", <<checkoutVars, browsingVars, floorVars, mediaVars, settingsVars, accessVars>>)
       /\ TrackingNext
    \/ /\ Alone("floor", <<checkoutVars, browsingVars, trackingVars, mediaVars, settingsVars, accessVars>>)
       /\ FloorNext
    \/ /\ Alone("media", <<checkoutVars, browsingVars, trackingVars, floorVars, settingsVars, accessVars>>)
       /\ MediaNext
    \/ /\ Alone("settings", <<checkoutVars, browsingVars, trackingVars, floorVars, mediaVars, accessVars>>)
       /\ SettingsNext
    \/ /\ Alone("access", <<checkoutVars, browsingVars, trackingVars, floorVars, mediaVars, settingsVars>>)
       /\ AccessNext

\* A diner's page as in its module (a finished order's page asks for nothing). A
\* minute passes, some page of every server is visited, and its query ends.
ApplicationFairness ==
    /\ TrackingFairness
    /\ \A i \in Instance : /\ WF_settingsVars(part = "settings" /\ Expire(i))
                           /\ WF_settingsVars(part = "settings" /\ LoadForPage(i))
                           /\ WF_settingsVars(part = "settings" /\ LoadDone(i))

ApplicationSpec ==
    ApplicationInit /\ [][ApplicationNext]_applicationVars /\ ApplicationFairness

\* Every variable of every part has its type.
ApplicationTypeOK ==
    /\ part \in Part
    /\ CheckoutTypeOK /\ BrowsingTypeOK /\ TrackingTypeOK /\ FloorTypeOK /\ MediaTypeOK
    /\ SettingsTypeOK /\ AccessTypeOK
=============================================================================

--------------------------- MODULE ApplicationProofs ---------------------------
(***************************************************************************)
(* What the parts of the application promise, for any number of tabs,      *)
(* dishes, tables, servers, photos and people. Every step of the           *)
(* application is a step of one part, so each part is proved by itself.    *)
(***************************************************************************)
EXTENDS Application, TenantAccessProofs, PhotoLibraryProofs, SequenceTheorems, FiniteSetTheorems

LEMMA StepsOfParts ==
    ASSUME [ApplicationNext]_applicationVars
    PROVE  /\ [CheckoutNext]_checkoutVars /\ [BrowsingNext]_browsingVars
           /\ [FloorNext]_floorVars /\ [MediaNext]_mediaVars
           /\ [SettingsNext]_settingsVars /\ [AccessNext]_accessVars
           /\ [TrackingNext]_trackingVars
BY DEF ApplicationNext, Alone, applicationVars

LEMMA StartsOfParts ==
    ApplicationInit => /\ CheckoutInit /\ BrowsingInit /\ FloorInit /\ MediaInit
                       /\ SettingsInit /\ AccessInit /\ TrackingInit
BY DEF ApplicationInit

-------------------------------------------------------------------------------
(* Browsing                                                                   *)

\* A filter is one of a category that is on the page, and of a dish in it.
FilterHasDish ==
    activeFilter # All =>
        /\ activeCategory \notin {Popular, Favourites}
        /\ \E d \in OnPage : category[d] = activeCategory /\ activeFilter \in tags[d]

BrowsingInv == category \in [MenuDish -> Category] /\ FilterHasDish

LEMMA NeverBlank == BrowsingInv => ScreenIsNeverBlank
<1> SUFFICES ASSUME BrowsingInv, OnPage # {} PROVE FilteredItems # {}
  BY DEF ScreenIsNeverBlank
<1> USE DEF BrowsingInv
<1>1. CASE activeFilter = All
  <2>1. CurrentCategory \in NavCategories
    BY DEF CurrentCategory, NavCategories
  <2>2. ItemsOf(CurrentCategory) # {}
    <3>1. CASE CurrentCategory = Popular
      <4>1. ItemsOf(Popular) = OnPage
        BY DEF ItemsOf, Popular, Favourites
      <4>2. QED
        BY <3>1, <4>1
    <3>2. CASE CurrentCategory = Favourites
      <4>1. Favourites \notin CategoriesOnPage \cup {Popular}
        BY TabNames DEF CategoriesOnPage, OnPage, Popular, Favourites
      <4>2. OnPage \cap favourites # {}
        BY <2>1, <3>2, <4>1 DEF NavCategories
      <4>3. ItemsOf(Favourites) = OnPage \cap favourites
        BY DEF ItemsOf, Popular, Favourites
      <4>4. QED
        BY <3>2, <4>2, <4>3
    <3>3. CASE CurrentCategory \notin {Popular, Favourites}
      <4>1. CurrentCategory \in CategoriesOnPage
        BY <2>1, <3>3 DEF NavCategories
      <4>2. QED
        BY <3>3, <4>1 DEF ItemsOf, CategoriesOnPage
    <3>4. QED
      BY <3>1, <3>2, <3>3
  <2>3. QED
    BY <1>1, <2>2 DEF FilteredItems
<1>2. CASE activeFilter # All
  <2>1. PICK d \in OnPage : category[d] = activeCategory /\ activeFilter \in tags[d]
    BY <1>2 DEF FilterHasDish
  <2>2. CurrentCategory = activeCategory
    BY <2>1 DEF CurrentCategory, NavCategories, CategoriesOnPage
  <2>3. d \in ItemsOf(CurrentCategory)
    BY <1>2, <2>1, <2>2 DEF FilterHasDish, ItemsOf
  <2>4. QED
    BY <2>1, <2>3 DEF FilteredItems
<1>3. QED
  BY <1>1, <1>2

LEMMA BrowsingStep == BrowsingInv /\ [BrowsingNext]_browsingVars => BrowsingInv'
<1> SUFFICES ASSUME BrowsingInv, [BrowsingNext]_browsingVars PROVE FilterHasDish' /\ category' = category
  BY DEF BrowsingInv
<1> USE DEF BrowsingInv
<1>1. CASE ChooseCategory
  BY <1>1 DEF ChooseCategory, CategoryChange, FilterHasDish, pageVars
<1>2. CASE ChooseFilter
  <2>1. activeFilter' \in CategoryTags
    BY <1>2 DEF ChooseFilter
  <2>2. CurrentCategory \notin {Popular, Favourites} /\ CurrentCategory = activeCategory
    BY <2>1 DEF CategoryTags, CurrentCategory
  <2>3. activeFilter' # All => \E d \in ItemsOf(CurrentCategory) : activeFilter' \in tags[d]
    BY <2>1 DEF CategoryTags
  <2>4. activeFilter' # All =>
            \E d \in OnPage : category[d] = activeCategory /\ activeFilter' \in tags[d]
    BY <2>2, <2>3 DEF ItemsOf
  <2>5. UNCHANGED <<pageVars, activeCategory>>
    BY <1>2 DEF ChooseFilter
  <2>6. QED
    BY <2>2, <2>4, <2>5 DEF pageVars, FilterHasDish, OnPage
<1>3. CASE ToggleFavourite \/ SetLocale
  BY <1>3 DEF ToggleFavourite, SetLocale, pageVars, FilterHasDish, OnPage
<1>4. CASE ReloadMenu
  BY <1>4 DEF ReloadMenu, FilterHasDish
<1>5. CASE UNCHANGED browsingVars
  BY <1>5 DEF browsingVars, FilterHasDish, OnPage
<1>6. QED
  BY <1>1, <1>2, <1>3, <1>4, <1>5 DEF BrowsingNext

StoredText == [word : Locale \cup {"none"}, quoted : BOOLEAN]

\* What a page shows and remembers.
BrowsingTyped ==
    /\ category \in [MenuDish -> Category] /\ tags \in [MenuDish -> SUBSET Tag]
    /\ offered \subseteq Locale /\ fallback \in offered
    /\ favourites \subseteq MenuDish /\ chosen \in StoredText
    /\ activeCategory \in {Popular, Favourites} \cup Category
    /\ activeFilter \in {All} \cup Tag

LEMMA BrowsingTypes ==
    /\ BrowsingInit => BrowsingTyped
    /\ BrowsingTyped /\ [BrowsingNext]_browsingVars => BrowsingTyped'
    /\ BrowsingTyped => BrowsingTypeOK
<1>0. NoText \in StoredText /\ \A l \in Locale : JSONText(l) \in StoredText
  BY DEF NoText, JSONText, StoredText
<1>1. BrowsingInit => BrowsingTyped
  BY <1>0 DEF BrowsingInit, BrowsingTyped
<1>2. ASSUME BrowsingTyped, [BrowsingNext]_browsingVars PROVE BrowsingTyped'
  <2> USE <1>2 DEF BrowsingTyped
  <2>1. CASE ChooseCategory
    <3>1. NavCategories \subseteq {Popular, Favourites} \cup Category
      BY DEF NavCategories, CategoriesOnPage, OnPage
    <3>2. QED
      BY <2>1, <3>1 DEF ChooseCategory, CategoryChange, pageVars
  <2>2. CASE ChooseFilter
    <3>1. UNION {tags[d] : d \in ItemsOf(CurrentCategory)} \subseteq Tag
      BY DEF ItemsOf, OnPage
    <3>2. CategoryTags \subseteq {All} \cup Tag
      BY <3>1 DEF CategoryTags
    <3>3. QED
      BY <2>2, <3>2 DEF ChooseFilter, pageVars
  <2>3. CASE ToggleFavourite \/ SetLocale \/ ReloadMenu
    <3>1. SetLocale => chosen' \in StoredText
      BY <1>0 DEF SetLocale
    <3>2. QED
      BY <2>3, <3>1 DEF ToggleFavourite, SetLocale, ReloadMenu, pageVars
  <2>4. CASE UNCHANGED browsingVars
    BY <2>4 DEF browsingVars
  <2>5. QED
    BY <1>2, <2>1, <2>2, <2>3, <2>4 DEF BrowsingNext
<1>3. BrowsingTyped => BrowsingTypeOK
  BY DEF BrowsingTyped, BrowsingTypeOK, StoredText, locale
<1>4. QED
  BY <1>1, <1>2, <1>3

-------------------------------------------------------------------------------
(* Tracking: what a request is answered with is a status, and a page that has   *)
(* stopped following has no request under way.                                *)

LEMMA TrackingTypes ==
    /\ TrackingInit => TrackingTypeOK
    /\ TrackingTypeOK /\ [TrackingNext]_trackingVars => TrackingTypeOK'
<1> DEFINE PollType == [Poll -> {"none", "sent"} \cup TrackStatus]
<1>1. NoPolls \in PollType
  BY DEF NoPolls
<1>2. ASSUME TrackingInit PROVE TrackingTypeOK
  <2>1. status \in TrackStatus /\ shown = status /\ visible = TRUE /\ timer = (status \in OPEN) /\ poll = NoPolls
    BY <1>2 DEF TrackingInit
  <2>2. timer \in BOOLEAN
    <3>1. CASE status \in OPEN
      BY <2>1, <3>1
    <3>2. CASE status \notin OPEN
      BY <2>1, <3>2
    <3>3. QED
      BY <3>1, <3>2
  <2>3. Following \/ ~timer
    BY <2>1 DEF Following
  <2>4. QED
    BY <1>1, <2>1, <2>2, <2>3 DEF TrackingTypeOK
<1>3. ASSUME TrackingTypeOK, [TrackingNext]_trackingVars PROVE TrackingTypeOK'
  <2>1. status \in TrackStatus /\ shown \in TrackStatus /\ poll \in PollType
    BY <1>3 DEF TrackingTypeOK
  <2>2. visible \in BOOLEAN /\ timer \in BOOLEAN
    BY <1>3 DEF TrackingTypeOK
  <2>3. shown \notin OPEN => ~timer /\ poll = NoPolls
    BY <1>3 DEF TrackingTypeOK, Following
  <2> DEFINE Data == status' \in TrackStatus /\ shown' \in TrackStatus /\ poll' \in PollType
             Flags == visible' \in BOOLEAN /\ timer' \in BOOLEAN
             Quiet == shown' \notin OPEN => ~timer' /\ poll' = NoPolls
  <2> SUFFICES Data /\ Flags /\ Quiet
    BY DEF TrackingTypeOK, Following, NoPolls
  <2> HIDE DEF PollType
  <2>4. CASE Move \/ HidePage \/ UNCHANGED trackingVars
    <3>1. Data
      BY <2>1, <2>4 DEF Move, HidePage, trackingVars
    <3>2. Flags
      BY <2>2, <2>4 DEF Move, HidePage, trackingVars
    <3>3. Quiet
      BY <2>3, <2>4 DEF Move, HidePage, trackingVars
    <3>4. QED
      BY <3>1, <3>2, <3>3
  <2>5. CASE Tick \/ ShowPage
    <3>1. \A p \in Poll : [poll EXCEPT ![p] = "sent"] \in PollType
      BY <2>1 DEF PollType
    <3>2. Ticking \in Poll /\ Asking \subseteq Poll
      BY DEF Poll
    <3>3. Data
      BY <2>1, <2>5, <3>1, <3>2 DEF Tick, ShowPage
    <3>4. Flags
      BY <2>2, <2>5 DEF Tick, ShowPage, WaitsForAnswer
    <3>5. Quiet
      BY <2>3, <2>5 DEF Tick, ShowPage, Following
    <3>6. QED
      BY <3>3, <3>4, <3>5
  <2>6. ASSUME NEW p \in Poll, ServerReads(p) \/ Answer(p) \/ Lose(p) PROVE Data /\ Flags /\ Quiet
    <3>1. poll[p] # "none"
      BY <2>6 DEF ServerReads, Answer, Lose, TrackStatus, OPEN
    <3>2. shown \in OPEN
      BY <2>3, <3>1 DEF NoPolls
    <3>3. [poll EXCEPT ![p] = status] \in PollType /\ [poll EXCEPT ![p] = "none"] \in PollType
      BY <2>1 DEF PollType
    <3>4. Data
      BY <1>1, <2>1, <2>6, <3>3 DEF ServerReads, Answer, Lose, Cancelled
    <3>5. timer' = timer \/ timer' = (timer \/ p = Ticking) \/ timer' = (shown' \in OPEN)
      BY <2>6 DEF ServerReads, Answer, Lose, Rescheduled
    <3>6. Flags
      <4>1. visible' = visible
        BY <2>6 DEF ServerReads, Answer, Lose
      <4>2. CASE timer' = timer \/ timer' = (timer \/ p = Ticking)
        BY <2>2, <4>1, <4>2
      <4>3. CASE timer' = (shown' \in OPEN)
        <5>1. CASE shown' \in OPEN
          BY <2>2, <4>1, <4>3, <5>1
        <5>2. CASE shown' \notin OPEN
          BY <2>2, <4>1, <4>3, <5>2
        <5>3. QED
          BY <5>1, <5>2
      <4>4. QED
        BY <3>5, <4>2, <4>3
    <3>7. Quiet
      <4>1. CASE shown' = shown
        BY <3>2, <4>1
      <4>2. CASE shown' # shown
        BY <2>6, <4>2 DEF ServerReads, Answer, Lose, Cancelled
      <4>3. QED
        BY <4>1, <4>2
    <3>8. QED
      BY <3>4, <3>6, <3>7
  <2>7. QED
    BY <1>3, <2>4, <2>5, <2>6 DEF TrackingNext
<1>4. QED
  BY <1>2, <1>3

LEMMA AskingKept ==
    /\ TrackingInit => KeepsAsking
    /\ TrackingTypeOK /\ KeepsAsking /\ [TrackingNext]_trackingVars => KeepsAsking'
<1>1. ASSUME TrackingInit PROVE KeepsAsking
  BY <1>1 DEF TrackingInit, KeepsAsking, SaysItUpdates
<1>2. ASSUME TrackingTypeOK, KeepsAsking, [TrackingNext]_trackingVars PROVE KeepsAsking'
  <2>1. poll \in [Poll -> {"none", "sent"} \cup TrackStatus] /\ Ticking \in Poll
    BY <1>2 DEF TrackingTypeOK, Poll
  <2>2. status \in TrackStatus /\ status # "none"
    BY <1>2 DEF TrackingTypeOK, TrackStatus, OPEN
  <2>3. timer \in BOOLEAN /\ visible \in BOOLEAN
    BY <1>2 DEF TrackingTypeOK
  <2> SUFFICES ASSUME shown' \in OPEN, poll'[Ticking] = "none" PROVE timer'
    BY DEF KeepsAsking, SaysItUpdates
  <2>4. shown \in OPEN /\ poll[Ticking] = "none" => timer
    BY <1>2 DEF KeepsAsking, SaysItUpdates
  <2>5. CASE Move \/ HidePage \/ UNCHANGED trackingVars
    BY <2>4, <2>5 DEF Move, HidePage, trackingVars
  <2>6. CASE Tick
    <3>1. visible => poll' = [poll EXCEPT ![Ticking] = "sent"]
      BY <2>6 DEF Tick
    <3>2. ~visible
      BY <2>1, <3>1
    <3>3. QED
      BY <2>6, <3>2 DEF Tick, WaitsForAnswer
  <2>7. CASE ShowPage
    <3>1. poll[Ticking] = "none"
      BY <2>1, <2>7 DEF ShowPage, Poll
    <3>2. QED
      BY <2>4, <2>7, <3>1 DEF ShowPage
  <2>8. ASSUME NEW p \in Poll, ServerReads(p) PROVE timer'
    <3>1. poll[Ticking] = "none"
      BY <2>1, <2>2, <2>8 DEF ServerReads
    <3>2. QED
      BY <2>4, <2>8, <3>1 DEF ServerReads
  <2>9. ASSUME NEW p \in Poll, Answer(p) \/ Lose(p) PROVE timer'
    <3>1. CASE shown' # shown
      BY <2>9, <3>1 DEF Answer, Lose
    <3>2. CASE shown' = shown
      <4>1. poll' = [poll EXCEPT ![p] = "none"] /\ timer' = (timer \/ p = Ticking)
        BY <2>9, <3>2 DEF Answer, Lose, Rescheduled
      <4>2. p = Ticking \/ poll[Ticking] = "none"
        BY <2>1, <4>1
      <4>3. timer \/ p = Ticking
        BY <2>4, <3>2, <4>2
      <4>4. QED
        BY <4>1, <4>3
    <3>3. QED
      BY <3>1, <3>2
  <2>10. QED
    BY <1>2, <2>5, <2>6, <2>7, <2>8, <2>9 DEF TrackingNext
<1>3. QED
  BY <1>1, <1>2

\* A page that says it updates never stops asking, for any polls, moves and losses
\* (useLiveOrderStatus, live-status.ts): what TrackerCatchesUp needs of every state.
THEOREM TrackerKeepsAsking == ApplicationSpec => []KeepsAsking
<1>1. ApplicationInit => TrackingTypeOK /\ KeepsAsking
  BY StartsOfParts, TrackingTypes, AskingKept
<1>2. TrackingTypeOK /\ KeepsAsking /\ [ApplicationNext]_applicationVars
          => TrackingTypeOK' /\ KeepsAsking'
  BY StepsOfParts, TrackingTypes, AskingKept
<1>3. QED
  BY <1>1, <1>2, PTL DEF ApplicationSpec

-------------------------------------------------------------------------------
(* Settings                                                                   *)

SettingValue == TypedValue \cup {Keep, Mask, Unreadable}

FormState ==
    [at : {"none", "page", "writing", "failed", "loading"}, on : Instance \cup {NoForm.on},
     edited : SUBSET Setting, blank : SUBSET Secret, values : [Setting -> SettingValue],
     rows : {NoLoad} \cup [Setting -> SettingValue]]

ServerState ==
    [snapshot : [Setting -> SettingValue], age : {"never", "fresh", "old"},
     load : {NoLoad} \cup [Setting -> SettingValue]]

SettingsTyped ==
    /\ stored \in [Setting -> SettingValue]
    /\ server \in [Instance -> ServerState]
    /\ form \in [Operator -> FormState]

\* A form has its secrets masked or blank, and what it writes of one was typed into
\* it, or is nothing where the page was blank. A form that loads has rows.
Unedited(new, s, mark) == new.values[s] = mark \/ (new.values[s] = Absent /\ s \in new.blank)

FormOK(o) ==
    /\ form[o].at = "loading" => form[o].rows \in [Setting -> SettingValue]
    /\ \A s \in Secret :
        /\ form[o].at = "page" => Unedited(form[o], s, Mask)
        /\ form[o].at \in {"writing", "failed"} => Unedited(form[o], s, Keep) \/ s \in form[o].edited

SettingsInv == SettingsTyped /\ \A o \in Operator : FormOK(o)

LEMMA SettingsShapes ==
    /\ NoForm \in FormState /\ NoForm.at = "none" /\ NoForm.edited = {}
    /\ NothingLoaded \in [Setting -> SettingValue]
    /\ \A rows \in [Setting -> SettingValue] : Booted(rows) \in ServerState
    /\ \A value \in SettingValue : Decrypted(value) \in SettingValue
BY DEF NoForm, FormState, NothingLoaded, Booted, ServerState, SettingValue, TypedValue, Decrypted

LEMMA SettingsInitInv == SettingsInit => SettingsInv
<1> SUFFICES ASSUME SettingsInit PROVE SettingsInv
  OBVIOUS
<1>1. QED
  BY SettingsShapes DEF SettingsInit, SettingsInv, SettingsTyped, FormOK

\* Steps of the servers leave the forms alone, or lose them.
LEMMA ServersKeepForms ==
    ASSUME SettingsInv, stored' \in [Setting -> SettingValue], server' \in [Instance -> ServerState],
           form' \in [Operator -> FormState],
           \A o \in Operator : form'[o] = form[o] \/ form'[o].at = "none"
    PROVE  SettingsInv'
BY DEF SettingsInv, SettingsTyped, FormOK

\* One form takes a step.
LEMMA FormStepKeeps ==
    ASSUME SettingsInv, stored' \in [Setting -> SettingValue], UNCHANGED server,
           NEW o \in Operator, NEW new \in FormState, form' = [form EXCEPT ![o] = new],
           new.at = "loading" => new.rows \in [Setting -> SettingValue],
           \A s \in Secret :
               /\ new.at = "page" => Unedited(new, s, Mask)
               /\ new.at \in {"writing", "failed"} => Unedited(new, s, Keep) \/ s \in new.edited
    PROVE  SettingsInv'
BY DEF SettingsInv, SettingsTyped, FormOK

LEMMA SettingsStep == SettingsInv /\ [SettingsNext]_settingsVars => SettingsInv'
<1> SUFFICES ASSUME SettingsInv, [SettingsNext]_settingsVars PROVE SettingsInv'
  OBVIOUS
<1>1. /\ stored \in [Setting -> SettingValue] /\ server \in [Instance -> ServerState]
      /\ form \in [Operator -> FormState] /\ \A o \in Operator : form[o] \in FormState /\ FormOK(o)
  BY DEF SettingsInv, SettingsTyped
<1>2. Readable \in [Setting -> SettingValue]
  BY <1>1, SettingsShapes DEF Readable
<1>3. CASE UNCHANGED settingsVars
  BY <1>3 DEF settingsVars, SettingsInv, SettingsTyped, FormOK
<1>4. CASE \E i \in Instance : Expire(i) \/ LoadForPage(i) \/ LoadDone(i) \/ LoadFails(i)
  <2>1. PICK i \in Instance : Expire(i) \/ LoadForPage(i) \/ LoadDone(i) \/ LoadFails(i)
    BY <1>4
  <2>2. server[i] \in ServerState
    BY <1>1
  <2>3. [server[i] EXCEPT !.age = "old"] \in ServerState
    BY <2>2 DEF ServerState
  <2>4. [server[i] EXCEPT !.load = Readable] \in ServerState /\ [server[i] EXCEPT !.load = NoLoad] \in ServerState
    BY <1>2, <2>2 DEF ServerState
  <2>5. server[i].load # NoLoad => Booted(server[i].load) \in ServerState
    BY <2>2, SettingsShapes DEF ServerState
  <2>6. server' \in [Instance -> ServerState] /\ UNCHANGED <<stored, form>>
    BY <1>1, <2>1, <2>3, <2>4, <2>5 DEF Expire, LoadForPage, LoadDone, LoadFails
  <2>7. QED
    BY <1>1, <2>6, ServersKeepForms
<1>5. CASE \E i \in Instance : Restart(i)
  <2>1. PICK i \in Instance : Restart(i)
    BY <1>5
  <2>2. [Booted(NothingLoaded) EXCEPT !.age = "never"] \in ServerState
    BY SettingsShapes DEF ServerState
  <2>3. server' \in [Instance -> ServerState]
    BY <1>1, <1>2, <2>1, <2>2, SettingsShapes DEF Restart, Restarted
  <2>4. form' \in [Operator -> FormState] /\ \A o \in Operator : form'[o].at = "none" \/ form'[o] = form[o]
    BY <1>1, <2>1, SettingsShapes DEF Restart
  <2>5. UNCHANGED stored
    BY <2>1 DEF Restart
  <2>6. QED
    BY <1>1, <2>3, <2>4, <2>5, ServersKeepForms
<1>6. CASE RotateAuthSecret
  <2>1. stored' \in [Setting -> SettingValue]
    BY <1>1, <1>6 DEF RotateAuthSecret, SettingValue
  <2>2. [s \in Setting |-> Decrypted(stored'[s])] \in [Setting -> SettingValue]
    BY <2>1, SettingsShapes
  <2>3. server' \in [Instance -> ServerState]
    BY <1>6, <2>2, SettingsShapes DEF RotateAuthSecret
  <2>4. form' \in [Operator -> FormState] /\ \A o \in Operator : form'[o].at = "none"
    BY <1>6, SettingsShapes DEF RotateAuthSecret
  <2>5. QED
    BY <2>1, <2>3, <2>4, ServersKeepForms
<1>7. CASE \E o \in Operator, i \in Instance : OpenSettings(o, i)
  <2>1. PICK o \in Operator, i \in Instance : OpenSettings(o, i)
    BY <1>7
  <2> DEFINE new == [NoForm EXCEPT !.at = "page", !.on = i, !.blank = BlankSecrets(i), !.values = Shown(i)]
  <2>2. form' = [form EXCEPT ![o] = new] /\ UNCHANGED <<stored, server>>
    BY <2>1 DEF OpenSettings
  <2>3. Shown(i) \in [Setting -> SettingValue]
    <3>1. \A s \in Setting : server[i].snapshot[s] \in SettingValue /\ Environment[s] \in SettingValue
      BY <1>1, EnvironmentType DEF ServerState, SettingValue
    <3>2. \A s \in Setting : getSetting(i, s) \in SettingValue
      BY <3>1 DEF getSetting
    <3>3. \A s \in Setting : Masked(getSetting(i, s)) \in SettingValue
      BY DEF Masked, SettingValue, TypedValue
    <3>4. QED
      BY <3>2, <3>3 DEF Shown
  <2>4. new \in FormState /\ new.at = "page" /\ new.values = Shown(i) /\ new.blank = BlankSecrets(i)
    BY <2>3, SettingsShapes DEF FormState, BlankSecrets
  <2>5. \A s \in Secret : Shown(i)[s] = Mask \/ (Shown(i)[s] = Absent /\ s \in BlankSecrets(i))
    BY DEF Shown, Masked, Setting, BlankSecrets
  <2> HIDE DEF new
  <2>6. QED
    BY <1>1, <2>2, <2>4, <2>5, FormStepKeeps DEF Unedited
<1>8. CASE \E o \in Operator : SubmitForm(o)
  <2>1. PICK o \in Operator : SubmitForm(o)
    BY <1>8
  <2>2. PICK s \in Setting, v \in TypedValue \cup {Keep} :
            form' = [form EXCEPT ![o].at = "writing",
                                 ![o].edited = IF v = Keep THEN {} ELSE {s},
                                 ![o].values = WithoutMasks(IF v = Keep THEN @ ELSE [@ EXCEPT ![s] = v])]
    BY <2>1 DEF SubmitForm
  <2> DEFINE typed == IF v = Keep THEN form[o].values ELSE [form[o].values EXCEPT ![s] = v]
             edited == IF v = Keep THEN {} ELSE {s}
             new == [form[o] EXCEPT !.at = "writing", !.edited = edited, !.values = WithoutMasks(typed)]
  <2>3. form' = [form EXCEPT ![o] = new] /\ UNCHANGED <<stored, server>> /\ form[o].at = "page"
    BY <1>1, <2>1, <2>2 DEF SubmitForm
  <2>4. form[o].values \in [Setting -> SettingValue]
    BY <1>1 DEF FormState
  <2>5. typed \in [Setting -> SettingValue]
    BY <2>4 DEF SettingValue
  <2>6. \A q \in Secret : \/ typed[q] = Mask \/ (typed[q] = Absent /\ q \in form[o].blank)
                          \/ q \in edited
    BY <1>1, <2>3, <2>4 DEF FormOK, Unedited, Setting
  <2> HIDE DEF typed
  <2>7. /\ WithoutMasks(typed) \in [Setting -> SettingValue]
        /\ \A q \in Secret :
              \/ WithoutMasks(typed)[q] = Keep \/ (WithoutMasks(typed)[q] = Absent /\ q \in form[o].blank)
              \/ q \in edited
    BY <2>5, <2>6 DEF WithoutMasks, Setting, SettingValue
  <2>8. /\ new \in FormState /\ new.at = "writing" /\ new.edited = edited
        /\ new.values = WithoutMasks(typed) /\ new.blank = form[o].blank
    BY <1>1, <2>7 DEF FormState
  <2> HIDE DEF new, edited
  <2>9. QED
    BY <1>1, <2>3, <2>7, <2>8, FormStepKeeps DEF Unedited
<1>9. CASE \E o \in Operator : \E s \in Setting : WriteSetting(o, s) \/ WriteFails(o, s)
  <2>1. PICK o \in Operator, s \in Setting : WriteSetting(o, s) \/ WriteFails(o, s)
    BY <1>9
  <2>2. PICK at \in {"writing", "failed"} : form' = [form EXCEPT ![o] = [@ EXCEPT !.at = at, !.values[s] = Keep]]
    <3>1. form[o].at \in {"writing", "failed"} /\ form[o] = [form[o] EXCEPT !.at = form[o].at]
      BY <1>1, <2>1 DEF WriteSetting, WriteFails, FormState
    <3>2. CASE WriteSetting(o, s)
      <4>1. form' = [form EXCEPT ![o] = [@ EXCEPT !.at = form[o].at, !.values[s] = Keep]]
        BY <1>1, <3>1, <3>2 DEF WriteSetting, FormState
      <4>2. QED
        BY <3>1, <4>1
    <3>3. CASE WriteFails(o, s)
      BY <1>1, <3>3 DEF WriteFails
    <3>4. QED
      BY <2>1, <3>2, <3>3
  <2> DEFINE new == [form[o] EXCEPT !.at = at, !.values[s] = Keep]
  <2>3. form[o].values \in [Setting -> SettingValue] /\ form[o] \in FormState
    BY <1>1 DEF FormState
  <2>4. [form[o].values EXCEPT ![s] = Keep] \in [Setting -> SettingValue]
    BY <2>3 DEF SettingValue
  <2>5. /\ new \in FormState /\ new.at = at /\ new.edited = form[o].edited
        /\ new.values = [form[o].values EXCEPT ![s] = Keep] /\ new.blank = form[o].blank
    BY <2>3, <2>4 DEF FormState
  <2>6. form[o].at \in {"writing", "failed"} /\ UNCHANGED server
    BY <2>1 DEF WriteSetting, WriteFails
  <2>7. \A q \in Secret : Unedited(new, q, Keep) \/ q \in new.edited
    BY <1>1, <2>3, <2>5, <2>6 DEF FormOK, Unedited, Setting
  <2>8. stored' \in [Setting -> SettingValue]
    BY <1>1, <2>1, <2>3 DEF WriteSetting, WriteFails
  <2>9. form' = [form EXCEPT ![o] = new]
    BY <2>2
  <2> HIDE DEF new
  <2>10. QED
    BY <1>1, <2>5, <2>6, <2>7, <2>8, <2>9, FormStepKeeps
<1>10. CASE \E o \in Operator : SaveLoads(o)
  <2>1. PICK o \in Operator : SaveLoads(o)
    BY <1>10
  <2> DEFINE new == [form[o] EXCEPT !.at = "loading", !.rows = Readable]
  <2>2. new \in FormState /\ new.at = "loading" /\ new.rows = Readable
    BY <1>1, <1>2 DEF FormState
  <2>3. form' = [form EXCEPT ![o] = new] /\ UNCHANGED <<stored, server>>
    BY <1>1, <2>1 DEF SaveLoads
  <2> HIDE DEF new
  <2>4. QED
    BY <1>1, <1>2, <2>2, <2>3, FormStepKeeps
<1>11. CASE \E o \in Operator : SaveLoaded(o) \/ SaveOver(o)
  <2>1. PICK o \in Operator : SaveLoaded(o) \/ SaveOver(o)
    BY <1>11
  <2>2. form' \in [Operator -> FormState] /\ \A q \in Operator : form'[q] = form[q] \/ form'[q].at = "none"
    BY <1>1, <2>1, SettingsShapes DEF SaveLoaded, SaveOver
  <2>3. \A i \in Instance : form[o].at = "loading" =>
            [server[i] EXCEPT !.snapshot = form[o].rows, !.age = "fresh"] \in ServerState
    BY <1>1 DEF FormOK, ServerState
  <2>4. UNCHANGED stored /\ server' \in [Instance -> ServerState]
    <3>1. CASE UNCHANGED server
      BY <1>1, <2>1, <3>1 DEF SaveLoaded, SaveOver
    <3>2. CASE /\ form[o].at = "loading"
               /\ server' = [server EXCEPT ![form[o].on].snapshot = form[o].rows,
                                           ![form[o].on].age = "fresh"]
      <4> DEFINE i == form[o].on
                 new == [server[i] EXCEPT !.snapshot = form[o].rows, !.age = "fresh"]
      <4>1. server' = [server EXCEPT ![i] = new]
        BY <1>1, <3>2
      <4>2. i \in Instance => new \in ServerState
        BY <2>3, <3>2
      <4> HIDE DEF new
      <4>3. QED
        BY <1>1, <2>1, <4>1, <4>2 DEF SaveLoaded, SaveOver
    <3>3. QED
      BY <2>1, <3>1, <3>2 DEF SaveLoaded, SaveOver
  <2>5. QED
    BY <1>1, <2>2, <2>4, ServersKeepForms
<1>12. QED
  BY <1>3, <1>4, <1>5, <1>6, <1>7, <1>8, <1>9, <1>10, <1>11 DEF SettingsNext

LEMMA SettingsSafe ==
    SettingsInv /\ [SettingsNext]_settingsVars =>
        [\A s \in Secret : stored'[s] # stored[s] =>
             \/ stored'[s] = Unreadable
             \/ \E o \in Operator :
                  /\ form[o].values[s] = stored'[s]
                  /\ s \in form[o].edited \/ (s \in form[o].blank /\ stored'[s] = Absent)]_settingsVars
<1> SUFFICES ASSUME SettingsInv, SettingsNext, NEW s \in Secret, stored'[s] # stored[s]
             PROVE  \/ stored'[s] = Unreadable
                    \/ \E o \in Operator :
                         /\ form[o].values[s] = stored'[s]
                         /\ s \in form[o].edited \/ (s \in form[o].blank /\ stored'[s] = Absent)
  OBVIOUS
<1>1. stored \in [Setting -> SettingValue] /\ s \in Setting
  BY DEF SettingsInv, SettingsTyped, Setting
<1>2. CASE RotateAuthSecret
  BY <1>1, <1>2 DEF RotateAuthSecret
<1>3. CASE \E o \in Operator : \E q \in Setting : WriteSetting(o, q)
  <2>1. PICK o \in Operator, q \in Setting : WriteSetting(o, q)
    BY <1>3
  <2>2. q = s /\ stored'[s] = form[o].values[s] /\ form[o].values[s] # Keep
        /\ form[o].at \in {"writing", "failed"}
    BY <1>1, <2>1 DEF WriteSetting
  <2>3. FormOK(o)
    BY DEF SettingsInv
  <2>4. QED
    BY <2>2, <2>3 DEF FormOK, Unedited
<1>4. CASE UNCHANGED stored
  BY <1>4
<1>5. QED
  BY <1>2, <1>3, <1>4 DEF SettingsNext, Expire, LoadForPage, LoadDone, LoadFails, Restart,
      OpenSettings, SubmitForm, WriteFails, SaveLoads, SaveLoaded, SaveOver

\* Rows as a load reads them: none unreadable, and none a form's mark.
Loaded == [Setting -> TypedValue]

SettingsTold ==
    /\ stored \in [Setting -> TypedValue \cup {Unreadable}]
    /\ \A i \in Instance : /\ server[i].snapshot \in Loaded
                           /\ server[i].load # NoLoad => server[i].load \in Loaded
    /\ \A o \in Operator :
         /\ form[o].at = "page" => form[o].values \in [Setting -> TypedValue \cup {Mask}]
         /\ form[o].at \in {"writing", "failed"} => form[o].values \in [Setting -> TypedValue \cup {Keep}]
         /\ form[o].at = "loading" => form[o].rows \in Loaded

LEMMA SettingsToldStep ==
    ASSUME SettingsInv, SettingsTold, [SettingsNext]_settingsVars
    PROVE  SettingsTold'
<1> DEFINE ServerTold(new) == new.snapshot \in Loaded /\ (new.load # NoLoad => new.load \in Loaded)
           FormTold(new) == /\ new.at = "page" => new.values \in [Setting -> TypedValue \cup {Mask}]
                            /\ new.at \in {"writing", "failed"} => new.values \in [Setting -> TypedValue \cup {Keep}]
                            /\ new.at = "loading" => new.rows \in Loaded
           StoredTold == stored \in [Setting -> TypedValue \cup {Unreadable}]
<1>1. /\ server \in [Instance -> ServerState] /\ form \in [Operator -> FormState] /\ StoredTold
      /\ \A i \in Instance : server[i] \in ServerState /\ ServerTold(server[i])
      /\ \A o \in Operator : form[o] \in FormState /\ FormTold(form[o])
  BY DEF SettingsInv, SettingsTyped, SettingsTold
<1> SUFFICES /\ StoredTold' /\ \A i \in Instance : ServerTold(server'[i])
             /\ \A o \in Operator : FormTold(form'[o])
  BY DEF SettingsTold, Loaded
<1>2. Readable \in Loaded /\ NothingLoaded \in Loaded
  BY <1>1 DEF Readable, NothingLoaded, Decrypted, Loaded, TypedValue
<1>3. \A rows \in Loaded : ServerTold(Booted(rows)) /\ ServerTold([Booted(rows) EXCEPT !.age = "never"])
  BY DEF Booted
<1>4. FormTold(NoForm)
  BY DEF NoForm
<1> HIDE DEF StoredTold
<1>5. CASE UNCHANGED settingsVars
  <2>1. StoredTold' /\ server' = server /\ form' = form
    BY <1>1, <1>5 DEF settingsVars, StoredTold
  <2>2. QED
    BY <1>1, <2>1
<1>6. ASSUME NEW i \in Instance, Expire(i) \/ LoadForPage(i) \/ LoadDone(i) \/ LoadFails(i) \/ Restart(i)
      PROVE  StoredTold' /\ (\A q \in Instance : ServerTold(server'[q])) /\ \A o \in Operator : FormTold(form'[o])
  <2>1. StoredTold'
    BY <1>1, <1>6 DEF Expire, LoadForPage, LoadDone, LoadFails, Restart, StoredTold
  <2>2. \A o \in Operator : FormTold(form'[o])
    <3>1. \A o \in Operator : form'[o] \in {form[o], NoForm}
      BY <1>1, <1>6 DEF Expire, LoadForPage, LoadDone, LoadFails, Restart
    <3> HIDE DEF FormTold
    <3>2. QED
      BY <1>1, <1>4, <3>1
  <2>3. PICK new : server' = [server EXCEPT ![i] = new] /\ ServerTold(new)
    <3>1. CASE Expire(i)
      <4>1. ServerTold([server[i] EXCEPT !.age = "old"])
        BY <1>1 DEF ServerState
      <4>2. QED
        BY <3>1, <4>1 DEF Expire
    <3>2. CASE LoadForPage(i)
      <4>1. ServerTold([server[i] EXCEPT !.load = Readable])
        BY <1>1, <1>2 DEF ServerState
      <4>2. QED
        BY <3>2, <4>1 DEF LoadForPage
    <3>3. CASE LoadFails(i)
      <4>1. ServerTold([server[i] EXCEPT !.load = NoLoad])
        BY <1>1 DEF ServerState
      <4>2. QED
        BY <3>3, <4>1 DEF LoadFails
    <3>4. CASE LoadDone(i)
      <4>1. server[i].load \in Loaded /\ server' = [server EXCEPT ![i] = Booted(server[i].load)]
        BY <1>1, <3>4 DEF LoadDone
      <4>2. QED
        BY <1>3, <4>1
    <3>5. CASE Restart(i)
      <4>1. \A new \in Restarted(i) : ServerTold(new)
        BY <1>2, <1>3 DEF Restarted
      <4>2. QED
        BY <3>5, <4>1 DEF Restart
    <3>6. QED
      BY <1>6, <3>1, <3>2, <3>3, <3>4, <3>5
  <2>4. \A q \in Instance : server'[q] \in {server[q], new} /\ ServerTold(server'[q])
    <3>1. \A q \in Instance : server'[q] \in {server[q], new}
      BY <1>1, <2>3
    <3> HIDE DEF ServerTold
    <3>2. QED
      BY <1>1, <2>3, <3>1
  <2>5. QED
    BY <2>1, <2>2, <2>4
<1>7. CASE RotateAuthSecret
  <2>1. StoredTold'
    BY <1>1, <1>7 DEF RotateAuthSecret, StoredTold
  <2>2. [s \in Setting |-> Decrypted(stored'[s])] \in Loaded
    BY <2>1 DEF StoredTold, Decrypted, Loaded, TypedValue
  <2>3. \A i \in Instance : server'[i] = Booted([s \in Setting |-> Decrypted(stored'[s])])
    BY <1>7 DEF RotateAuthSecret
  <2>4. \A i \in Instance : ServerTold(server'[i])
    <3> HIDE DEF ServerTold
    <3>1. QED
      BY <1>3, <2>2, <2>3
  <2>5. \A o \in Operator : form'[o] = NoForm
    BY <1>7 DEF RotateAuthSecret
  <2>6. QED
    BY <1>4, <2>1, <2>4, <2>5
<1>8. ASSUME NEW o \in Operator, NEW new, form' = [form EXCEPT ![o] = new], FormTold(new), UNCHANGED server, StoredTold'
      PROVE  (\A i \in Instance : ServerTold(server'[i])) /\ \A q \in Operator : FormTold(form'[q])
  <2>1. \A q \in Operator : form'[q] \in {form[q], new}
    BY <1>1, <1>8
  <2> HIDE DEF FormTold
  <2>2. \A q \in Operator : FormTold(form'[q])
    BY <1>1, <1>8, <2>1
  <2> HIDE DEF ServerTold
  <2>3. QED
    BY <1>1, <1>8, <2>2
<1>9. ASSUME NEW o \in Operator, NEW i \in Instance, OpenSettings(o, i)
      PROVE  StoredTold' /\ (\A q \in Instance : ServerTold(server'[q])) /\ \A q \in Operator : FormTold(form'[q])
  <2> DEFINE new == [NoForm EXCEPT !.at = "page", !.on = i, !.blank = BlankSecrets(i), !.values = Shown(i)]
  <2>1. form' = [form EXCEPT ![o] = new] /\ UNCHANGED <<stored, server>>
    BY <1>9 DEF OpenSettings
  <2>2. Shown(i) \in [Setting -> TypedValue \cup {Mask}]
    <3>1. \A s \in Setting : getSetting(i, s) \in TypedValue
      BY <1>1, EnvironmentType DEF getSetting, Loaded
    <3>2. QED
      BY <3>1 DEF Shown, Masked, TypedValue
  <2>3. new.at = "page" /\ new.values = Shown(i)
    BY SettingsShapes DEF FormState
  <2> HIDE DEF new
  <2>4. FormTold(new)
    BY <2>2, <2>3
  <2>5. StoredTold'
    BY <1>1, <2>1 DEF StoredTold
  <2>6. QED
    BY <1>8, <2>1, <2>4, <2>5
<1>10. ASSUME NEW o \in Operator, SubmitForm(o)
       PROVE  StoredTold' /\ (\A q \in Instance : ServerTold(server'[q])) /\ \A q \in Operator : FormTold(form'[q])
  <2>1. PICK s \in Setting, v \in TypedValue \cup {Keep} :
            form' = [form EXCEPT ![o].at = "writing",
                                 ![o].edited = IF v = Keep THEN {} ELSE {s},
                                 ![o].values = WithoutMasks(IF v = Keep THEN @ ELSE [@ EXCEPT ![s] = v])]
    BY <1>10 DEF SubmitForm
  <2> DEFINE typed == IF v = Keep THEN form[o].values ELSE [form[o].values EXCEPT ![s] = v]
             edited == IF v = Keep THEN {} ELSE {s}
             new == [form[o] EXCEPT !.at = "writing", !.edited = edited, !.values = WithoutMasks(typed)]
  <2>2. form' = [form EXCEPT ![o] = new] /\ UNCHANGED <<stored, server>> /\ form[o].at = "page"
    BY <1>1, <1>10, <2>1 DEF SubmitForm
  <2>3. form[o].values \in [Setting -> TypedValue \cup {Mask}]
    BY <1>1, <2>2
  <2>4. typed \in [Setting -> TypedValue \cup {Mask}]
    BY <2>3
  <2> HIDE DEF typed
  <2>5. WithoutMasks(typed) \in [Setting -> TypedValue \cup {Keep}]
    BY <2>4 DEF WithoutMasks
  <2>6. new.at = "writing" /\ new.values = WithoutMasks(typed)
    BY <1>1 DEF FormState
  <2> HIDE DEF new
  <2>7. FormTold(new)
    BY <2>5, <2>6
  <2>8. StoredTold'
    BY <1>1, <2>2 DEF StoredTold
  <2>9. QED
    BY <1>8, <2>2, <2>7, <2>8
<1>11. ASSUME NEW o \in Operator, NEW s \in Setting, WriteSetting(o, s) \/ WriteFails(o, s)
       PROVE  StoredTold' /\ (\A q \in Instance : ServerTold(server'[q])) /\ \A q \in Operator : FormTold(form'[q])
  <2>1. form[o].at \in {"writing", "failed"} /\ form[o].values[s] # Keep /\ UNCHANGED server
    BY <1>11 DEF WriteSetting, WriteFails
  <2>2. form[o].values \in [Setting -> TypedValue \cup {Keep}]
    BY <1>1, <2>1
  <2>3. StoredTold'
    BY <1>1, <1>11, <2>1, <2>2 DEF WriteSetting, WriteFails, StoredTold
  <2>4. PICK at \in {"writing", "failed"} : form' = [form EXCEPT ![o] = [@ EXCEPT !.at = at, !.values[s] = Keep]]
    <3>1. form[o] = [form[o] EXCEPT !.at = form[o].at]
      BY <1>1 DEF FormState
    <3>2. CASE WriteSetting(o, s)
      <4>1. form' = [form EXCEPT ![o] = [@ EXCEPT !.at = form[o].at, !.values[s] = Keep]]
        BY <1>1, <3>1, <3>2 DEF WriteSetting, FormState
      <4>2. QED
        BY <2>1, <4>1
    <3>3. CASE WriteFails(o, s)
      BY <1>1, <3>3 DEF WriteFails
    <3>4. QED
      BY <1>11, <3>2, <3>3
  <2> DEFINE new == [form[o] EXCEPT !.at = at, !.values[s] = Keep]
  <2>5. new.at = at /\ new.values = [form[o].values EXCEPT ![s] = Keep]
    BY <1>1 DEF FormState
  <2>6. form' = [form EXCEPT ![o] = new]
    BY <2>4
  <2> HIDE DEF new
  <2>7. FormTold(new)
    BY <2>2, <2>5
  <2>8. QED
    BY <1>8, <2>1, <2>3, <2>6, <2>7
<1>12. ASSUME NEW o \in Operator, SaveLoads(o)
       PROVE  StoredTold' /\ (\A q \in Instance : ServerTold(server'[q])) /\ \A q \in Operator : FormTold(form'[q])
  <2> DEFINE new == [form[o] EXCEPT !.at = "loading", !.rows = Readable]
  <2>1. form' = [form EXCEPT ![o] = new] /\ UNCHANGED <<stored, server>>
    BY <1>1, <1>12 DEF SaveLoads
  <2>2. FormTold(new)
    BY <1>1, <1>2 DEF FormState
  <2>3. StoredTold'
    BY <1>1, <2>1 DEF StoredTold
  <2> HIDE DEF new
  <2>4. QED
    BY <1>8, <2>1, <2>2, <2>3
<1>13. ASSUME NEW o \in Operator, SaveLoaded(o) \/ SaveOver(o)
       PROVE  StoredTold' /\ (\A q \in Instance : ServerTold(server'[q])) /\ \A q \in Operator : FormTold(form'[q])
  <2>1. form' = [form EXCEPT ![o] = NoForm] /\ UNCHANGED stored
    BY <1>13 DEF SaveLoaded, SaveOver
  <2>2. StoredTold'
    BY <1>1, <2>1 DEF StoredTold
  <2>3. CASE UNCHANGED server
    BY <1>4, <1>8, <2>1, <2>2, <2>3
  <2>4. CASE server' # server
    <3> DEFINE i == form[o].on
               new == [server[i] EXCEPT !.snapshot = form[o].rows, !.age = "fresh"]
    <3>1. form[o].at = "loading" /\ server' = [server EXCEPT ![i] = new]
      BY <1>1, <1>13, <2>4 DEF SaveLoaded, SaveOver
    <3>2. i \in Instance => ServerTold(new)
      BY <1>1, <3>1 DEF ServerState
    <3> HIDE DEF new, i
    <3>3. \A q \in Instance : server'[q] = server[q] \/ (q = i /\ server'[q] = new)
      BY <1>1, <3>1
    <3>4. \A q \in Operator : form'[q] \in {form[q], NoForm}
      BY <1>1, <2>1
    <3> HIDE DEF ServerTold, FormTold
    <3>5. \A q \in Instance : ServerTold(server'[q])
      BY <1>1, <3>2, <3>3
    <3>6. \A q \in Operator : FormTold(form'[q])
      BY <1>1, <1>4, <3>4
    <3>7. QED
      BY <2>2, <3>5, <3>6
  <2>5. QED
    BY <2>3, <2>4, <2>2
<1>14. QED
  BY <1>5, <1>6, <1>7, <1>9, <1>10, <1>11, <1>12, <1>13 DEF SettingsNext

LEMMA SettingsTypes ==
    /\ SettingsInit => SettingsTold
    /\ SettingsInv /\ SettingsTold => SettingsTypeOK
<1>1. SettingsInit => SettingsTold
  BY DEF SettingsInit, SettingsTold, NothingLoaded, Booted, NoForm, Loaded, TypedValue
<1>2. SettingsInv /\ SettingsTold => SettingsTypeOK
  BY DEF SettingsInv, SettingsTyped, SettingsTold, SettingsTypeOK, ServerState, FormState, Loaded
<1>3. QED
  BY <1>1, <1>2

-------------------------------------------------------------------------------
(* Checkout: types. What a line, a seat or a page is does not matter here.     *)

RequestOf(data) ==
    [at : {"sent", "made", "refused", "unheard"}, basket : Nat, lines : data, type : data,
     seat : data, quoted : data, total : data]
TabOf(data) == [view : data, page : data, request : Nat, placed : Nat]

RequestTyped == \E data : request \in Seq(RequestOf(data))
TabTyped == \E data : tab \in [Tab -> TabOf(data)]

LEMMA RequestAppended ==
    ASSUME RequestTyped, NEW d, NEW e \in RequestOf(d), request' = Append(request, e)
    PROVE  /\ RequestTyped' /\ Len(request) \in Nat /\ Len(request') = Len(request) + 1
           /\ DOMAIN request = 1..Len(request) /\ DOMAIN request' = 1..(Len(request) + 1)
           /\ request'[Len(request) + 1] = e
           /\ \A i \in DOMAIN request : request'[i] = request[i]
<1>1. PICK data : request \in Seq(RequestOf(data))
  BY DEF RequestTyped
<1>2. e \in RequestOf(data \cup d) /\ RequestOf(data) \subseteq RequestOf(data \cup d)
  BY DEF RequestOf
<1>3. request \in Seq(RequestOf(data \cup d))
  BY <1>1, <1>2, SeqMonotonic
<1>4. request' \in Seq(RequestOf(data \cup d))
  BY <1>2, <1>3
<1>5. QED
  BY <1>3, <1>4 DEF RequestTyped

LEMMA RequestReplaced ==
    ASSUME RequestTyped, NEW d, NEW e \in RequestOf(d), NEW i \in DOMAIN request,
           request' = [request EXCEPT ![i] = e]
    PROVE  /\ RequestTyped' /\ Len(request') = Len(request) /\ DOMAIN request' = DOMAIN request
           /\ request'[i] = e /\ \A j \in DOMAIN request \ {i} : request'[j] = request[j]
<1>1. PICK data : request \in Seq(RequestOf(data))
  BY DEF RequestTyped
<1>2. e \in RequestOf(data \cup d) /\ RequestOf(data) \subseteq RequestOf(data \cup d)
  BY DEF RequestOf
<1>3. request \in Seq(RequestOf(data \cup d))
  BY <1>1, <1>2, SeqMonotonic
<1>4. request' \in Seq(RequestOf(data \cup d))
  BY <1>2, <1>3
<1>5. QED
  BY <1>3, <1>4 DEF RequestTyped

LEMMA RequestFields ==
    ASSUME RequestTyped
    PROVE  /\ Len(request) \in Nat /\ DOMAIN request = 1..Len(request)
           /\ \A i \in DOMAIN request : request[i].basket \in Nat /\ \E d : request[i] \in RequestOf(d)
<1>1. PICK data : request \in Seq(RequestOf(data))
  BY DEF RequestTyped
<1>2. \A i \in DOMAIN request : request[i] \in RequestOf(data)
  BY <1>1
<1>3. \A i \in DOMAIN request : request[i].basket \in Nat
  BY <1>2 DEF RequestOf
<1>4. QED
  BY <1>1, <1>2, <1>3

LEMMA TabReplaced ==
    ASSUME TabTyped, NEW t \in Tab, NEW d, NEW e \in TabOf(d), tab' = [tab EXCEPT ![t] = e]
    PROVE  TabTyped' /\ tab'[t] = e /\ \A u \in Tab \ {t} : tab'[u] = tab[u]
<1>1. PICK data : tab \in [Tab -> TabOf(data)]
  BY DEF TabTyped
<1>2. e \in TabOf(data \cup d) /\ TabOf(data) \subseteq TabOf(data \cup d)
  BY DEF TabOf
<1>3. tab' \in [Tab -> TabOf(data \cup d)]
  BY <1>1, <1>2
<1>4. QED
  BY <1>1, <1>3 DEF TabTyped

LEMMA TabFields ==
    ASSUME TabTyped, NEW t \in Tab
    PROVE  tab[t].request \in Nat /\ tab[t].placed \in Nat /\ \E d : tab[t] \in TabOf(d)
<1>1. PICK data : tab \in [Tab -> TabOf(data)]
  BY DEF TabTyped
<1>2. tab[t] \in TabOf(data)
  BY <1>1
<1>3. QED
  BY <1>2 DEF TabOf

-------------------------------------------------------------------------------
(* Checkout: the invariant                                                    *)

Busy(t) == tab[t].request # 0 \/ tab[t].placed # 0
Awaited(i) == \E t \in Tab : Busy(t) /\ i = Len(request)
Done == {i \in Made : request[i].basket < basket}

\* One tab at most waits or confirms, and what for is the last request.
BusyOK ==
    /\ \A t \in Tab : tab[t].request = 0 \/ tab[t].placed = 0
    /\ \A t, u \in Tab : Busy(t) /\ Busy(u) => t = u
    /\ \A t \in Tab : tab[t].request # 0 => tab[t].request = Len(request)
    /\ \A t \in Tab : tab[t].placed # 0 =>
                          tab[t].placed = Len(request) /\ request[Len(request)].at = "made"
    /\ \A t \in Tab : tab[t].view = "away" => ~Busy(t)

\* An order that was made is of this basket while a tab is busy with it, and of an
\* earlier basket afterwards. A request that is sent has its tab.
RequestsOK ==
    /\ \A i \in DOMAIN request : request[i].at # "unheard"
    /\ \A i \in DOMAIN request : request[i].at = "sent" =>
           i = Len(request) /\ request[i].basket = basket /\ \E t \in Tab : tab[t].request # 0
    /\ \A i \in Made : IF Awaited(i) THEN request[i].basket = basket ELSE request[i].basket < basket
    /\ \A i, j \in Made : request[i].basket = request[j].basket => i = j

LinkOK == Done # {} => activeOrder \in Done /\ \A j \in Done : j <= activeOrder

OrdersOK == RequestTyped /\ TabTyped /\ basket \in Nat /\ BusyOK /\ RequestsOK /\ LinkOK

CheckoutInv == storable /\ doubt = "none" => OrdersOK

LEMMA CheckoutInitInv == CheckoutInit => CheckoutInv
<1> SUFFICES ASSUME CheckoutInit PROVE OrdersOK
  BY DEF CheckoutInv
<1>1. request = <<>> /\ DOMAIN request = {} /\ basket = 0
  BY DEF CheckoutInit
<1>2. Closed.request = 0 /\ Closed.placed = 0 /\ Closed \in TabOf({Closed.view, Closed.page})
  BY DEF Closed, TabOf
<1>3. \A t \in Tab : tab[t] = Closed
  BY DEF CheckoutInit
<1>4. TabTyped
  BY <1>2, <1>3 DEF CheckoutInit, TabTyped
<1>5. RequestTyped
  BY <1>1 DEF RequestTyped
<1>6. Made = {} /\ Done = {}
  BY <1>1 DEF Made, Done
<1>7. QED
  BY <1>1, <1>2, <1>3, <1>4, <1>5, <1>6 DEF OrdersOK, BusyOK, Busy, RequestsOK, LinkOK

LEMMA OnceAndLinked == CheckoutInv => BasketIsOrderedOnce
<1> SUFFICES ASSUME OrdersOK
             PROVE  /\ \A i, j \in Made : request[i].basket = request[j].basket => i = j
                    /\ (Made # {} /\ \A t \in Tab : tab[t].request = 0 /\ tab[t].placed = 0)
                          => activeOrder = Max(Made)
  BY DEF CheckoutInv, BasketIsOrderedOnce
<1>1. \A i, j \in Made : request[i].basket = request[j].basket => i = j
  BY DEF OrdersOK, RequestsOK
<1>2. ASSUME Made # {}, \A t \in Tab : tab[t].request = 0 /\ tab[t].placed = 0
      PROVE  activeOrder = Max(Made)
  <2>1. \A i \in Made : request[i].basket < basket
    BY <1>2 DEF OrdersOK, RequestsOK, Awaited, Busy
  <2>2. Done = Made
    BY <2>1 DEF Done
  <2>3. activeOrder \in Made /\ \A j \in Made : j <= activeOrder
    BY <1>2, <2>2 DEF OrdersOK, LinkOK
  <2>4. Made \subseteq Nat
    BY RequestFields DEF OrdersOK, Made
  <2>5. \A x \in Made : (\A y \in Made : x >= y) => x = activeOrder
    BY <2>3, <2>4
  <2>6. QED
    BY <2>3, <2>4, <2>5 DEF Max
<1>3. QED
  BY <1>1, <1>2

-------------------------------------------------------------------------------
(* Checkout: steps                                                            *)

\* Nobody's request or order changes hands.
LEMMA QuietKeeps ==
    ASSUME OrdersOK, UNCHANGED <<request, basket, activeOrder>>, TabTyped',
           \A t \in Tab : /\ tab'[t].request = tab[t].request /\ tab'[t].placed = tab[t].placed
                          /\ tab'[t].view = "away" => tab[t].view = "away" \/ ~Busy(t)
    PROVE  OrdersOK'
<1>1. \A t \in Tab : Busy(t)' <=> Busy(t)
  BY DEF Busy
<1>2. RequestTyped'
  BY DEF OrdersOK, RequestTyped
<1>3. BusyOK'
  BY <1>1 DEF OrdersOK, BusyOK
<1>4. Made' = Made /\ Done' = Done
  BY DEF Made, Done
<1>5. \A i : Awaited(i)' <=> Awaited(i)
  BY <1>1 DEF Awaited
<1>6. RequestsOK'
  BY <1>4, <1>5 DEF OrdersOK, RequestsOK
<1>7. QED
  BY <1>2, <1>3, <1>4, <1>6 DEF OrdersOK, LinkOK

\* A tab that waits for nothing posts the last request.
LEMMA SubmitKeeps ==
    ASSUME OrdersOK, NEW t \in Tab, Submit(t), doubt = "none", doubt' = "none"
    PROVE  OrdersOK'
<1>1. tab[t].request = 0 /\ tab[t].placed = 0 /\ tab[t].view # "away"
  BY DEF Submit, MaySubmit
<1>2. \A u \in Tab : ~Busy(u)
  <2>1. \A u \in Tab \ {t} : tab[u].request = 0 /\ tab[u].placed = 0
    BY DEF Submit
  <2>2. QED
    BY <1>1, <2>1 DEF Busy
<1>3. PICK type \in OrderType, seat \in Seat :
          request' = Append(request, [at |-> "sent", basket |-> basket, lines |-> cart, type |-> type,
                                      seat |-> seat, quoted |-> Quoted(type), total |-> 0])
  BY DEF Submit
<1> DEFINE e == [at |-> "sent", basket |-> basket, lines |-> cart, type |-> type,
                 seat |-> seat, quoted |-> Quoted(type), total |-> 0]
           n == Len(request) + 1
<1>4. /\ e \in RequestOf({cart, type, seat, Quoted(type), 0})
      /\ e.at = "sent" /\ e.basket = basket
  BY DEF RequestOf, OrdersOK
<1>5. request' = Append(request, e)
  BY <1>3
<1> HIDE DEF e
<1>6. /\ RequestTyped' /\ Len(request) \in Nat /\ Len(request') = n
      /\ DOMAIN request = 1..Len(request) /\ DOMAIN request' = 1..n
      /\ request'[n] = e /\ \A i \in DOMAIN request : request'[i] = request[i]
  BY <1>4, <1>5, RequestAppended DEF OrdersOK
<1> DEFINE w == [tab[t] EXCEPT !.request = n]
<1>7. \E d : w \in TabOf(d)
  BY <1>6, TabFields DEF TabOf, OrdersOK
<1>8. w.request = n /\ w.placed = 0 /\ w.view = tab[t].view
  BY <1>1, TabFields DEF TabOf, OrdersOK
<1>9. tab' = [tab EXCEPT ![t] = w]
  BY DEF Submit
<1> HIDE DEF w
<1>10. TabTyped' /\ tab'[t] = w /\ \A u \in Tab \ {t} : tab'[u] = tab[u]
  BY <1>7, <1>9, TabReplaced DEF OrdersOK
<1>11. Busy(t)' /\ \A u \in Tab \ {t} : ~Busy(u)'
  BY <1>2, <1>6, <1>8, <1>10 DEF Busy
<1>12. BusyOK'
  BY <1>1, <1>2, <1>6, <1>8, <1>10, <1>11 DEF BusyOK, Busy
<1>13. UNCHANGED <<basket, activeOrder>>
  BY DEF Submit
<1>14. \A i \in DOMAIN request : request[i].at # "sent"
  BY <1>2 DEF OrdersOK, RequestsOK, Busy
<1>15. Made' = Made
  BY <1>4, <1>6 DEF Made
<1>16. \A i \in Made : i \in DOMAIN request /\ i # n /\ request'[i] = request[i] /\ request[i].basket < basket
  BY <1>2, <1>6 DEF OrdersOK, RequestsOK, Made, Awaited
<1>17. RequestsOK'
  BY <1>4, <1>6, <1>8, <1>10, <1>13, <1>14, <1>15, <1>16 DEF OrdersOK, RequestsOK, Awaited
<1>18. Done' = Done
  BY <1>13, <1>15, <1>16 DEF Done
<1>19. QED
  BY <1>6, <1>10, <1>12, <1>13, <1>17, <1>18 DEF OrdersOK, LinkOK

\* The tab learns what became of its request.
LEMMA ReceiveKeeps ==
    ASSUME OrdersOK, NEW t \in Tab, Receive(t)
    PROVE  OrdersOK'
<1> DEFINE i == tab[t].request
           w == [tab[t] EXCEPT !.request = 0, !.placed = IF request[i].at = "made" THEN i ELSE 0]
<1>1. /\ i # 0 /\ request[i].at # "sent" /\ tab' = [tab EXCEPT ![t] = w]
      /\ UNCHANGED <<request, basket, activeOrder>>
  BY DEF Receive
<1>2. i = Len(request) /\ tab[t].placed = 0 /\ Busy(t) /\ i \in DOMAIN request
  BY <1>1, RequestFields, TabFields DEF OrdersOK, BusyOK, Busy
<1>3. \A u \in Tab \ {t} : ~Busy(u)
  BY <1>2 DEF OrdersOK, BusyOK
<1>4. \E d : w \in TabOf(d)
  BY TabFields DEF TabOf, OrdersOK
<1>5. /\ w.request = 0 /\ w.view = tab[t].view
      /\ w.placed = IF request[i].at = "made" THEN i ELSE 0
  BY TabFields DEF TabOf, OrdersOK
<1> HIDE DEF w
<1>6. TabTyped' /\ tab'[t] = w /\ \A u \in Tab \ {t} : tab'[u] = tab[u]
  BY <1>1, <1>4, TabReplaced DEF OrdersOK
<1>7. request[i].at \in {"made", "refused"}
  <2>1. \E d : request[i] \in RequestOf(d)
    BY <1>2, RequestFields DEF OrdersOK
  <2>2. QED
    BY <1>1, <1>2, <2>1 DEF OrdersOK, RequestsOK, RequestOf
<1>8. (Busy(t)' <=> request[i].at = "made") /\ \A u \in Tab \ {t} : ~Busy(u)'
  BY <1>1, <1>3, <1>5, <1>6 DEF Busy
<1>9. BusyOK'
  BY <1>1, <1>2, <1>3, <1>5, <1>6, <1>8 DEF OrdersOK, BusyOK, Busy
<1>10. Made' = Made /\ Done' = Done
  BY <1>1 DEF Made, Done
<1>11. \A j \in Made : Awaited(j)' <=> Awaited(j)
  BY <1>1, <1>2, <1>7, <1>8 DEF Awaited, Made
<1>12. \A j \in DOMAIN request : request[j].at # "sent"
  BY <1>1, <1>2 DEF OrdersOK, RequestsOK
<1>13. RequestsOK'
  BY <1>1, <1>10, <1>11, <1>12 DEF OrdersOK, RequestsOK
<1>14. RequestTyped'
  BY <1>1 DEF OrdersOK, RequestTyped
<1>15. QED
  BY <1>1, <1>6, <1>9, <1>10, <1>13, <1>14 DEF OrdersOK, LinkOK

\* The confirmation ends: a new basket, and the order is the last one made.
LEMMA ConfirmKeeps ==
    ASSUME OrdersOK, storable, NEW t \in Tab, Confirm(t)
    PROVE  OrdersOK'
<1> DEFINE n == Len(request)
<1>1. tab[t].placed # 0 /\ activeOrder' = tab[t].placed /\ basket' = basket + 1 /\ UNCHANGED request
  BY DEF Confirm, Confirming, Remembered
<1>2. PICK view \in {"menu", "pay"} : tab' = [tab EXCEPT ![t] = [@ EXCEPT !.placed = 0, !.view = view]]
  BY DEF Confirm
<1> DEFINE w == [tab[t] EXCEPT !.placed = 0, !.view = view]
<1>3. /\ tab[t].placed = n /\ tab[t].request = 0 /\ n \in DOMAIN request /\ request[n].at = "made"
      /\ \A u \in Tab \ {t} : ~Busy(u)
  BY <1>1, RequestFields, TabFields DEF OrdersOK, BusyOK, Busy
<1>4. \E d : w \in TabOf(d)
  <2>1. PICK d : tab[t] \in TabOf(d)
    BY TabFields DEF OrdersOK
  <2>2. w \in TabOf(d \cup {view})
    BY <2>1 DEF TabOf
  <2>3. QED
    BY <2>2
<1>5. w.request = 0 /\ w.placed = 0
  BY <1>3, TabFields DEF TabOf, OrdersOK
<1>6. tab' = [tab EXCEPT ![t] = w]
  BY <1>2
<1> HIDE DEF w
<1>7. TabTyped' /\ tab'[t] = w /\ \A u \in Tab \ {t} : tab'[u] = tab[u]
  BY <1>4, <1>6, TabReplaced DEF OrdersOK
<1>8. \A u \in Tab : tab'[u].request = 0 /\ tab'[u].placed = 0
  BY <1>3, <1>5, <1>7 DEF Busy
<1>9. BusyOK'
  BY <1>8 DEF BusyOK, Busy
<1>10. Made' = Made /\ Made \subseteq DOMAIN request
  BY <1>1 DEF Made
<1>11. \A i \in Made : request[i].basket <= basket /\ request[i].basket \in Nat
  BY <1>10, RequestFields DEF OrdersOK, RequestsOK
<1>12. \A i \in DOMAIN request : request[i].at # "sent"
  BY <1>3 DEF OrdersOK, RequestsOK
<1>13. \A i \in Made : request'[i].basket < basket'
  BY <1>1, <1>11 DEF OrdersOK
<1>14. RequestsOK'
  BY <1>1, <1>8, <1>10, <1>12, <1>13 DEF OrdersOK, RequestsOK, Awaited, Busy
<1>15. Done' = Made
  BY <1>10, <1>13 DEF Done
<1>16. n \in Made /\ \A j \in Made : j <= n
  BY <1>3, RequestFields DEF OrdersOK, Made
<1>17. LinkOK'
  BY <1>1, <1>3, <1>15, <1>16 DEF LinkOK
<1>18. QED
  BY <1>1, <1>7, <1>9, <1>14, <1>17 DEF OrdersOK, RequestTyped

\* A request is settled while its tab waits.
LEMMA SettleKeeps ==
    ASSUME OrdersOK, NEW i \in DOMAIN request, NEW new, \E d : new \in RequestOf(d),
           request[i].at = "sent", new.at \in {"made", "refused"},
           new.at = "made" => new.basket = request[i].basket, Settle(i, new)
    PROVE  OrdersOK'
<1>1. request' = [request EXCEPT ![i] = new] /\ UNCHANGED <<tab, basket, activeOrder>>
  BY DEF Settle, PhoneUnchanged
<1>2. /\ RequestTyped' /\ Len(request') = Len(request) /\ DOMAIN request' = DOMAIN request
      /\ request'[i] = new /\ \A j \in DOMAIN request \ {i} : request'[j] = request[j]
  BY <1>1, RequestReplaced DEF OrdersOK
<1>3. i = Len(request) /\ request[i].basket = basket /\ i \notin Made
  BY DEF OrdersOK, RequestsOK, Made
<1>4. PICK t \in Tab : tab[t].request # 0
  BY DEF OrdersOK, RequestsOK
<1>5. \A u \in Tab : tab[u].placed = 0
  BY <1>4 DEF OrdersOK, BusyOK, Busy
<1>6. BusyOK'
  BY <1>1, <1>2, <1>5 DEF OrdersOK, BusyOK, Busy
<1>7. TabTyped'
  BY <1>1 DEF OrdersOK, TabTyped
<1>8. Made' \subseteq Made \cup {i} /\ Made \subseteq Made' /\ (i \in Made' => new.at = "made")
  BY <1>2, <1>3 DEF Made
<1>9. \A j : Awaited(j)' <=> j = i
  BY <1>1, <1>2, <1>3, <1>4 DEF Awaited, Busy
<1>10. \A j \in Made : /\ j \in DOMAIN request \ {i} /\ request'[j] = request[j]
                       /\ request[j].basket < basket /\ request[j].basket \in Nat
  <2>1. \A j \in Made : j \in DOMAIN request \ {i} /\ ~Awaited(j)
    BY <1>3 DEF Made, Awaited
  <2>2. QED
    BY <1>2, <2>1, RequestFields DEF OrdersOK, RequestsOK
<1>11. RequestsOK'
  BY <1>1, <1>2, <1>3, <1>8, <1>9, <1>10 DEF OrdersOK, RequestsOK
<1>12. Done' = Done
  BY <1>1, <1>2, <1>3, <1>8, <1>10 DEF Done, OrdersOK
<1>13. QED
  BY <1>1, <1>2, <1>6, <1>7, <1>11, <1>12 DEF OrdersOK, LinkOK

\* A tab goes to another view while it waits for nothing, or keeps what it waits for.
LEMMA ViewKeeps ==
    ASSUME OrdersOK, UNCHANGED <<request, basket, activeOrder>>, NEW t \in Tab, NEW new,
           tab' = [tab EXCEPT ![t] = new], \E d : new \in TabOf(d),
           new.request = tab[t].request, new.placed = tab[t].placed, new.view = "away" => ~Busy(t)
    PROVE  OrdersOK'
<1>1. TabTyped' /\ tab'[t] = new /\ \A u \in Tab \ {t} : tab'[u] = tab[u]
  BY TabReplaced DEF OrdersOK
<1>2. QED
  BY <1>1, QuietKeeps

LEMMA GoneKeeps ==
    ASSUME OrdersOK, NEW t \in Tab, NEW view, Gone(t, view), doubt = "none", doubt' = "none"
    PROVE  OrdersOK'
<1> DEFINE new == [Closed EXCEPT !.view = view, !.page = IF view = "away" THEN @ ELSE tab[t].page]
<1>1. tab' = [tab EXCEPT ![t] = new] /\ UNCHANGED <<request, basket, activeOrder>>
  BY DEF Gone
<1>2. tab[t].request = 0 /\ tab[t].placed = 0
  BY DEF Gone
<1>3. new.request = 0 /\ new.placed = 0 /\ new.view = view
  BY DEF Closed
<1>4. \E d : new \in TabOf(d)
  <2>1. new \in TabOf({view, Closed.page, tab[t].page})
    BY DEF Closed, TabOf
  <2>2. QED
    BY <2>1
<1> HIDE DEF new
<1>5. QED
  BY <1>1, <1>2, <1>3, <1>4, ViewKeeps DEF Busy

LEMMA CheckoutStep == CheckoutInv /\ [CheckoutNext]_checkoutVars => CheckoutInv'
<1> SUFFICES ASSUME CheckoutInv, [CheckoutNext]_checkoutVars, storable', doubt' = "none" PROVE OrdersOK'
  BY DEF CheckoutInv
<1>1. CASE UNCHANGED checkoutVars
  <2>1. OrdersOK
    BY <1>1 DEF CheckoutInv, checkoutVars
  <2>2. UNCHANGED <<request, tab, basket, activeOrder>>
    BY <1>1 DEF checkoutVars
  <2>3. TabTyped'
    BY <2>1, <2>2 DEF OrdersOK, TabTyped
  <2>4. QED
    BY <2>1, <2>2, <2>3, QuietKeeps
<1>2. CASE CheckoutNext
  <2>1. doubt = "none"
    BY <1>2 DEF CheckoutNext
  <2>2. CASE \E t \in Tab : TabStep(t)
    <3>1. PICK t \in Tab : TabStep(t)
      BY <2>2
    <3>2. OrdersOK /\ storable
      BY <2>1, <3>1 DEF CheckoutInv, TabStep, OpenMenu, OpenSheet, CloseSheet, Unmount, LeavePage, Gone,
            FollowLink, PayOrFollow, Submit, Receive, Confirm, AddToCart, SetQuantity, Fixed
    <3>3. CASE OpenMenu(t)
      <4> DEFINE new == [Closed EXCEPT !.view = "menu", !.page = PageNow]
      <4>1. /\ tab' = [tab EXCEPT ![t] = new] /\ UNCHANGED <<request, basket, activeOrder>>
            /\ tab[t].view = "away"
        BY <3>3 DEF OpenMenu
      <4>2. tab[t].request = 0 /\ tab[t].placed = 0
        BY <3>2, <4>1 DEF OrdersOK, BusyOK, Busy
      <4>3. new \in TabOf({"menu", PageNow}) /\ new.request = 0 /\ new.placed = 0 /\ new.view = "menu"
        BY DEF Closed, TabOf
      <4> HIDE DEF new
      <4>4. QED
        BY <3>2, <4>1, <4>2, <4>3, ViewKeeps
    <3>4. CASE OpenSheet(t) \/ CloseSheet(t)
      <4>1. PICK view \in {"sheet", "fading"} : tab' = [tab EXCEPT ![t].view = view]
        BY <3>4 DEF OpenSheet, CloseSheet
      <4>2. PICK d : tab[t] \in TabOf(d)
        BY <3>2, TabFields DEF OrdersOK
      <4> DEFINE new == [tab[t] EXCEPT !.view = view]
      <4>3. /\ new \in TabOf(d \cup {view}) /\ new.request = tab[t].request
            /\ new.placed = tab[t].placed /\ new.view = view
        BY <4>2 DEF TabOf
      <4>4. tab' = [tab EXCEPT ![t] = new] /\ UNCHANGED <<request, basket, activeOrder>>
        BY <3>4, <4>1 DEF OpenSheet, CloseSheet
      <4> HIDE DEF new
      <4>5. QED
        BY <3>2, <4>1, <4>3, <4>4, ViewKeeps
    <3>5. CASE Unmount(t) \/ LeavePage(t) \/ FollowLink(t) \/ PayOrFollow(t)
      BY <2>1, <3>2, <3>5, GoneKeeps DEF Unmount, LeavePage, FollowLink, PayOrFollow
    <3>6. CASE Submit(t)
      BY <2>1, <3>2, <3>6, SubmitKeeps
    <3>7. CASE Receive(t)
      BY <3>2, <3>7, ReceiveKeeps
    <3>8. CASE Confirm(t)
      BY <3>2, <3>8, ConfirmKeeps
    <3>9. CASE \E d \in Dish : AddToCart(t, d) \/ SetQuantity(t, d)
      <4>1. UNCHANGED <<request, tab, basket, activeOrder>>
        BY <3>9 DEF AddToCart, SetQuantity
      <4>2. TabTyped'
        BY <3>2, <4>1 DEF OrdersOK, TabTyped
      <4>3. QED
        BY <3>2, <4>1, <4>2, QuietKeeps
    <3>10. QED
      BY <3>1, <3>3, <3>4, <3>5, <3>6, <3>7, <3>8, <3>9 DEF TabStep
  <2>3. CASE \E i \in DOMAIN request : PlaceOrder(i) \/ LoseRequest(i) \/ LoseAnswer(i)
    <3>1. PICK i \in DOMAIN request : PlaceOrder(i) \/ LoseRequest(i)
      BY <2>3 DEF LoseAnswer
    <3>2. OrdersOK /\ request[i].at = "sent"
      BY <2>1, <3>1 DEF CheckoutInv, PlaceOrder, LoseRequest, Settle, Fixed
    <3> DEFINE made == [request[i] EXCEPT !.at = "made", !.seat = Seated(request[i]),
                                          !.total = Charged(request[i]), !.lines = EmptyCart]
    <3>3. PICK d : request[i] \in RequestOf(d)
      BY <3>2, RequestFields DEF OrdersOK
    <3>4. /\ made \in RequestOf(d \cup {Seated(request[i]), Charged(request[i]), EmptyCart})
          /\ made.at = "made" /\ made.basket = request[i].basket
      BY <3>3 DEF RequestOf
    <3>5. Refused.at = "refused" /\ Refused \in RequestOf({EmptyCart, "TAKEAWAY", "scanned", 0})
      BY DEF Refused, RequestOf
    <3>6. Settle(i, made) \/ Settle(i, Refused)
      BY <3>1 DEF PlaceOrder, LoseRequest
    <3> HIDE DEF made
    <3>7. CASE Settle(i, made)
      BY <3>2, <3>4, <3>7, SettleKeeps
    <3>8. CASE Settle(i, Refused)
      BY <3>2, <3>5, <3>8, SettleKeeps
    <3>9. QED
      BY <3>6, <3>7, <3>8
  <2>4. CASE OwnerChanges
    <3>1. OrdersOK /\ UNCHANGED <<request, tab, basket, activeOrder>>
      BY <2>1, <2>4 DEF CheckoutInv, OwnerChanges, PhoneUnchanged, Fixed
    <3>2. TabTyped'
      BY <3>1 DEF OrdersOK, TabTyped
    <3>3. QED
      BY <3>1, <3>2, QuietKeeps
  <2>5. QED
    BY <1>2, <2>2, <2>3, <2>4 DEF CheckoutNext
<1>3. QED
  BY <1>1, <1>2

-------------------------------------------------------------------------------
(* Checkout: prices                                                           *)

CartTyped == \E data : cart \in [Dish -> [quantity : Nat, price : data]]

\* What lines come to at their own prices, with the fee of a type of order.
Quote(lines, type) ==
    SumFunction([d \in Lines(lines) |-> lines[d].quantity * lines[d].price]) + DeliveryFee(type)

\* A request that is under way carries the quote of its own lines, whatever became
\* of the basket and the menu since.
RequestsQuoted ==
    \A i \in DOMAIN request :
        request[i].at = "sent" => request[i].quoted = Quote(request[i].lines, request[i].type)
QuotesTyped == RequestTyped /\ TabTyped /\ CartTyped /\ basket \in Nat

QuotesInv == QuotesTyped /\ RequestsQuoted

LEMMA QuotesInitInv == CheckoutInit => QuotesInv
<1> SUFFICES ASSUME CheckoutInit PROVE QuotesInv
  OBVIOUS
<1>1. request = <<>> /\ RequestTyped /\ RequestsQuoted
  BY DEF CheckoutInit, RequestTyped, RequestsQuoted
<1>2. tab = [t \in Tab |-> Closed] /\ Closed \in TabOf({"away", Closed.page})
  BY DEF CheckoutInit, Closed, TabOf
<1>3. TabTyped
  BY <1>2 DEF TabTyped
<1>4. cart = [d \in Dish |-> NoLine] /\ NoLine \in [quantity : Nat, price : {0}]
  BY DEF CheckoutInit, NoLine
<1>5. CartTyped
  BY <1>4 DEF CartTyped
<1>6. QED
  BY <1>1, <1>3, <1>5 DEF QuotesInv, QuotesTyped, CheckoutInit

\* Where the lines cost what the menu says, the server's sum is the sheet's.
LEMMA SameSum ==
    ASSUME NEW r, \A d \in Lines(r.lines) : r.lines[d].price = dish[d].price
    PROVE  Charged(r) = Quote(r.lines, r.type)
<1>1. [d \in Lines(r.lines) |-> r.lines[d].quantity * dish[d].price]
          = [d \in Lines(r.lines) |-> r.lines[d].quantity * r.lines[d].price]
  OBVIOUS
<1>2. QED
  BY <1>1 DEF Charged, Quote

LEMMA QuotedAndCharged ==
    QuotesInv /\ [CheckoutNext]_checkoutVars =>
        [\A i \in DOMAIN request :
           /\ request[i].at = "sent" /\ request'[i].at = "made"
           /\ \A d \in Lines(request[i].lines) : request[i].lines[d].price = dish[d].price
           => request'[i].total = request[i].quoted]_checkoutVars
<1> SUFFICES ASSUME QuotesInv, CheckoutNext, NEW i \in DOMAIN request,
                    request[i].at = "sent", request'[i].at = "made",
                    \A d \in Lines(request[i].lines) : request[i].lines[d].price = dish[d].price
             PROVE  request'[i].total = request[i].quoted
  OBVIOUS
<1>1. PICK data : request[i] \in RequestOf(data)
  BY RequestFields DEF QuotesInv, QuotesTyped
<1>2. request'[i] # request[i]
  OBVIOUS
<1>3. ~ (\E t \in Tab : TabStep(t))
  <2> SUFFICES ASSUME NEW t \in Tab, TabStep(t) PROVE FALSE
    OBVIOUS
  <2>1. CASE Submit(t)
    <3>1. PICK type \in OrderType, seat \in Seat :
              request' = Append(request, [at |-> "sent", basket |-> basket, lines |-> cart, type |-> type,
                                          seat |-> seat, quoted |-> Quoted(type), total |-> 0])
      BY <2>1 DEF Submit
    <3> DEFINE e == [at |-> "sent", basket |-> basket, lines |-> cart, type |-> type,
                     seat |-> seat, quoted |-> Quoted(type), total |-> 0]
    <3>2. e \in RequestOf({cart, type, seat, Quoted(type), 0})
      BY DEF RequestOf, QuotesInv, QuotesTyped
    <3>3. request' = Append(request, e)
      BY <3>1
    <3> HIDE DEF e
    <3>4. request'[i] = request[i]
      BY <3>2, <3>3, RequestAppended DEF QuotesInv, QuotesTyped
    <3>5. QED
      BY <1>2, <3>4
  <2>2. CASE UNCHANGED request
    BY <1>2, <2>2
  <2>3. QED
    BY <2>1, <2>2 DEF TabStep, OpenMenu, OpenSheet, CloseSheet, Unmount, LeavePage, FollowLink,
        PayOrFollow, Gone, Receive, Confirm, AddToCart, SetQuantity
<1>4. ~OwnerChanges
  BY <1>2 DEF OwnerChanges
<1>5. PICK j \in DOMAIN request : PlaceOrder(j) \/ LoseRequest(j) \/ LoseAnswer(j)
  BY <1>3, <1>4 DEF CheckoutNext
<1>6. j = i
  BY <1>2, <1>5, RequestFields DEF QuotesInv, QuotesTyped, PlaceOrder, LoseRequest, LoseAnswer, Settle
<1>7. Refused.at = "refused"
  BY DEF Refused
<1> DEFINE made == [request[i] EXCEPT !.at = "made", !.seat = Seated(request[i]),
                                      !.total = Charged(request[i]), !.lines = EmptyCart]
<1>8. made.total = Charged(request[i])
  BY <1>1 DEF RequestOf
<1>9. request'[i] = made
  BY <1>5, <1>6, <1>7 DEF PlaceOrder, LoseRequest, LoseAnswer, Settle
<1> HIDE DEF made
<1>10. Charged(request[i]) = request[i].quoted
  BY SameSum DEF QuotesInv, RequestsQuoted
<1>11. QED
  BY <1>8, <1>9, <1>10

\* A tab changes, and the requests, the basket and the cart do not.
LEMMA TabKeeps ==
    ASSUME QuotesInv, NEW t \in Tab, NEW d, NEW new \in TabOf(d), tab' = [tab EXCEPT ![t] = new],
           UNCHANGED <<request, basket, cart>>
    PROVE  QuotesInv'
<1>1. TabTyped'
  BY TabReplaced DEF QuotesInv, QuotesTyped
<1>2. QED
  BY <1>1 DEF QuotesInv, QuotesTyped, RequestTyped, CartTyped, RequestsQuoted

\* A basket changes by one line, of this quantity and price.
LEMMA CartKeeps ==
    ASSUME QuotesInv, NEW d \in Dish, NEW q \in Nat, NEW p,
           cart' = [cart EXCEPT ![d] = [quantity |-> q, price |-> p]]
    PROVE  CartTyped'
<1>1. PICK data : cart \in [Dish -> [quantity : Nat, price : data]]
  BY DEF QuotesInv, QuotesTyped, CartTyped
<1> DEFINE new == [quantity |-> q, price |-> p]
<1>2. /\ new \in [quantity : Nat, price : data \cup {p}]
      /\ [quantity : Nat, price : data] \subseteq [quantity : Nat, price : data \cup {p}]
  OBVIOUS
<1>3. cart' = [cart EXCEPT ![d] = new]
  OBVIOUS
<1> HIDE DEF new
<1>4. cart' \in [Dish -> [quantity : Nat, price : data \cup {p}]]
  BY <1>1, <1>2, <1>3
<1>5. QED
  BY <1>4 DEF CartTyped

LEMMA QuantityIs == QuotesInv => \A d \in Dish : cart[d].quantity \in Nat
BY DEF QuotesInv, QuotesTyped, CartTyped

LEMMA LineWith ==
    ASSUME QuotesInv, NEW d \in Dish, NEW q
    PROVE  [cart[d] EXCEPT !.quantity = q] = [quantity |-> q, price |-> cart[d].price]
<1>1. PICK data : cart[d] \in [quantity : Nat, price : data]
  BY DEF QuotesInv, QuotesTyped, CartTyped
<1>2. QED
  BY <1>1

\* The sheet quotes its basket's lines at their own prices, and sends both.
LEMMA SubmitQuotes ==
    ASSUME QuotesInv, NEW t \in Tab, Submit(t)
    PROVE  QuotesInv'
<1>1. PICK type \in OrderType, seat \in Seat :
          request' = Append(request, [at |-> "sent", basket |-> basket, lines |-> cart, type |-> type,
                                      seat |-> seat, quoted |-> Quoted(type), total |-> 0])
  BY DEF Submit
<1>2. UNCHANGED <<cart, basket>>
  BY DEF Submit
<1> DEFINE e == [at |-> "sent", basket |-> basket, lines |-> cart, type |-> type,
                 seat |-> seat, quoted |-> Quoted(type), total |-> 0]
<1>3. /\ e \in RequestOf({cart, type, seat, Quoted(type), 0})
      /\ e.at = "sent" /\ e.lines = cart /\ e.type = type /\ e.quoted = Quoted(type)
  BY DEF RequestOf, QuotesInv, QuotesTyped
<1>4. request' = Append(request, e)
  BY <1>1
<1> HIDE DEF e
<1>5. /\ RequestTyped' /\ Len(request) \in Nat
      /\ DOMAIN request = 1..Len(request) /\ DOMAIN request' = 1..(Len(request) + 1)
      /\ request'[Len(request) + 1] = e
      /\ \A i \in DOMAIN request : request'[i] = request[i]
  BY <1>3, <1>4, RequestAppended DEF QuotesInv, QuotesTyped
<1>6. e.quoted = Quote(e.lines, e.type)
  BY <1>3 DEF Quoted, Subtotal, Quote
<1>7. RequestsQuoted'
  <2>1. ASSUME NEW i \in DOMAIN request', request'[i].at = "sent"
        PROVE  request'[i].quoted = Quote(request'[i].lines, request'[i].type)
    <3>1. CASE i \in DOMAIN request
      BY <1>5, <2>1, <3>1 DEF QuotesInv, RequestsQuoted
    <3>2. CASE i = Len(request) + 1
      BY <1>5, <1>6, <3>2
    <3>3. QED
      BY <1>5, <2>1, <3>1, <3>2
  <2>2. QED
    BY <2>1 DEF RequestsQuoted, Quote, Lines, DeliveryFee
<1> DEFINE w == [tab[t] EXCEPT !.request = Len(request) + 1]
<1>8. PICK d : tab[t] \in TabOf(d)
  BY TabFields DEF QuotesInv, QuotesTyped
<1>9. w \in TabOf(d) /\ tab' = [tab EXCEPT ![t] = w]
  BY <1>5, <1>8 DEF TabOf, Submit
<1> HIDE DEF w
<1>10. TabTyped'
  BY <1>9, TabReplaced DEF QuotesInv, QuotesTyped
<1>11. QED
  BY <1>2, <1>5, <1>7, <1>10 DEF QuotesInv, QuotesTyped, CartTyped

\* The server settles a request, and none that it settles is under way any more.
LEMMA SettleQuotes ==
    ASSUME QuotesInv, NEW i \in DOMAIN request, PlaceOrder(i) \/ LoseRequest(i) \/ LoseAnswer(i)
    PROVE  QuotesInv'
<1>1. UNCHANGED <<cart, basket, tab>>
  BY DEF PlaceOrder, LoseRequest, LoseAnswer, Settle, PhoneUnchanged
<1>2. PICK d : request[i] \in RequestOf(d)
  BY RequestFields DEF QuotesInv, QuotesTyped
<1> DEFINE made == [request[i] EXCEPT !.at = "made", !.seat = Seated(request[i]),
                                      !.total = Charged(request[i]), !.lines = EmptyCart]
           unheard == [request[i] EXCEPT !.at = "unheard"]
<1>3. made \in RequestOf(d \cup {Seated(request[i]), Charged(request[i]), EmptyCart}) /\ made.at = "made"
  BY <1>2 DEF RequestOf
<1>4. unheard \in RequestOf(d) /\ unheard.at = "unheard"
  BY <1>2 DEF RequestOf
<1>5. Refused.at = "refused" /\ Refused \in RequestOf({EmptyCart, "TAKEAWAY", "scanned", 0})
  BY DEF Refused, RequestOf
<1>6. Settle(i, made) \/ Settle(i, unheard) \/ Settle(i, Refused)
  BY DEF PlaceOrder, LoseRequest, LoseAnswer
<1> HIDE DEF made, unheard
<1>7. PICK new : (\E data : new \in RequestOf(data)) /\ Settle(i, new) /\ new.at # "sent"
  BY <1>3, <1>4, <1>5, <1>6
<1>8. /\ RequestTyped' /\ DOMAIN request' = DOMAIN request /\ request'[i] = new
      /\ \A j \in DOMAIN request \ {i} : request'[j] = request[j]
  BY <1>7, RequestReplaced DEF QuotesInv, QuotesTyped, Settle
<1>9. RequestsQuoted'
  BY <1>7, <1>8 DEF QuotesInv, RequestsQuoted, Quote, Lines, DeliveryFee
<1>10. TabTyped' /\ CartTyped'
  BY <1>1 DEF QuotesInv, QuotesTyped, TabTyped, CartTyped
<1>11. QED
  BY <1>1, <1>8, <1>9, <1>10 DEF QuotesInv, QuotesTyped

LEMMA QuotesStep == QuotesInv /\ [CheckoutNext]_checkoutVars => QuotesInv'
<1> SUFFICES ASSUME QuotesInv, [CheckoutNext]_checkoutVars PROVE QuotesInv'
  OBVIOUS
<1>1. ASSUME UNCHANGED request, TabTyped', CartTyped', basket' \in Nat
      PROVE  QuotesInv'
  BY <1>1 DEF QuotesInv, QuotesTyped, RequestTyped, RequestsQuoted
<1>2. TabTyped /\ CartTyped /\ basket \in Nat
  BY DEF QuotesInv, QuotesTyped
<1>3. CASE UNCHANGED <<request, tab, cart, basket>>
  BY <1>1, <1>2, <1>3 DEF TabTyped, CartTyped
<1>4. ASSUME NEW t \in Tab, TabStep(t) PROVE QuotesInv'
  <2>0. PICK data : tab[t] \in TabOf(data)
    BY <1>2, TabFields
  <2>1. CASE OpenMenu(t)
    <3> DEFINE new == [Closed EXCEPT !.view = "menu", !.page = PageNow]
    <3>1. tab' = [tab EXCEPT ![t] = new] /\ UNCHANGED <<basket, request, cart>>
      BY <2>1 DEF OpenMenu
    <3>2. new \in TabOf({"menu", PageNow})
      BY DEF Closed, TabOf
    <3> HIDE DEF new
    <3>3. QED
      BY <3>1, <3>2, TabKeeps
  <2>2. CASE OpenSheet(t) \/ CloseSheet(t)
    <3>1. PICK view \in {"sheet", "fading"} : tab' = [tab EXCEPT ![t].view = view]
      BY <2>2 DEF OpenSheet, CloseSheet
    <3>2. UNCHANGED <<basket, request, cart>>
      BY <2>2 DEF OpenSheet, CloseSheet
    <3> DEFINE new == [tab[t] EXCEPT !.view = view]
    <3>3. new \in TabOf(data \cup {view})
      BY <2>0 DEF TabOf
    <3>4. tab' = [tab EXCEPT ![t] = new]
      BY <3>1
    <3> HIDE DEF new
    <3>5. QED
      BY <3>2, <3>3, <3>4, TabKeeps
  <2>3. CASE Unmount(t) \/ LeavePage(t) \/ FollowLink(t) \/ PayOrFollow(t)
    <3>1. PICK view \in {"menu", "away"} : Gone(t, view)
      BY <2>3 DEF Unmount, LeavePage, FollowLink, PayOrFollow
    <3> DEFINE new == [Closed EXCEPT !.view = view,
                                     !.page = IF view = "away" THEN @ ELSE tab[t].page]
    <3>2. tab' = [tab EXCEPT ![t] = new] /\ UNCHANGED <<basket, request, cart>>
      BY <3>1 DEF Gone
    <3>3. new \in TabOf({view, Closed.page, tab[t].page})
      BY DEF Closed, TabOf
    <3> HIDE DEF new
    <3>4. QED
      BY <3>2, <3>3, TabKeeps
  <2>4. CASE Submit(t)
    BY <2>4, SubmitQuotes
  <2>5. CASE Receive(t)
    <3> DEFINE new == [tab[t] EXCEPT !.request = 0,
                          !.placed = IF request[tab[t].request].at = "made" THEN tab[t].request ELSE 0]
    <3>1. tab' = [tab EXCEPT ![t] = new] /\ UNCHANGED <<basket, request, cart>>
      BY <2>5 DEF Receive
    <3>2. new \in TabOf(data)
      BY <2>0 DEF TabOf
    <3> HIDE DEF new
    <3>3. QED
      BY <3>1, <3>2, TabKeeps
  <2>6. CASE Confirm(t)
    <3>1. PICK view \in {"menu", "pay"} :
              tab' = [tab EXCEPT ![t] = [@ EXCEPT !.placed = 0, !.view = view]]
      BY <2>6 DEF Confirm
    <3> DEFINE new == [tab[t] EXCEPT !.placed = 0, !.view = view]
    <3>2. UNCHANGED request /\ basket' = basket + 1 /\ (cart' = EmptyCart \/ cart' = cart)
      BY <2>6 DEF Confirm, SetCart
    <3>3. tab' = [tab EXCEPT ![t] = new]
      BY <3>1
    <3>4. new \in TabOf(data \cup {view})
      BY <2>0 DEF TabOf
    <3> HIDE DEF new
    <3>5. TabTyped'
      BY <1>2, <3>3, <3>4, TabReplaced
    <3>6. CartTyped'
      <4>1. CASE cart' = EmptyCart
        <5>1. NoLine \in [quantity : Nat, price : {0}]
          BY DEF NoLine
        <5>2. QED
          BY <4>1, <5>1 DEF EmptyCart, CartTyped
      <4>2. QED
        BY <1>2, <3>2, <4>1 DEF CartTyped
    <3>7. QED
      BY <1>1, <1>2, <3>2, <3>5, <3>6
  <2>7. ASSUME NEW d \in Dish, AddToCart(t, d) \/ SetQuantity(t, d) PROVE QuotesInv'
    <3>1. UNCHANGED <<basket, request, tab>>
      BY <2>7 DEF AddToCart, SetQuantity
    <3>2. cart[d].quantity \in Nat
      BY QuantityIs
    <3>3. cart' = cart \/ \E q \in Nat : \E p : cart' = [cart EXCEPT ![d] = [quantity |-> q, price |-> p]]
      <4>1. CASE AddToCart(t, d)
        <5>1. cart[d].quantity + 1 \in Nat
          BY <3>2
        <5>2. QED
          BY <4>1, <5>1 DEF AddToCart, SetCart, Added
      <4>2. CASE SetQuantity(t, d)
        <5>1. PICK q \in DishSheetGives(t, d) \cup CheckoutGives(t, d) : SetCart(WithQuantity(d, q))
          BY <4>2 DEF SetQuantity
        <5>2. cart[d].quantity > 0 /\ q \in {cart[d].quantity - 1, cart[d].quantity + 1}
          BY <5>1 DEF DishSheetGives, CheckoutGives
        <5>3. q \in Nat
          BY <3>2, <5>2
        <5>4. WithQuantity(d, q) = [cart EXCEPT ![d] = [quantity |-> q, price |-> IF q = 0 THEN 0
                                                                                  ELSE cart[d].price]]
          BY LineWith DEF WithQuantity, NoLine
        <5>5. QED
          BY <5>1, <5>3, <5>4 DEF SetCart
      <4>3. QED
        BY <2>7, <4>1, <4>2
    <3>4. CartTyped'
      BY <1>2, <3>3, CartKeeps DEF CartTyped
    <3>5. QED
      BY <1>1, <1>2, <3>1, <3>4 DEF TabTyped
  <2>8. QED
    BY <1>4, <2>1, <2>2, <2>3, <2>4, <2>5, <2>6, <2>7 DEF TabStep
<1>5. OwnerChanges => UNCHANGED <<request, tab, cart, basket>>
  BY DEF OwnerChanges, PhoneUnchanged
<1>6. QED
  BY <1>3, <1>4, <1>5, SettleQuotes DEF CheckoutNext, checkoutVars

-------------------------------------------------------------------------------
(* Checkout: the types of what the phone keeps and the page shows. A request's   *)
(* length is that of the invariant above.                                     *)

\* The menu starts at the lowest of its prices, which there is: `<` is
\* well-founded.
LEMMA LeastPrice == Min(Price) \in Price
<1> DEFINE Less == {ss \in Nat \X Nat : ss[1] < ss[2]}
<1>1. Price \subseteq Nat /\ Price # {}
  BY PriceType
<1>2. OpToRel(<, Nat) = Less
  BY Zenon DEF OpToRel
<1>3. \A x, y \in Price : <<y, x>> \notin Less => x <= y
  BY <1>1
<1> HIDE DEF Less
<1>4. \E x \in Price : \A y \in Price : <<y, x>> \notin Less
  BY <1>1, <1>2, NatLessThanWellFounded, WFMin, Zenon
<1>5. \E x \in Price : \A y \in Price : x <= y
  BY <1>3, <1>4
<1>6. QED
  BY <1>5 DEF Min

LEMMA LengthKept ==
    ASSUME RequestTyped, RequestTyped', DOMAIN request' = DOMAIN request
    PROVE  Len(request') = Len(request)
<1>1. /\ Len(request) \in Nat /\ Len(request') \in Nat
      /\ DOMAIN request = 1..Len(request) /\ DOMAIN request' = 1..Len(request')
  BY RequestFields DEF RequestTyped
<1>2. QED
  BY <1>1

PageState == [Dish -> Price \cup {0}]
LineState == [quantity : 0..MaxQuantity, price : Price \cup {0}]
TabView == {"away", "menu", "sheet", "fading", "pay"}

DinerTyped ==
    /\ dish \in [Dish -> [price : Price, on : BOOLEAN]] /\ seats \subseteq Seat
    /\ cart \in [Dish -> LineState]
    /\ activeOrder \in 0..Len(request)
    /\ tab \in [Tab -> [view : TabView, page : PageState,
                        request : 0..Len(request), placed : 0..Len(request)]]

TabState(n) == [view : TabView, page : PageState, request : 0..n, placed : 0..n]

LEMMA TabWidens ==
    ASSUME NEW m \in Nat, NEW n \in Nat, m <= n
    PROVE  TabState(m) \subseteq TabState(n) /\ 0..m \subseteq 0..n
BY DEF TabState

LEMMA DinerInit == CheckoutInit => DinerTyped
<1> SUFFICES ASSUME CheckoutInit PROVE DinerTyped
  OBVIOUS
<1>1. Len(request) = 0
  BY DEF CheckoutInit
<1>2. NoLine \in LineState
  BY CheckoutBounds DEF NoLine, LineState
<1>3. Closed \in TabState(0)
  BY DEF Closed, TabState, TabView, PageState
<1>4. dish \in [Dish -> [price : Price, on : BOOLEAN]]
  <2>1. \A d \in [price : {Min(Price)}, on : {TRUE}] : d \in [price : Price, on : BOOLEAN]
    BY LeastPrice
  <2>2. dish \in [Dish -> [price : {Min(Price)}, on : {TRUE}]]
    BY DEF CheckoutInit
  <2>3. QED
    BY <2>1, <2>2
<1>5. tab \in [Tab -> TabState(Len(request))]
  BY <1>1, <1>3 DEF CheckoutInit
<1>6. QED
  BY <1>1, <1>2, <1>4, <1>5 DEF DinerTyped, CheckoutInit, TabState, Seat

\* What a diner's tab, the phone and the owner do, one at a time.
LEMMA DinerKept ==
    ASSUME QuotesInv, DinerTyped, NEW n \in Nat, n = Len(request'), Len(request) <= n,
           dish' \in [Dish -> [price : Price, on : BOOLEAN]], seats' \subseteq Seat,
           cart' \in [Dish -> LineState],
           activeOrder' \in 0..n,
           tab' = tab \/ \E t \in Tab : \E new \in TabState(n) : tab' = [tab EXCEPT ![t] = new]
    PROVE  DinerTyped'
<1>1. Len(request) \in Nat
  BY RequestFields DEF QuotesInv, QuotesTyped
<1>2. tab \in [Tab -> TabState(Len(request))]
  BY DEF DinerTyped, TabState
<1>3. tab \in [Tab -> TabState(n)]
  BY <1>1, <1>2, TabWidens
<1>4. tab' \in [Tab -> TabState(n)]
  BY <1>3
<1>5. QED
  BY <1>4 DEF DinerTyped, TabState

LEMMA DinerStep ==
    ASSUME QuotesInv, QuotesInv', DinerTyped, [CheckoutNext]_checkoutVars
    PROVE  DinerTyped'
<1> DEFINE n == Len(request)
           DishType == [Dish -> [price : Price, on : BOOLEAN]]
<1>1. /\ RequestTyped /\ RequestTyped' /\ n \in Nat /\ DOMAIN request = 1..n
  BY RequestFields DEF QuotesInv, QuotesTyped
<1>2. /\ dish \in DishType /\ seats \subseteq Seat /\ cart \in [Dish -> LineState]
      /\ activeOrder \in 0..n /\ tab \in [Tab -> TabState(n)]
  BY DEF DinerTyped, TabState
<1>3. /\ Closed \in TabState(n) /\ Closed.page \in PageState /\ Closed.request = 0 /\ Closed.placed = 0
      /\ PageNow \in PageState
  BY <1>1, <1>2 DEF Closed, TabState, TabView, PageState, PageNow
<1>4. EmptyCart \in [Dish -> LineState] /\ NoLine \in LineState
  BY CheckoutBounds DEF EmptyCart, NoLine, LineState
<1> HIDE DEF n, DishType
\* Steps that post nothing and leave the menu alone.
<1>5. ASSUME UNCHANGED <<dish, seats, request>>, cart' \in [Dish -> LineState], activeOrder' \in 0..n,
             tab' = tab \/ \E t \in Tab : \E new \in TabState(n) : tab' = [tab EXCEPT ![t] = new]
      PROVE  DinerTyped'
  <2>1. n = Len(request) /\ n = Len(request') /\ Len(request) <= n /\ dish' \in DishType
    BY <1>1, <1>2, <1>5 DEF n
  <2>2. QED
    BY <1>1, <1>2, <1>5, <2>1, DinerKept DEF DishType
<1>6. CASE UNCHANGED checkoutVars
  BY <1>2, <1>5, <1>6 DEF checkoutVars
<1>7. ASSUME NEW t \in Tab, TabStep(t) PROVE DinerTyped'
  <2>1. tab[t] \in TabState(n)
    BY <1>2
  <2>2. ASSUME NEW view \in TabView, Gone(t, view) PROVE DinerTyped'
    <3>1. [Closed EXCEPT !.view = view, !.page = IF view = "away" THEN @ ELSE tab[t].page] \in TabState(n)
      BY <1>3, <2>1 DEF TabState
    <3>2. QED
      BY <1>2, <1>5, <2>2, <3>1 DEF Gone, OwnerUnchanged
  <2>3. CASE OpenMenu(t)
    <3>1. [Closed EXCEPT !.view = "menu", !.page = PageNow] \in TabState(n)
      BY <1>3 DEF TabState, TabView
    <3>2. QED
      BY <1>2, <1>5, <2>3, <3>1 DEF OpenMenu, OwnerUnchanged
  <2>4. CASE OpenSheet(t) \/ CloseSheet(t)
    <3>1. PICK view \in {"sheet", "fading"} : tab' = [tab EXCEPT ![t] = [@ EXCEPT !.view = view]]
      BY <2>4 DEF OpenSheet, CloseSheet
    <3>2. [tab[t] EXCEPT !.view = view] \in TabState(n)
      BY <2>1 DEF TabState, TabView
    <3>3. tab' = [tab EXCEPT ![t] = [tab[t] EXCEPT !.view = view]]
      BY <3>1
    <3>4. QED
      BY <1>2, <1>5, <2>4, <3>2, <3>3 DEF OpenSheet, CloseSheet, OwnerUnchanged
  <2>5. CASE Unmount(t) \/ LeavePage(t) \/ FollowLink(t) \/ PayOrFollow(t)
    BY <2>2, <2>5 DEF Unmount, LeavePage, FollowLink, PayOrFollow, TabView
  <2>6. CASE Submit(t)
    <3>1. PICK e : request' = Append(request, e)
      BY <2>6 DEF Submit
    <3>2. Len(request') = n + 1
      BY <1>1, <3>1 DEF RequestTyped, n
    <3>3. n + 1 \in Nat /\ n <= n + 1 /\ n + 1 \in 0..(n + 1) /\ 0..n \subseteq 0..(n + 1)
      BY <1>1
    <3>4. [tab[t] EXCEPT !.request = n + 1] \in TabState(n + 1)
      <4>1. tab[t] \in TabState(n + 1)
        BY <1>1, <2>1, <3>3, TabWidens
      <4>2. QED
        BY <3>3, <4>1 DEF TabState
    <3>5. tab' = [tab EXCEPT ![t] = [tab[t] EXCEPT !.request = n + 1]]
      BY <2>6 DEF Submit, n
    <3>6. UNCHANGED <<dish, seats, cart, activeOrder>>
      BY <2>6 DEF Submit, OwnerUnchanged
    <3>7. QED
      BY <1>2, <3>2, <3>3, <3>4, <3>5, <3>6, DinerKept DEF n, DishType
  <2>7. CASE Receive(t)
    <3>1. tab[t].request \in 0..n
      BY <2>1 DEF TabState
    <3>2. PICK placed \in {0, tab[t].request} : tab' = [tab EXCEPT ![t] = [@ EXCEPT !.request = 0, !.placed = placed]]
      BY <2>7 DEF Receive
    <3>3. [tab[t] EXCEPT !.request = 0, !.placed = placed] \in TabState(n)
      <4>1. 0 \in 0..n /\ placed \in 0..n
        BY <1>1, <3>1
      <4>2. QED
        BY <2>1, <4>1 DEF TabState
    <3>4. tab' = [tab EXCEPT ![t] = [tab[t] EXCEPT !.request = 0, !.placed = placed]]
      BY <3>2
    <3>5. QED
      BY <1>2, <1>5, <2>7, <3>3, <3>4 DEF Receive, OwnerUnchanged
  <2>8. CASE Confirm(t)
    <3>1. PICK view \in {"menu", "pay"} : tab' = [tab EXCEPT ![t] = [@ EXCEPT !.placed = 0, !.view = view]]
      BY <2>8 DEF Confirm
    <3>2. [tab[t] EXCEPT !.placed = 0, !.view = view] \in TabState(n)
      <4>1. 0 \in 0..n /\ view \in TabView
        BY <1>1 DEF TabView
      <4>2. QED
        BY <2>1, <4>1 DEF TabState
    <3>3. activeOrder' \in 0..n
      BY <1>2, <2>1, <2>8 DEF Confirm, Remembered, TabState
    <3>4. cart' \in [Dish -> LineState]
      BY <1>2, <1>4, <2>8 DEF Confirm, SetCart
    <3>5. tab' = [tab EXCEPT ![t] = [tab[t] EXCEPT !.placed = 0, !.view = view]]
      BY <3>1
    <3>6. QED
      BY <1>5, <2>8, <3>2, <3>3, <3>4, <3>5 DEF Confirm, OwnerUnchanged
  <2>9. ASSUME NEW d \in Dish, AddToCart(t, d) PROVE DinerTyped'
    <3>1. cart[d] \in LineState /\ tab[t].page[d] \in Price \cup {0} /\ cart[d].quantity < MaxQuantity
      BY <1>2, <2>1, <2>9 DEF TabState, PageState, AddToCart
    <3>2. [quantity |-> cart[d].quantity + 1,
           price |-> IF cart[d].quantity = 0 THEN tab[t].page[d] ELSE cart[d].price] \in LineState
      <4>1. cart[d].quantity + 1 \in 0..MaxQuantity
        BY <3>1, CheckoutBounds DEF LineState
      <4>2. QED
        BY <3>1, <4>1 DEF LineState
    <3>3. Added(t, d) \in [Dish -> LineState]
      BY <1>2, <3>2 DEF Added
    <3>4. QED
      BY <1>2, <1>5, <2>9, <3>3 DEF AddToCart, SetCart, OwnerUnchanged
  <2>10. ASSUME NEW d \in Dish, SetQuantity(t, d) PROVE DinerTyped'
    <3>1. PICK q \in DishSheetGives(t, d) \cup CheckoutGives(t, d) :
              q <= MaxQuantity /\ SetCart(WithQuantity(d, q))
      BY <2>10 DEF SetQuantity
    <3>2. cart[d] \in LineState /\ cart[d].quantity > 0
      BY <1>2, <3>1 DEF DishSheetGives, CheckoutGives
    <3>3. q \in 0..MaxQuantity
      BY <3>1, <3>2, CheckoutBounds DEF DishSheetGives, CheckoutGives, LineState
    <3>4. [cart[d] EXCEPT !.quantity = q] \in LineState
      BY <3>2, <3>3 DEF LineState
    <3>5. WithQuantity(d, q) \in [Dish -> LineState]
      BY <1>2, <1>4, <3>4 DEF WithQuantity
    <3>6. QED
      BY <1>2, <1>5, <2>10, <3>1, <3>5 DEF SetQuantity, SetCart, OwnerUnchanged
  <2>11. QED
    BY <1>7, <2>3, <2>4, <2>5, <2>6, <2>7, <2>8, <2>9, <2>10 DEF TabStep
<1>8. ASSUME NEW i \in DOMAIN request, PlaceOrder(i) \/ LoseRequest(i) \/ LoseAnswer(i) PROVE DinerTyped'
  <2>1. PICK new : Settle(i, new)
    BY <1>8 DEF PlaceOrder, LoseRequest, LoseAnswer
  <2>2. Len(request') = n
    BY <1>1, <2>1, LengthKept DEF Settle, n
  <2>3. UNCHANGED <<dish, seats, cart, activeOrder, tab>>
    BY <2>1 DEF Settle, PhoneUnchanged, OwnerUnchanged
  <2>4. n = Len(request) /\ Len(request) <= n
    BY <1>1 DEF n
  <2>5. QED
    BY <1>1, <1>2, <2>2, <2>3, <2>4, DinerKept DEF DishType
<1>9. CASE OwnerChanges
  <2>1. UNCHANGED <<request, cart, activeOrder, tab>>
    BY <1>9 DEF OwnerChanges, PhoneUnchanged
  <2>2. dish' \in DishType /\ seats' \subseteq Seat
    <3>1. \A d \in Dish : dish[d] \in [price : Price, on : BOOLEAN]
      BY <1>2 DEF DishType
    <3>2. \A d \in Dish, p \in Price : [dish[d] EXCEPT !.price = p] \in [price : Price, on : BOOLEAN]
      BY <3>1
    <3>3. \A d \in Dish : [dish[d] EXCEPT !.on = ~@] \in [price : Price, on : BOOLEAN]
      BY <3>1
    <3>4. CASE \E s \in seats : seats' = seats \ {s} /\ UNCHANGED dish
      BY <1>2, <3>4
    <3>5. CASE UNCHANGED seats /\ \E d \in Dish : dish' = [dish EXCEPT ![d].on = ~@]
      BY <1>2, <3>3, <3>5 DEF DishType
    <3>6. CASE UNCHANGED seats /\ \E d \in Dish, p \in Price : dish' = [dish EXCEPT ![d].price = p]
      BY <1>2, <3>2, <3>6 DEF DishType
    <3>7. QED
      BY <1>9, <3>4, <3>5, <3>6 DEF OwnerChanges
  <2>3. n = Len(request) /\ n = Len(request') /\ Len(request) <= n
    BY <1>1, <2>1 DEF n
  <2>4. QED
    BY <1>1, <1>2, <2>1, <2>2, <2>3, DinerKept DEF DishType
<1>10. QED
  BY <1>6, <1>7, <1>8, <1>9 DEF CheckoutNext

LEMMA DinerTypes == QuotesInv /\ DinerTyped => CheckoutTypeOK
<1> SUFFICES ASSUME QuotesInv, DinerTyped PROVE CheckoutTypeOK
  OBVIOUS
<1>1. \A r \in DOMAIN request : request[r].at \in {"sent", "made", "refused", "unheard"}
  BY RequestFields DEF QuotesInv, QuotesTyped, RequestOf
<1>2. QED
  BY <1>1 DEF DinerTyped, CheckoutTypeOK, LineState, TabView

-------------------------------------------------------------------------------
(* Tables and locations                                                       *)

Status == {"TRIALING", "ACTIVE", "CANCELED", "PAST_DUE"}
MakerState ==
    [at : {"unused", "page", "count", "create"}, form : Form, offers : SUBSET Form,
     plan : PLAN_IDS, status : Status, from : Nat, to : Nat]

FloorTyped ==
    /\ plan \in [plan : PLAN_IDS, status : Status]
    /\ table \in [Label -> {"none", "live", "deleted"}]
    /\ locations \in Nat
    /\ maker \in [Maker -> MakerState]

Fits(limit, count) == limitFor(plan, limit) = Unlimited \/ count <= limitFor(plan, limit)

MakesRows(m) == maker[m].at = "create" /\ MakesTables(m)
MakesChecked(m) == maker[m].at = "create" /\ maker[m].form = "menuLocation"

\* Whoever creates tables is alone, on the plan of today, and has room for the rest.
TablesFit == Fits("tables", Cardinality(LiveTables))
RowsFit == \A m \in Maker : MakesRows(m) => Fits("tables", Cardinality(LiveTables) + Adding(m))
OneMakesRows == \A m, o \in Maker : MakesRows(m) /\ MakesRows(o) => m = o
TablesOK == TablesFit /\ RowsFit /\ OneMakesRows

\* The same of locations, one at a time, by whoever was counted.
LocationsFit == Fits("locations", locations)
CheckedFit == \A m \in Maker : MakesChecked(m) => Fits("locations", locations + 1)
OneMakesChecked == \A m, o \in Maker : MakesChecked(m) /\ MakesChecked(o) => m = o
LocationsOK == LocationsFit /\ CheckedFit /\ OneMakesChecked

SamePlan == \A m \in Maker : maker[m].at = "count" => effectivePlan(maker[m]) = effectivePlan(plan)

FloorInv ==
    /\ FloorTyped
    /\ "planChanged" \notin excuse => SamePlan
    /\ excuse \cap {"overlap", "planChanged"} = {} => TablesOK
    /\ excuse = {} => LocationsOK

LEMMA LimitsAre ==
    ASSUME NEW p
    PROVE  /\ limitFor(p, "tables") \in {10, Unlimited}
           /\ limitFor(p, "locations") \in {1, 3, Unlimited}
           /\ limitFor(p, "tables") \in Int /\ limitFor(p, "locations") \in Int
<1>1. effectivePlan(p) \in {"FREE", "SMART", "PRO"}
  BY DEF effectivePlan, PLAN_IDS
<1>2. QED
  BY <1>1 DEF limitFor, PLANS, Unlimited

LEMMA TablesCounted ==
    ASSUME FloorTyped
    PROVE  /\ IsFiniteSet(LiveTables) /\ Cardinality(LiveTables) \in Nat
           /\ \A m \in Maker : Adding(m) \in Nat
<1>1. LiveTables \in SUBSET Label
  BY DEF LiveTables
<1>2. IsFiniteSet(LiveTables)
  BY <1>1, SettledFits, FS_Subset
<1>3. ASSUME NEW m \in Maker PROVE Adding(m) \in Nat
  <2>1. maker[m].from \in Nat /\ maker[m].to \in Nat
    BY DEF FloorTyped, MakerState
  <2>2. QED
    BY <2>1 DEF Adding
<1>4. QED
  BY <1>2, <1>3, FS_CardinalityType

LEMMA TablesKept ==
    ASSUME LiveTables' = LiveTables, plan' = plan,
           \A o \in Maker : MakesRows(o)' => MakesRows(o) /\ Adding(o)' = Adding(o)
    PROVE  TablesOK => TablesOK'
<1>1. TablesFit => TablesFit'
  BY DEF TablesFit, Fits
<1>2. RowsFit => RowsFit'
  BY DEF RowsFit, Fits
<1>3. OneMakesRows => OneMakesRows'
  BY DEF OneMakesRows
<1>4. QED
  BY <1>1, <1>2, <1>3 DEF TablesOK

LEMMA LocationsKept ==
    ASSUME plan' = plan, locations' = locations,
           \A o \in Maker : MakesChecked(o)' => MakesChecked(o)
    PROVE  LocationsOK => LocationsOK'
<1>1. LocationsFit => LocationsFit'
  BY DEF LocationsFit, Fits
<1>2. CheckedFit => CheckedFit'
  BY DEF CheckedFit, Fits
<1>3. OneMakesChecked => OneMakesChecked'
  BY DEF OneMakesChecked
<1>4. QED
  BY <1>1, <1>2, <1>3 DEF LocationsOK

LEMMA FloorInitInv == FloorInit => FloorInv
<1> SUFFICES ASSUME FloorInit PROVE FloorInv
  OBVIOUS
<1>1. PICK n \in Settled \cup {0} :
          /\ table = [l \in Label |-> IF l <= n THEN "live" ELSE "none"]
          /\ locations = IF n = 0 THEN 0 ELSE 1
  BY DEF FloorInit
<1>2. plan = [plan |-> "FREE", status |-> "TRIALING"] /\ maker = [m \in Maker |-> Blank]
  BY DEF FloorInit
<1>3. Blank \in MakerState /\ Blank.at = "unused"
  BY DEF Blank, MakerState, Form, FirstForms, PLAN_IDS, Status
<1>4. FloorTyped
  BY <1>1, <1>2, <1>3 DEF FloorTyped, PLAN_IDS, Status
<1>5. LiveTables = {l \in Label : l <= n}
  BY <1>1 DEF LiveTables
<1>6. effectivePlan(plan) = "FREE"
  BY <1>2 DEF effectivePlan, PLAN_IDS
<1>7. /\ limitFor(plan, "tables") = PLANS["FREE"].tables /\ limitFor(plan, "locations") = 1
  BY <1>6 DEF limitFor, PLANS
<1>8. Fits("tables", Cardinality(LiveTables)) /\ Fits("locations", locations)
  BY <1>1, <1>5, <1>7, SettledFits DEF Fits
<1>9. \A m \in Maker : maker[m].at = "unused"
  BY <1>2, <1>3
<1>10. QED
  BY <1>4, <1>8, <1>9 DEF FloorInv, TablesOK, TablesFit, RowsFit, OneMakesRows, LocationsOK, LocationsFit, CheckedFit, OneMakesChecked,
      SamePlan, MakesRows, MakesChecked

\* A maker's step that creates nothing, and takes on nothing it may not.
LEMMA MakerKeeps ==
    ASSUME FloorInv, NEW m \in Maker, NEW new \in MakerState, maker' = [maker EXCEPT ![m] = new],
           UNCHANGED <<plan, table, locations>>, excuse \subseteq excuse',
           new.at = "count" => effectivePlan(new) = effectivePlan(plan),
           new.at # "create" \/ new.form = "tablesLocation"
    PROVE  FloorInv'
<1>1. maker'[m] = new /\ \A o \in Maker \ {m} : maker'[o] = maker[o]
  BY DEF FloorInv, FloorTyped
<1>2. FloorTyped'
  BY DEF FloorInv, FloorTyped
<1>3. /\ ~MakesRows(m)' /\ ~MakesChecked(m)'
      /\ \A o \in Maker \ {m} : /\ MakesRows(o)' <=> MakesRows(o)
                                /\ MakesChecked(o)' <=> MakesChecked(o)
                                /\ Adding(o)' = Adding(o)
  BY <1>1 DEF MakesRows, MakesChecked, MakesTables, Adding
<1>4. LiveTables' = LiveTables /\ plan' = plan /\ locations' = locations
  BY DEF LiveTables
<1>5. TablesOK => TablesOK'
  BY <1>3, <1>4, TablesKept DEF MakesRows, MakesChecked, MakesTables, Adding
<1>6. LocationsOK => LocationsOK'
  BY <1>3, <1>4, LocationsKept DEF MakesRows, MakesChecked, MakesTables, Adding
<1>7. SamePlan => SamePlan'
  BY <1>1 DEF SamePlan
<1>8. QED
  BY <1>2, <1>5, <1>6, <1>7 DEF FloorInv

LEMMA CountKeeps ==
    ASSUME FloorInv, NEW m \in Maker, Count(m)
    PROVE  FloorInv'
<1> DEFINE room == IF MakesTables(m)
                   THEN CanCreate(maker[m], "tables", Cardinality(LiveTables), Adding(m))
                   ELSE CanCreate(maker[m], "locations", locations, 1)
           others == {o \in Maker \ {m} : maker[o].at = "create" /\ MakesTables(o) = MakesTables(m)}
           new == [maker[m] EXCEPT !.at = "create"]
<1>1. /\ maker[m].at = "count" /\ UNCHANGED <<plan, table, locations>>
      /\ maker' = [maker EXCEPT ![m] = IF room THEN [@ EXCEPT !.at = "create"] ELSE Blank]
      /\ excuse' = IF room /\ others # {} THEN excuse \cup {"overlap"} ELSE excuse
  BY DEF Count
<1>2. Blank \in MakerState /\ Blank.at = "unused"
  BY DEF Blank, MakerState, Form, FirstForms, PLAN_IDS, Status
<1>3. CASE ~room
  <2>1. maker' = [maker EXCEPT ![m] = Blank]
    BY <1>1, <1>3
  <2>2. QED
    BY <1>1, <1>2, <2>1, MakerKeeps
<1>4. CASE room
  <2>1. maker[m] \in MakerState
    BY DEF FloorInv, FloorTyped
  <2>2. /\ new \in MakerState /\ new.at = "create" /\ new.form = maker[m].form
        /\ new.from = maker[m].from /\ new.to = maker[m].to
    BY <2>1 DEF MakerState
  <2>3. maker' = [maker EXCEPT ![m] = new] /\ excuse \subseteq excuse'
    BY <1>1, <1>4
  <2> HIDE DEF new
  <2>4. maker'[m] = new /\ \A o \in Maker \ {m} : maker'[o] = maker[o]
    BY <2>3 DEF FloorInv, FloorTyped
  <2>5. FloorTyped'
    BY <1>1, <2>2, <2>3 DEF FloorInv, FloorTyped
  <2>6. /\ \A o \in Maker \ {m} : /\ MakesRows(o)' <=> MakesRows(o)
                                  /\ MakesChecked(o)' <=> MakesChecked(o)
        /\ \A o \in Maker : Adding(o)' = Adding(o)
        /\ MakesRows(m)' <=> MakesTables(m)
        /\ MakesChecked(m)' <=> maker[m].form = "menuLocation"
    BY <2>2, <2>4 DEF MakesRows, MakesChecked, MakesTables, Adding
  <2>7. LiveTables' = LiveTables /\ plan' = plan
    BY <1>1 DEF LiveTables
  <2>8. SamePlan => SamePlan'
    BY <1>1, <2>2, <2>4 DEF SamePlan
  <2>9. ASSUME excuse' \cap {"overlap", "planChanged"} = {} PROVE TablesOK'
    <3>1. others = {} /\ TablesOK /\ effectivePlan(maker[m]) = effectivePlan(plan)
      BY <1>1, <1>4, <2>3, <2>9 DEF FloorInv, SamePlan
    <3>2. MakesTables(m) => Fits("tables", Cardinality(LiveTables) + Adding(m))
      BY <1>4, <3>1 DEF CanCreate, Fits, limitFor
    <3>3. MakesTables(m) => \A o \in Maker \ {m} : ~MakesRows(o)
      BY <3>1 DEF MakesRows, MakesTables
    <3>4. TablesFit' /\ RowsFit'
      BY <2>6, <2>7, <3>1, <3>2 DEF TablesOK, TablesFit, RowsFit, Fits,
              MakesRows, MakesTables, Adding
    <3>5. OneMakesRows'
      BY <2>6, <3>1, <3>3 DEF TablesOK, OneMakesRows, MakesRows, MakesTables
    <3>6. QED
      BY <3>4, <3>5 DEF TablesOK
  <2>10. ASSUME excuse' = {} PROVE LocationsOK'
    <3>1. others = {} /\ LocationsOK /\ effectivePlan(maker[m]) = effectivePlan(plan)
      BY <1>1, <1>4, <2>3, <2>10 DEF FloorInv, SamePlan
    <3>2. maker[m].form = "menuLocation" => ~MakesTables(m)
      BY DEF MakesTables
    <3>3. maker[m].form = "menuLocation" => Fits("locations", locations + 1)
      BY <1>4, <3>1, <3>2 DEF CanCreate, Fits, limitFor
    <3>4. maker[m].form = "menuLocation" => \A o \in Maker \ {m} : ~MakesChecked(o)
      BY <3>1, <3>2 DEF MakesChecked, MakesTables
    <3>5. locations' = locations
      BY <1>1
    <3>6. LocationsFit' /\ CheckedFit'
      BY <2>6, <2>7, <3>1, <3>3, <3>5 DEF LocationsOK, LocationsFit, CheckedFit, Fits,
              MakesChecked
    <3>7. OneMakesChecked'
      BY <2>6, <3>1, <3>4 DEF LocationsOK, OneMakesChecked, MakesChecked
    <3>8. QED
      BY <3>6, <3>7 DEF LocationsOK
  <2>11. QED
    BY <2>3, <2>5, <2>8, <2>9, <2>10 DEF FloorInv
<1>5. QED
  BY <1>3, <1>4

LEMMA CreateLocationKeeps ==
    ASSUME FloorInv, NEW m \in Maker, CreateLocation(m)
    PROVE  FloorInv'
<1>1. /\ maker[m].at = "create" /\ ~MakesTables(m) /\ locations' = locations + 1
      /\ maker' = [maker EXCEPT ![m] = Blank] /\ UNCHANGED <<plan, table>>
      /\ excuse \subseteq excuse'
  BY DEF CreateLocation
<1>2. Blank \in MakerState /\ Blank.at = "unused"
  BY DEF Blank, MakerState, Form, FirstForms, PLAN_IDS, Status
<1>3. maker'[m] = Blank /\ \A o \in Maker \ {m} : maker'[o] = maker[o]
  BY <1>1 DEF FloorInv, FloorTyped
<1>4. FloorTyped'
  BY <1>1, <1>2 DEF FloorInv, FloorTyped
<1>5. /\ ~MakesRows(m)' /\ ~MakesChecked(m)'
      /\ \A o \in Maker \ {m} : /\ MakesRows(o)' <=> MakesRows(o)
                                /\ MakesChecked(o)' <=> MakesChecked(o)
                                /\ Adding(o)' = Adding(o)
  BY <1>2, <1>3 DEF MakesRows, MakesChecked, MakesTables, Adding
<1>6. LiveTables' = LiveTables /\ plan' = plan
  BY <1>1 DEF LiveTables
<1>7. SamePlan => SamePlan'
  BY <1>1, <1>2, <1>3 DEF SamePlan
<1>8. TablesOK => TablesOK'
  BY <1>5, <1>6, TablesKept DEF MakesRows, MakesChecked, MakesTables, Adding
<1>9. ASSUME excuse' = {} PROVE LocationsOK'
  <2>1. LocationsOK /\ maker[m].form \in {"menuLocation", "tablesLocation"}
    BY <1>1, <1>9 DEF FloorInv, FloorTyped, MakerState, Form, FirstForms, MakesTables
  <2>2. CASE maker[m].form = "menuLocation"
    <3>1. Fits("locations", locations + 1) /\ \A o \in Maker \ {m} : ~MakesChecked(o)
      BY <1>1, <2>1, <2>2 DEF LocationsOK, CheckedFit, OneMakesChecked, MakesChecked
    <3>2. \A o \in Maker : ~MakesChecked(o)'
      BY <1>5, <3>1 DEF MakesChecked
    <3>3. LocationsFit'
      BY <1>1, <3>1 DEF LocationsFit, Fits
    <3>4. QED
      BY <3>2, <3>3 DEF LocationsOK, CheckedFit, OneMakesChecked, MakesChecked
  <2>3. CASE maker[m].form = "tablesLocation"
    <3>1. locations = 0 /\ \A o \in Maker \ {m} : ~(maker[o].at = "create" /\ ~MakesTables(o))
      BY <1>9, <2>3 DEF CreateLocation
    <3>2. \A o \in Maker \ {m} : ~MakesChecked(o)
      BY <3>1 DEF MakesChecked, MakesTables
    <3>3. LocationsFit'
      <4>1. locations' = 1 /\ plan' = plan
        BY <1>1, <3>1
      <4>2. limitFor(plan, "locations") \in {1, 3, Unlimited}
        BY LimitsAre
      <4>3. QED
        BY <4>1, <4>2 DEF LocationsFit, Fits
    <3>4. \A o \in Maker : ~MakesChecked(o)'
      BY <1>5, <3>2 DEF MakesChecked
    <3>5. QED
      BY <3>3, <3>4 DEF LocationsOK, CheckedFit, OneMakesChecked, MakesChecked
  <2>4. QED
    BY <2>1, <2>2, <2>3
<1>10. QED
  BY <1>1, <1>4, <1>7, <1>8, <1>9 DEF FloorInv

LEMMA CreateTableKeeps ==
    ASSUME FloorInv, NEW m \in Maker, CreateTableRow(m)
    PROVE  FloorInv'
<1> DEFINE l == maker[m].from
           over == l >= maker[m].to
           new == IF over THEN Blank ELSE [maker[m] EXCEPT !.from = l + 1]
<1>1. /\ maker[m].at = "create" /\ MakesTables(m) /\ UNCHANGED <<plan, locations, excuse>>
      /\ table' = IF Adding(m) = 0 \/ table[l] # "none" THEN table ELSE [table EXCEPT ![l] = "live"]
      /\ maker' = [maker EXCEPT ![m] = new]
  BY DEF CreateTableRow
<1>2. Blank \in MakerState /\ Blank.at = "unused"
  BY DEF Blank, MakerState, Form, FirstForms, PLAN_IDS, Status
<1>3. maker[m] \in MakerState /\ l \in Nat /\ maker[m].to \in Nat
  BY DEF FloorInv, FloorTyped, MakerState
<1>4. ~over => /\ new \in MakerState /\ new.at = "create" /\ new.form = maker[m].form
               /\ new.from = l + 1 /\ new.to = maker[m].to
  BY <1>1, <1>3 DEF MakerState
<1>5. over => new = Blank
  OBVIOUS
<1> HIDE DEF new
<1>6. maker'[m] = new /\ \A o \in Maker \ {m} : maker'[o] = maker[o]
  BY <1>1 DEF FloorInv, FloorTyped
<1>7. FloorTyped'
  BY <1>1, <1>2, <1>4, <1>5 DEF FloorInv, FloorTyped
<1>8. LiveTables' \subseteq LiveTables \cup (IF Adding(m) = 0 THEN {} ELSE {l})
  BY <1>1 DEF LiveTables, FloorInv, FloorTyped
<1>9. /\ Cardinality(LiveTables') \in Nat /\ Cardinality(LiveTables) \in Nat /\ Adding(m) \in Nat
      /\ Cardinality(LiveTables') <= Cardinality(LiveTables) + (IF Adding(m) = 0 THEN 0 ELSE 1)
  <2>1. IsFiniteSet(LiveTables) /\ Cardinality(LiveTables) \in Nat /\ Adding(m) \in Nat
    BY TablesCounted DEF FloorInv
  <2>2. /\ IsFiniteSet(LiveTables \cup {l})
        /\ Cardinality(LiveTables \cup {l}) <= Cardinality(LiveTables) + 1
    BY <2>1, FS_AddElement
  <2>3. CASE Adding(m) = 0
    <3>1. LiveTables' \in SUBSET LiveTables
      BY <1>8, <2>3
    <3>2. QED
      BY <2>1, <2>3, <3>1, FS_Subset, FS_CardinalityType
  <2>4. CASE Adding(m) # 0
    <3>1. LiveTables' \in SUBSET (LiveTables \cup {l})
      BY <1>8, <2>4
    <3>2. /\ IsFiniteSet(LiveTables')
          /\ Cardinality(LiveTables') <= Cardinality(LiveTables \cup {l})
      BY <2>2, <3>1, FS_Subset
    <3>3. /\ Cardinality(LiveTables') \in Nat /\ Cardinality(LiveTables \cup {l}) \in Nat
      BY <2>2, <3>2, FS_CardinalityType
    <3>4. QED
      BY <2>1, <2>2, <2>4, <3>2, <3>3
  <2>5. QED
    BY <2>3, <2>4
<1>10. MakesRows(m) /\ ~MakesChecked(m)' /\ (over => ~MakesRows(m)')
  BY <1>1, <1>2, <1>4, <1>5, <1>6 DEF MakesRows, MakesChecked, MakesTables
<1>11. ~over => Adding(m)' + 1 = Adding(m)
  BY <1>3, <1>4, <1>6 DEF Adding
<1>12. \A o \in Maker \ {m} : /\ MakesRows(o)' <=> MakesRows(o)
                              /\ MakesChecked(o)' <=> MakesChecked(o)
  BY <1>6 DEF MakesRows, MakesChecked, MakesTables
<1>13. plan' = plan
  BY <1>1
<1>14. SamePlan => SamePlan'
  BY <1>1, <1>2, <1>4, <1>5, <1>6 DEF SamePlan
<1>15. ASSUME TablesOK PROVE TablesOK'
  <2>1. Fits("tables", Cardinality(LiveTables) + Adding(m)) /\ \A o \in Maker \ {m} : ~MakesRows(o)
    BY <1>10, <1>15 DEF TablesOK, RowsFit, OneMakesRows
  <2>2. Fits("tables", Cardinality(LiveTables'))
    BY <1>9, <2>1, LimitsAre DEF Fits
  <2>3. MakesRows(m)' => Fits("tables", Cardinality(LiveTables') + Adding(m)')
    <3>1. SUFFICES ASSUME ~over PROVE Fits("tables", Cardinality(LiveTables') + Adding(m)')
      BY <1>10
    <3>2. Adding(m)' = Adding(m) - 1 /\ Adding(m) # 0
      <4>1. Adding(m)' \in Nat
        BY <1>3, <1>4, <1>6, <3>1 DEF Adding
      <4>2. QED
        BY <1>9, <1>11, <3>1, <4>1
    <3>3. QED
      <4>1. /\ Cardinality(LiveTables') + Adding(m)' <= Cardinality(LiveTables) + Adding(m)
            /\ Cardinality(LiveTables') + Adding(m)' \in Nat /\ Cardinality(LiveTables) + Adding(m) \in Nat
        BY <1>9, <3>2
      <4>2. limitFor(plan, "tables") \in Int
        BY LimitsAre
      <4>3. QED
        BY <2>1, <4>1, <4>2 DEF Fits
  <2>4. \A o \in Maker \ {m} : ~MakesRows(o)'
    BY <1>12, <2>1 DEF MakesRows, MakesTables
  <2>5. TablesFit'
    BY <1>13, <2>2 DEF TablesFit, Fits
  <2>6. RowsFit'
    BY <1>13, <2>3, <2>4 DEF RowsFit, Fits, MakesRows, MakesTables, Adding
  <2>7. OneMakesRows'
    BY <2>4 DEF OneMakesRows, MakesRows, MakesTables
  <2>8. QED
    BY <2>5, <2>6, <2>7 DEF TablesOK
<1>16. LocationsOK => LocationsOK'
  BY <1>1, <1>10, <1>12, LocationsKept DEF MakesChecked
<1>17. QED
  BY <1>1, <1>7, <1>14, <1>15, <1>16 DEF FloorInv

LEMMA DeleteTableKeeps ==
    ASSUME FloorInv, NEW l \in Label, DeleteTable(l)
    PROVE  FloorInv'
<1>1. table' = [table EXCEPT ![l] = "deleted"] /\ UNCHANGED <<plan, locations, maker, excuse>>
  BY DEF DeleteTable
<1>2. FloorTyped'
  BY <1>1 DEF FloorInv, FloorTyped
<1>3. LiveTables' \in SUBSET LiveTables
  BY <1>1 DEF LiveTables, FloorInv, FloorTyped
<1>4. /\ Cardinality(LiveTables') <= Cardinality(LiveTables)
      /\ Cardinality(LiveTables') \in Nat /\ Cardinality(LiveTables) \in Nat
      /\ \A m \in Maker : Adding(m) \in Nat
  <2>1. IsFiniteSet(LiveTables) /\ Cardinality(LiveTables) \in Nat /\ \A m \in Maker : Adding(m) \in Nat
    BY TablesCounted DEF FloorInv
  <2>2. QED
    BY <1>3, <2>1, FS_Subset, FS_CardinalityType
<1>5. TablesOK => TablesOK'
  BY <1>1, <1>4, LimitsAre DEF TablesOK, TablesFit, RowsFit, OneMakesRows, Fits, MakesRows, MakesTables, Adding
<1>6. LocationsOK => LocationsOK'
  BY <1>1 DEF LocationsOK, LocationsFit, CheckedFit, OneMakesChecked, Fits, MakesChecked
<1>7. SamePlan => SamePlan'
  BY <1>1 DEF SamePlan
<1>8. QED
  BY <1>1, <1>2, <1>5, <1>6, <1>7 DEF FloorInv

LEMMA PlanKeeps ==
    ASSUME FloorInv, PlanChanges
    PROVE  FloorInv'
<1>1. PICK s \in Subscribed : plan' = [plan |-> s[1], status |-> s[2]]
  BY DEF PlanChanges
<1>2. /\ UNCHANGED <<table, locations, maker>> /\ excuse \subseteq excuse'
      /\ "planChanged" \notin excuse' => effectivePlan(plan') = effectivePlan(plan)
  BY DEF PlanChanges
<1>3. s[1] \in PLAN_IDS /\ s[2] \in Status
  BY SubscribedType DEF Status
<1>4. FloorTyped'
  BY <1>1, <1>2, <1>3 DEF FloorInv, FloorTyped
<1>5. ASSUME "planChanged" \notin excuse'
      PROVE  \A limit, count : Fits(limit, count)' <=> Fits(limit, count)
  BY <1>2, <1>5 DEF Fits, limitFor
<1>6. ASSUME "planChanged" \notin excuse' PROVE SamePlan'
  BY <1>2, <1>6 DEF FloorInv, SamePlan
<1>7. LiveTables' = LiveTables
  BY <1>2 DEF LiveTables
<1>8. ASSUME excuse' \cap {"overlap", "planChanged"} = {} PROVE TablesOK'
  <2>1. TablesOK
    BY <1>2, <1>8 DEF FloorInv
  <2>2. QED
    BY <1>2, <1>5, <1>7, <1>8, <2>1 DEF TablesOK, TablesFit, RowsFit, OneMakesRows, MakesRows,
             MakesTables, Adding
<1>9. ASSUME excuse' = {} PROVE LocationsOK'
  <2>1. LocationsOK
    BY <1>2, <1>9 DEF FloorInv
  <2>2. QED
    BY <1>2, <1>5, <1>9, <2>1 DEF LocationsOK, LocationsFit, CheckedFit, OneMakesChecked, MakesChecked
<1>10. QED
  BY <1>4, <1>6, <1>8, <1>9 DEF FloorInv

LEMMA FloorStep == FloorInv /\ [FloorNext]_floorVars => FloorInv'
<1> SUFFICES ASSUME FloorInv, [FloorNext]_floorVars PROVE FloorInv'
  OBVIOUS
<1>1. Blank \in MakerState /\ Blank.at = "unused"
  BY DEF Blank, MakerState, Form, FirstForms, PLAN_IDS, Status
<1>2. CASE UNCHANGED floorVars
  BY <1>2 DEF floorVars, FloorInv, FloorTyped, TablesOK, TablesFit, RowsFit, OneMakesRows,
              LocationsOK, LocationsFit, CheckedFit, OneMakesChecked, SamePlan, Fits, MakesRows,
              MakesChecked, MakesTables, Adding, LiveTables
<1>3. CASE \E m \in Maker : OpenTableForm(m)
  <2>1. PICK m \in Maker : OpenTableForm(m)
    BY <1>3
  <2> DEFINE new == [maker[m] EXCEPT !.at = "page", !.offers = FormsShown]
  <2>2. maker' = [maker EXCEPT ![m] = new] /\ UNCHANGED <<plan, table, locations, excuse>>
    BY <2>1 DEF OpenTableForm
  <2>3. FormsShown \in SUBSET Form
    <3>1. /\ FirstForms \in SUBSET Form /\ {"range"} \in SUBSET Form /\ {"table"} \in SUBSET Form
      BY DEF Form
    <3>2. locations = 0 \/ (locations > 0 /\ LiveTables = {}) \/ ~(locations = 0 \/ (locations > 0 /\ LiveTables = {}))
      OBVIOUS
    <3>3. locations = 0 => FormsShown = FirstForms
      BY DEF FormsShown
    <3>4. locations > 0 /\ LiveTables = {} /\ locations # 0 => FormsShown = {"range"}
      BY DEF FormsShown
    <3>5. ~(locations = 0 \/ (locations > 0 /\ LiveTables = {})) => FormsShown = {"table"}
      BY DEF FormsShown
    <3>6. FormsShown \in {FirstForms, {"range"}, {"table"}}
      BY <3>2, <3>3, <3>4, <3>5
    <3>7. QED
      BY <3>1, <3>6
  <2>4. new \in MakerState /\ new.at = "page"
    <3> DEFINE forms == FormsShown
    <3>1. forms \in SUBSET Form
      BY <2>3
    <3>2. maker[m] \in MakerState
      BY DEF FloorInv, FloorTyped
    <3>3. new = [maker[m] EXCEPT !.at = "page", !.offers = forms]
      OBVIOUS
    <3> HIDE DEF forms, new
    <3>4. QED
      BY <3>1, <3>2, <3>3 DEF MakerState
  <2> HIDE DEF new
  <2>5. QED
    BY <2>2, <2>4, MakerKeeps
<1>4. CASE \E m \in Maker : SubmitTableForm(m)
  <2>1. PICK m \in Maker : SubmitTableForm(m)
    BY <1>4
  <2>2. PICK asked \in maker[m].offers : \E r \in Asked(asked) :
            maker' = [maker EXCEPT ![m] =
              [Blank EXCEPT !.at = IF asked = "tablesLocation" THEN "create" ELSE "count",
                            !.form = asked, !.plan = plan.plan, !.status = plan.status,
                            !.from = r[1], !.to = r[2]]]
    BY <2>1 DEF SubmitTableForm
  <2>3. PICK r \in Asked(asked) :
            maker' = [maker EXCEPT ![m] =
              [Blank EXCEPT !.at = IF asked = "tablesLocation" THEN "create" ELSE "count",
                            !.form = asked, !.plan = plan.plan, !.status = plan.status,
                            !.from = r[1], !.to = r[2]]]
    BY <2>2
  <2> DEFINE new == [Blank EXCEPT !.at = IF asked = "tablesLocation" THEN "create" ELSE "count",
                                  !.form = asked, !.plan = plan.plan, !.status = plan.status,
                                  !.from = r[1], !.to = r[2]]
  <2>4. asked \in Form /\ plan.plan \in PLAN_IDS /\ plan.status \in Status
    BY <2>2 DEF FloorInv, FloorTyped, MakerState
  <2>5. r[1] \in Nat /\ r[2] \in Nat
    BY LabelType, TableRangeType DEF Asked
  <2>6. /\ new \in MakerState /\ new.form = asked /\ new.plan = plan.plan /\ new.status = plan.status
        /\ new.at = IF asked = "tablesLocation" THEN "create" ELSE "count"
    BY <2>4, <2>5 DEF Blank, MakerState
  <2>7. effectivePlan(new) = effectivePlan(plan)
    BY <2>6 DEF effectivePlan
  <2>8. maker' = [maker EXCEPT ![m] = new] /\ UNCHANGED <<plan, table, locations, excuse>>
    BY <2>1, <2>3 DEF SubmitTableForm
  <2> HIDE DEF new
  <2>9. QED
    BY <2>6, <2>7, <2>8, MakerKeeps
<1>5. CASE \E m \in Maker : Count(m)
  BY <1>5, CountKeeps
<1>6. CASE \E m \in Maker : CreateLocation(m)
  BY <1>6, CreateLocationKeeps
<1>7. CASE \E m \in Maker : CreateTableRow(m)
  BY <1>7, CreateTableKeeps
<1>8. CASE \E m \in Maker : MakerFails(m)
  <2>1. PICK m \in Maker : MakerFails(m)
    BY <1>8
  <2>2. maker' = [maker EXCEPT ![m] = Blank] /\ UNCHANGED <<plan, table, locations, excuse>>
    BY <2>1 DEF MakerFails
  <2>3. QED
    BY <1>1, <2>2, MakerKeeps
<1>9. CASE \E l \in Label : DeleteTable(l)
  BY <1>9, DeleteTableKeeps
<1>10. CASE PlanChanges
  BY <1>10, PlanKeeps
<1>11. QED
  BY <1>2, <1>3, <1>4, <1>5, <1>6, <1>7, <1>8, <1>9, <1>10 DEF FloorNext

LEMMA FloorTypes == FloorInv => FloorTypeOK
BY DEF FloorInv, FloorTyped, MakerState, Status, FloorTypeOK

LEMMA FloorInvWithin == FloorInv => WithinPlan
BY DEF FloorInv, TablesOK, TablesFit, LocationsOK, LocationsFit, WithinPlan, Within, Fits

-------------------------------------------------------------------------------
(* The theorems                                                               *)

\* A row that refers to a photo has its file, unless one of the causes the code is
\* known to have came up (menu.service.ts, sweep-uploads.mjs).
THEOREM PhotosAreKept == ApplicationSpec => []PhotosExist
<1>1. ApplicationInit => MediaInv
  BY StartsOfParts, MediaInitInv
<1>2. MediaInv /\ [ApplicationNext]_applicationVars => MediaInv'
  BY StepsOfParts, MediaStep
<1>3. QED
  BY <1>1, <1>2, MediaInvKeepsPhotos, PTL DEF ApplicationSpec

\* A filter and a tab never hide a menu that has a dish (storefront.tsx).
THEOREM ScreenNeverBlank == ApplicationSpec => []ScreenIsNeverBlank
<1>1. ApplicationInit => BrowsingInv
  BY StartsOfParts DEF BrowsingInit, BrowsingInv, FilterHasDish
<1>2. BrowsingInv /\ [ApplicationNext]_applicationVars => BrowsingInv'
  BY StepsOfParts, BrowsingStep
<1>3. QED
  BY <1>1, <1>2, NeverBlank, PTL DEF ApplicationSpec

\* A secret changes only by what was typed over it, or by a form whose page showed
\* none of it, which empties it (settings.service.ts).
THEOREM SecretsAlwaysSurvive == ApplicationSpec => SecretsSurvive
<1>1. ApplicationInit => SettingsInv
  BY StartsOfParts, SettingsInitInv
<1>2. SettingsInv /\ [ApplicationNext]_applicationVars => SettingsInv'
  BY StepsOfParts, SettingsStep
<1>3. SettingsInv /\ [ApplicationNext]_applicationVars =>
        [\A s \in Secret : stored'[s] # stored[s] =>
             \/ stored'[s] = Unreadable
             \/ \E o \in Operator :
                  /\ form[o].values[s] = stored'[s]
                  /\ s \in form[o].edited \/ (s \in form[o].blank /\ stored'[s] = Absent)]_settingsVars
  BY StepsOfParts, SettingsSafe
<1>4. QED
  BY <1>1, <1>2, <1>3, PTL DEF ApplicationSpec, SecretsSurvive

\* The application implements TenantAccess: the other parts only add steps that
\* leave it alone (server/db).
THEOREM AccessImplemented == ApplicationSpec => AccessSpec
<1>1. ApplicationInit => AccessInit
  BY StartsOfParts
<1>2. [ApplicationNext]_applicationVars => [AccessNext]_accessVars
  BY StepsOfParts
<1>3. QED
  BY <1>1, <1>2, PTL DEF ApplicationSpec, AccessSpec

\* No basket is ordered twice, and the phone keeps the link to the order it made
\* last (storefront.tsx, use-active-order.ts).
THEOREM BasketsOrderedOnce == ApplicationSpec => []BasketIsOrderedOnce
<1>1. ApplicationInit => CheckoutInv
  BY StartsOfParts, CheckoutInitInv
<1>2. CheckoutInv /\ [ApplicationNext]_applicationVars => CheckoutInv'
  BY StepsOfParts, CheckoutStep
<1>3. QED
  BY <1>1, <1>2, OnceAndLinked, PTL DEF ApplicationSpec

\* An order is charged what its sheet quoted as long as every line costs what the
\* phone's basket says (storefront.tsx, order.service.ts).
THEOREM QuotesAreCharged == ApplicationSpec => QuotedIsCharged
<1>1. ApplicationInit => QuotesInv
  BY StartsOfParts, QuotesInitInv
<1>2. QuotesInv /\ [ApplicationNext]_applicationVars => QuotesInv'
  BY StepsOfParts, QuotesStep
<1>3. QuotesInv /\ [ApplicationNext]_applicationVars =>
        [\A i \in DOMAIN request :
           /\ request[i].at = "sent" /\ request'[i].at = "made"
           /\ \A d \in Lines(request[i].lines) : request[i].lines[d].price = dish[d].price
           => request'[i].total = request[i].quoted]_checkoutVars
  BY StepsOfParts, QuotedAndCharged
<1>4. QED
  BY <1>1, <1>2, <1>3, PTL DEF ApplicationSpec, QuotedIsCharged

\* A restaurant has no more tables and locations than its plan grants, but for the
\* excuses named there (entitlements.ts, tables/actions.ts).
THEOREM AlwaysWithinPlan == ApplicationSpec => []WithinPlan
<1>1. ApplicationInit => FloorInv
  BY StartsOfParts, FloorInitInv
<1>2. FloorInv /\ [ApplicationNext]_applicationVars => FloorInv'
  BY StepsOfParts, FloorStep
<1>3. QED
  BY <1>1, <1>2, FloorInvWithin, PTL DEF ApplicationSpec

\* Every variable of every part has its type; an order's link and a tab's request
\* are orders that were posted, and nothing unreadable or masked gets into a
\* server's settings (use-active-order.ts, settings.service.ts).
THEOREM ApplicationTypeCorrect == ApplicationSpec => []ApplicationTypeOK
<1> DEFINE Typed ==
      /\ part \in Part /\ QuotesInv /\ DinerTyped /\ BrowsingTyped /\ TrackingTypeOK /\ FloorInv
      /\ MediaTyped /\ SettingsInv /\ SettingsTold
<1>1. ApplicationInit => Typed
  BY StartsOfParts, QuotesInitInv, DinerInit, BrowsingTypes, TrackingTypes, FloorInitInv, MediaTypes,
     SettingsInitInv, SettingsTypes DEF ApplicationInit
<1>2. Typed /\ [ApplicationNext]_applicationVars => Typed'
  <2> SUFFICES ASSUME Typed, [ApplicationNext]_applicationVars PROVE Typed'
    OBVIOUS
  <2>1. part' \in Part
    BY DEF ApplicationNext, Alone, applicationVars
  <2>2. QuotesInv' /\ DinerTyped'
    BY StepsOfParts, QuotesStep, DinerStep
  <2>3. BrowsingTyped' /\ TrackingTypeOK' /\ FloorInv' /\ MediaTyped'
    BY StepsOfParts, BrowsingTypes, TrackingTypes, FloorStep, MediaTypes
  <2>4. SettingsInv' /\ SettingsTold'
    BY StepsOfParts, SettingsStep, SettingsToldStep
  <2>5. QED
    BY <2>1, <2>2, <2>3, <2>4
<1>3. Typed /\ AccessTypeOK => ApplicationTypeOK
  BY DinerTypes, BrowsingTypes, FloorTypes, MediaTypes, SettingsTypes DEF ApplicationTypeOK
<1> HIDE DEF Typed
<1>4. ApplicationSpec => []Typed
  BY <1>1, <1>2, PTL DEF ApplicationSpec
<1>5. QED
  BY <1>3, <1>4, AccessImplemented, AccessTypeCorrect, PTL
================================================================================

----------------------------- MODULE MenuBrowsing -----------------------------
(***************************************************************************)
(* Finding a dish on the storefront: the tabs, the filter pills, the       *)
(* favourites and the language of app/t/[publicCode]/storefront.tsx, with  *)
(* use-favourites.ts, use-locale.ts, language-picker.tsx, i18n/locales.ts  *)
(* and what storefront-view.tsx sends.                                     *)
(*                                                                         *)
(* One open page; the same phone's other pages share its favourites and    *)
(* its language through local storage, and change them at any time.        *)
(* A definition marked "mutant" is a wrong variant of the next one.        *)
(***************************************************************************)
EXTENDS Naturals, FiniteSets

CONSTANTS
    MenuDish,
    Category,
    Tag,            \* dietary tags a diner may filter by
    Locale          \* the languages with a dictionary

VARIABLES
    category,       \* menu_items: the category of every dish
    tags,           \* dietaryTags of every dish
    available,      \* isAvailable, as the server found it for the page
    offered,        \* tenants.locales, or the default where that is empty
    fallback,       \* tenants.defaultLocale
    browser,        \* the phone's languages, here one
    favourites,     \* local storage
    chosen,         \* local storage: the text kept of the language picked
    activeCategory,
    activeFilter

pageVars == <<category, tags, available, offered, fallback, browser>>
browsingVars == <<category, tags, available, offered, fallback, browser, favourites, chosen,
                  activeCategory, activeFilter>>

Popular == "popular"
Favourites == "favourites"
All == "all"

\* Categories have ids of the database, tabs of the page's own have names.
ASSUME TabNames == {Popular, Favourites} \cap Category = {}

\* The dishes on the page; a category without any is not on it.
OnPage == {d \in MenuDish : available[d]}
CategoriesOnPage == {category[d] : d \in OnPage}

\* navCategories: the favourites' tab only while a favourite is on the menu.
NavCategories ==
    {Popular} \cup CategoriesOnPage \cup (IF favourites \cap OnPage = {} THEN {} ELSE {Favourites})

\* currentCategory: a tab that went away shows as the first one.
CurrentCategory == IF activeCategory \in NavCategories THEN activeCategory ELSE Popular

ItemsOf(nav) ==
    CASE nav = Popular -> OnPage
      [] nav = Favourites -> OnPage \cap favourites
      [] OTHER -> {d \in OnPage : category[d] = nav}

\* categoryTags: the pills, only for a category of the menu's own.
CategoryTags ==
    IF CurrentCategory \in {Popular, Favourites} THEN {}
    ELSE LET found == UNION {tags[d] : d \in ItemsOf(CurrentCategory)} IN
         IF found = {} THEN {} ELSE {All} \cup found

\* filteredItems.
FilteredItems ==
    {d \in ItemsOf(CurrentCategory) : activeFilter = All \/ activeFilter \in tags[d]}

\* What local storage holds of the language: nothing, or what setValue of
\* use-local-storage.ts writes, which is the code as JSON, in quotation marks.
NoText == [word |-> "none", quoted |-> FALSE]
JSONText(l) == [word |-> l, quoted |-> TRUE]

\* parseLocale compares what is stored with the codes as it is, quotation marks
\* and all: only a bare code is one.
parseLocale(raw) == IF raw.word \in Locale /\ ~raw.quoted THEN raw.word ELSE "none"

\* resolveLocale: the diner's choice, the phone's, the restaurant's default.
locale ==
    CASE parseLocale(chosen) \in offered -> parseLocale(chosen)
      [] parseLocale(chosen) \notin offered /\ browser \in offered -> browser
      [] OTHER -> fallback

BrowsingInit ==
    /\ category \in [MenuDish -> Category]
    /\ tags \in [MenuDish -> SUBSET Tag]
    /\ available \in [MenuDish -> BOOLEAN]
    /\ fallback \in Locale
    /\ offered \in {{fallback}, Locale}
    /\ browser \in Locale \cup {"other"}
    /\ favourites \in SUBSET MenuDish
    /\ chosen \in {NoText} \cup {JSONText(l) : l \in Locale}
    /\ activeCategory = Popular
    /\ activeFilter = All

\* handleCategoryChange starts the category without a filter.
CategoryOnly(nav) == activeCategory' = nav /\ UNCHANGED activeFilter       \* mutant
CategoryChange(nav) == activeCategory' = nav /\ activeFilter' = All

ChooseCategory ==
    /\ \E nav \in NavCategories : CategoryChange(nav)
    /\ UNCHANGED <<pageVars, favourites, chosen>>

\* The pills are shown when there is more than one.
ChooseFilter ==
    /\ Cardinality(CategoryTags) > 1
    /\ activeFilter' \in CategoryTags
    /\ UNCHANGED <<pageVars, favourites, chosen, activeCategory>>

\* A heart on this page, or on another of the phone's; the latter may show dishes
\* that this one does not.
ToggleFavourite ==
    /\ \E d \in MenuDish : favourites' = IF d \in favourites THEN favourites \ {d}
                                                             ELSE favourites \cup {d}
    /\ UNCHANGED <<pageVars, chosen, activeCategory, activeFilter>>

\* The language picker, shown when there is a choice: what is picked is kept, and
\* read back by nobody (parseLocale).
SetLocale ==
    /\ Cardinality(offered) > 1
    /\ \E l \in offered : chosen' = JSONText(l)
    /\ UNCHANGED <<pageVars, favourites, activeCategory, activeFilter>>

\* The page is loaded again, with the menu and the languages as they are now.
ReloadMenu ==
    /\ available' \in {[available EXCEPT ![d] = ~@] : d \in MenuDish} \cup {available}
    /\ \/ UNCHANGED <<offered, fallback>>
       \/ fallback' \in Locale /\ offered' = {fallback'}
    /\ activeCategory' = Popular /\ activeFilter' = All
    /\ UNCHANGED <<category, tags, browser, favourites, chosen>>

BrowsingNext ==
    ChooseCategory \/ ChooseFilter \/ ToggleFavourite \/ SetLocale \/ ReloadMenu

-----------------------------------------------------------------------------
BrowsingTypeOK ==
    /\ favourites \subseteq MenuDish /\ locale \in offered
    /\ chosen \in [word : Locale \cup {"none"}, quoted : BOOLEAN]
    /\ activeCategory \in {Popular, Favourites} \cup Category
    /\ activeFilter \in {All} \cup Tag

\* While the restaurant has a dish to sell, the diner is looking at one, whatever
\* tab and pill were chosen and whatever another page did to the favourites in
\* the meantime (currentCategory, categoryTags and filteredItems, storefront.tsx).
ScreenIsNeverBlank == OnPage # {} => FilteredItems # {}
=============================================================================

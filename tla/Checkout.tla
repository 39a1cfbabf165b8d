------------------------------- MODULE Checkout -------------------------------
(***************************************************************************)
(* A diner's basket and checkout: app/t/[publicCode]/storefront.tsx with   *)
(* use-cart.ts, use-active-order.ts and use-local-storage.ts, its server   *)
(* side storefront-view.tsx, api/orders/route.ts, and what placeOrder      *)
(* checks before its transaction (OrderNumbering has the transaction).     *)
(*                                                                         *)
(* One phone, several tabs on one table's code. The tabs share the phone's *)
(* local storage; the owner changes the menu and the tables meanwhile; a   *)
(* request, or its answer, may be lost, and a sheet may be gone when its   *)
(* answer comes. Notes, names, time slots and modifiers (the storefront    *)
(* sends none) are left out.                                               *)
(* A definition marked "mutant" is a wrong variant of the next one.        *)
(***************************************************************************)
EXTENDS Naturals, Sequences, FiniteSets, FiniteSetsExt, Functions

CONSTANTS
    Dish,
    Price,              \* prices a dish may have
    Tab,                \* tabs of the phone's browser
    QuantityLimit,      \* the schema's greatest quantity of a line, 99
    MaxQuantity,        \* bound: quantity of a line in the basket
    MaxRequests,        \* bound: orders posted
    MaxMenuChanges      \* bound: changes the owner makes

ASSUME CheckoutBounds == {QuantityLimit, MaxQuantity, MaxRequests, MaxMenuChanges} \subseteq Nat
ASSUME PriceType == Price \subseteq Nat \ {0} /\ Price # {}

VARIABLES
    dish,           \* menu_items: every dish's price and whether it is on
    seats,          \* live tables of the location: "scanned", "other"
    storable,       \* the browser lets the page write local storage
    cart,           \* local storage: quantity and price of every line
    activeOrder,    \* local storage: the order the menu links to, 0 for none
    tab,
    request,        \* every order posted, oldest first, and what became of it
    basket,         \* how often the cart was emptied after an order
    menuChanges,
    doubt           \* for the properties: why an answer may have been missed

checkoutVars == <<dish, seats, storable, cart, activeOrder, tab, request,
                  basket, menuChanges, doubt>>

OrderType == {"DINE_IN", "TAKEAWAY", "DELIVERY"}
Seat == {"scanned", "other"}
\* 5000 in the code: more than any amount here, which is all that matters of it.
DELIVERY_FEE_CENTS == 5

NoLine == [quantity |-> 0, price |-> 0]
Closed == [view |-> "away", page |-> [d \in Dish |-> 0], request |-> 0, placed |-> 0]

Lines(c) == {d \in Dish : c[d].quantity > 0}
Subtotal(c) == SumFunction([d \in Lines(c) |-> c[d].quantity * c[d].price])
DeliveryFee(type) == IF type = "DELIVERY" THEN DELIVERY_FEE_CENTS ELSE 0

CheckoutInit ==
    /\ dish \in [Dish -> [price : {Min(Price)}, on : {TRUE}]]
    /\ seats = Seat
    /\ storable \in BOOLEAN
    /\ cart = [d \in Dish |-> NoLine]
    /\ activeOrder = 0
    /\ tab = [t \in Tab |-> Closed]
    /\ request = <<>>
    /\ basket = 0
    /\ menuChanges = 0
    /\ doubt = "none"

OwnerUnchanged == UNCHANGED <<dish, seats, menuChanges>>
PhoneUnchanged == UNCHANGED <<cart, activeOrder, tab, basket>>
Fixed == UNCHANGED storable

\* useLocalStorageState's setter: an updater is applied to what is stored now,
\* and a write that throws is dropped.
SetCart(new) == cart' = IF storable THEN new ELSE cart

-----------------------------------------------------------------------------
(* The menu                                                                 *)

\* The page: every dish that is on, at its price, as the server rendered it.
PageNow == [d \in Dish |-> IF dish[d].on THEN dish[d].price ELSE 0]

\* StorefrontForTable: a code whose table is gone is a 404.
OpenMenu(t) ==
    /\ tab[t].view = "away" /\ "scanned" \in seats
    /\ tab' = [tab EXCEPT ![t] = [Closed EXCEPT !.view = "menu", !.page = PageNow]]
    /\ OwnerUnchanged /\ Fixed /\ UNCHANGED <<cart, activeOrder, request, basket, doubt>>

\* cart.add: a line that is there keeps the price it was added with.
Added(t, d) ==
    [cart EXCEPT ![d] = [quantity |-> @.quantity + 1,
                         price |-> IF @.quantity = 0 THEN tab[t].page[d] ELSE @.price]]

\* The cards of the grid, each with a plus and opening the dish's sheet.
Cards(t) == IF tab[t].view = "menu" THEN {d \in Dish : tab[t].page[d] # 0} ELSE {}

\* handleQuickAdd on the grid, or the plus of the dish's sheet.
AddToCart(t, d) ==
    /\ d \in Cards(t)
    /\ cart[d].quantity < MaxQuantity
    /\ SetCart(Added(t, d))
    /\ OwnerUnchanged /\ Fixed /\ UNCHANGED <<activeOrder, tab, request, basket, doubt>>

\* The quantities a tap on a line leads to: by the dish's sheet, which has a minus
\* once there is something to take away, and by the checkout's plus and minus,
\* which stay enabled while an order is being posted.
DishSheetGives(t, d) ==
    IF d \in Cards(t) /\ cart[d].quantity > 0 THEN {cart[d].quantity - 1} ELSE {}
CheckoutGives(t, d) ==
    IF tab[t].view = "sheet" /\ tab[t].placed = 0 /\ cart[d].quantity > 0
    THEN {cart[d].quantity - 1, cart[d].quantity + 1} ELSE {}

\* cart.setQuantity: no quantity, no line.
WithQuantity(d, q) == [cart EXCEPT ![d] = IF q = 0 THEN NoLine ELSE [@ EXCEPT !.quantity = q]]

SetQuantity(t, d) ==
    /\ \E q \in DishSheetGives(t, d) \cup CheckoutGives(t, d) :
         q <= MaxQuantity /\ SetCart(WithQuantity(d, q))
    /\ OwnerUnchanged /\ Fixed /\ UNCHANGED <<activeOrder, tab, request, basket, doubt>>

-----------------------------------------------------------------------------
(* The checkout's sheet                                                     *)

\* The bar below the menu, which opens the order even when it is empty.
OpenSheet(t) ==
    /\ tab[t].view = "menu"
    /\ tab' = [tab EXCEPT ![t].view = "sheet"]
    /\ OwnerUnchanged /\ Fixed /\ UNCHANGED <<cart, activeOrder, request, basket, doubt>>

\* handleClose, which a confirmation blocks; the sheet fades for 300 ms.
CloseSheet(t) ==
    /\ tab[t].view = "sheet" /\ tab[t].placed = 0
    /\ tab' = [tab EXCEPT ![t].view = "fading"]
    /\ OwnerUnchanged /\ Fixed /\ UNCHANGED <<cart, activeOrder, request, basket, doubt>>

\* The sheet goes, and with it the state that waits for an answer or shows one.
Gone(t, view) ==
    /\ tab' = [tab EXCEPT ![t] = [Closed EXCEPT !.view = view,
                                  !.page = IF view = "away" THEN @ ELSE tab[t].page]]
    /\ doubt' = IF tab[t].request # 0 \/ tab[t].placed # 0 THEN "gone" ELSE doubt
    /\ OwnerUnchanged /\ Fixed /\ UNCHANGED <<cart, activeOrder, request, basket>>

Unmount(t) == tab[t].view = "fading" /\ Gone(t, "menu")
\* A reload, or the tab is closed.
LeavePage(t) == tab[t].view # "away" /\ Gone(t, "away")

\* The menu's link to the order that was placed last.
FollowLink(t) == tab[t].view = "menu" /\ activeOrder # 0 /\ Gone(t, "away")

\* OrderPlaced: the provider's page takes over the tab (when the payment cannot be
\* started, this page stays), or the order's own page.
PayOrFollow(t) == tab[t].view = "pay" /\ Gone(t, "away")

\* The sheet's required fields; a fields is the set of those filled in.
Fields == {"table", "name", "phone", "address"}

\* The inputs that the sheet has for an order of a type.
Inputs(type) ==
    CASE type = "DINE_IN" -> {"table"}
      [] type = "TAKEAWAY" -> {"name", "phone"}
      [] type = "DELIVERY" -> {"name", "phone", "address"}
Missing(type, fields) == Inputs(type) \ fields

\* The total the sheet shows.
Quoted(type) == Subtotal(cart) + DeliveryFee(type)

\* The button is disabled while an order is being posted, and hidden once it is
\* placed.
MaySubmitAgain(t) == Lines(cart) # {}                   \* mutant
MaySubmit(t) == tab[t].request = 0 /\ tab[t].placed = 0 /\ Lines(cart) # {}

Unsettled(r) == r.at \in {"sent", "made"}

\* submit.
Submit(t) ==
    /\ tab[t].view \in {"sheet", "fading"} /\ MaySubmit(t)
    /\ Len(request) < MaxRequests
    /\ \E type \in OrderType, seat \in Seat, fields \in SUBSET Fields :
         /\ Missing(type, fields) = {}
         /\ type # "DINE_IN" => seat = "scanned"
         /\ request' = Append(request,
              [at |-> "sent", basket |-> basket, lines |-> cart, type |-> type, seat |-> seat,
               quoted |-> Quoted(type), total |-> 0])
    /\ tab' = [tab EXCEPT ![t].request = Len(request) + 1]
    /\ doubt' = IF \E u \in Tab \ {t} : tab[u].request # 0 \/ tab[u].placed # 0
                THEN "otherTab" ELSE doubt
    /\ OwnerUnchanged /\ Fixed /\ UNCHANGED <<cart, activeOrder, basket>>

\* The answer, or the lack of one, reaches the sheet that waits for it.
Receive(t) ==
    LET r == request[tab[t].request] IN
    /\ tab[t].request # 0 /\ r.at # "sent"
    /\ tab' = [tab EXCEPT ![t].request = 0, ![t].placed = IF r.at = "made" THEN tab[t].request ELSE 0]
    /\ OwnerUnchanged /\ Fixed /\ UNCHANGED <<cart, activeOrder, request, basket, doubt>>

\* handlePlaced, 2.2 s into the confirmation: the cart is emptied, the order
\* remembered (for four hours, which are not modelled), and the payment page shown
\* when the restaurant takes payment online.
EmptyCart == [d \in Dish |-> NoLine]

Remembered(t) == IF storable THEN tab[t].placed ELSE activeOrder

\* The tick and the order's number, in the sheet that is still open.
Confirming(t) == tab[t].placed # 0

Confirm(t) ==
    /\ Confirming(t)
    /\ SetCart(EmptyCart)
    /\ activeOrder' = Remembered(t)
    /\ basket' = basket + 1
    /\ \E view \in {"menu", "pay"} :
         tab' = [tab EXCEPT ![t] = [@ EXCEPT !.placed = 0, !.view = view]]
    /\ OwnerUnchanged /\ Fixed /\ UNCHANGED <<request, doubt>>

-----------------------------------------------------------------------------
(* The server                                                               *)

\* placeOrderSchema, the table, and every line against the menu as it is now.
\* One bad line refuses the order.
Acceptable(r) ==
    /\ "scanned" \in seats
    /\ \A d \in Lines(r.lines) : r.lines[d].quantity <= QuantityLimit /\ dish[d].on

\* The seat the diner picked, or the scanned one when that is gone.
Seated(r) == IF r.type = "DINE_IN" /\ r.seat \in seats THEN r.seat ELSE "scanned"

\* Every price is read again.
ChargedWithoutFee(r) ==                                 \* mutant
    SumFunction([d \in Lines(r.lines) |-> r.lines[d].quantity * dish[d].price])
Charged(r) ==
    SumFunction([d \in Lines(r.lines) |-> r.lines[d].quantity * dish[d].price])
        + DeliveryFee(r.type)

\* A request that made no order, for whatever reason. What only placeOrder needs
\* of a request is not kept once it is answered.
Refused == [at |-> "refused", basket |-> 0, lines |-> EmptyCart, type |-> "TAKEAWAY",
            seat |-> "scanned", quoted |-> 0, total |-> 0]

Settle(i, new) ==
    /\ request' = [request EXCEPT ![i] = new]
    /\ PhoneUnchanged /\ OwnerUnchanged /\ Fixed

PlaceOrder(i) ==
    LET r == request[i] IN
    /\ r.at = "sent"
    /\ Settle(i, IF Acceptable(r)
                 THEN [r EXCEPT !.at = "made", !.seat = Seated(r), !.total = Charged(r),
                                !.lines = EmptyCart]
                 ELSE Refused)
    /\ UNCHANGED doubt

\* The request does not arrive, or the answer does not: offline, to the sheet.
LoseRequest(i) == request[i].at = "sent" /\ Settle(i, Refused) /\ UNCHANGED doubt
LoseAnswer(i) ==
    /\ request[i].at = "made" /\ \E t \in Tab : tab[t].request = i
    /\ Settle(i, [request[i] EXCEPT !.at = "unheard"])
    /\ doubt' = "unheard"

-----------------------------------------------------------------------------
(* The owner                                                                *)

OwnerChanges ==
    /\ menuChanges < MaxMenuChanges
    /\ menuChanges' = menuChanges + 1
    /\ \/ \E d \in Dish, p \in Price : /\ p # dish[d].price
                                       /\ dish' = [dish EXCEPT ![d].price = p]
                                       /\ UNCHANGED seats
       \/ \E d \in Dish : dish' = [dish EXCEPT ![d].on = ~@] /\ UNCHANGED seats
       \/ \E s \in seats : seats' = seats \ {s} /\ UNCHANGED dish
    /\ PhoneUnchanged /\ Fixed /\ UNCHANGED <<request, doubt>>

TabStep(t) ==
    \/ OpenMenu(t) \/ OpenSheet(t) \/ CloseSheet(t) \/ Unmount(t) \/ LeavePage(t)
    \/ FollowLink(t) \/ PayOrFollow(t)
    \/ Submit(t) \/ Receive(t) \/ Confirm(t)
    \/ \E d \in Dish : AddToCart(t, d) \/ SetQuantity(t, d)

\* No property speaks of what follows a doubt, so nothing follows one.
CheckoutNext ==
    /\ doubt = "none"
    /\ \/ \E t \in Tab : TabStep(t)
       \/ \E i \in DOMAIN request : PlaceOrder(i) \/ LoseRequest(i) \/ LoseAnswer(i)
       \/ OwnerChanges

-----------------------------------------------------------------------------
CheckoutTypeOK ==
    /\ dish \in [Dish -> [price : Price, on : BOOLEAN]] /\ seats \subseteq Seat
    /\ cart \in [Dish -> [quantity : 0..MaxQuantity, price : Price \cup {0}]]
    /\ activeOrder \in 0..Len(request)
    /\ \A t \in Tab : /\ tab[t].view \in {"away", "menu", "sheet", "fading", "pay"}
                      /\ {tab[t].request, tab[t].placed} \subseteq 0..Len(request)
    /\ \A r \in DOMAIN request :
         request[r].at \in {"sent", "made", "refused", "unheard"}

Made == {i \in DOMAIN request : request[i].at \in {"made", "unheard"}}

\* A basket is ordered once, and the phone keeps the link to the order it made
\* last: no order is made twice and none is out of the diner's reach, unless a
\* sheet was gone or the network silent when the answer came, or two tabs ordered
\* the same basket at once (the confirmation's effect and handlePlaced in
\* storefront.tsx, use-active-order.ts).
BasketIsOrderedOnce ==
    (storable /\ doubt = "none") =>
        /\ \A i, j \in Made : request[i].basket = request[j].basket => i = j
        /\ (Made # {} /\ \A t \in Tab : tab[t].request = 0 /\ tab[t].placed = 0)
              => activeOrder = Max(Made)

\* "A checkout that shows one total and files another is worse than showing no
\* total at all" (order.schema.ts): an order is written with the total its sheet
\* quoted, as long as every line still costs what the phone's basket says, however
\* the menu, the basket and the tabs changed between the quote and the order. A
\* line keeps the price that the page it was added from had at first, so a page or
\* a basket older than a new price quotes the old one, and the new one is charged.
QuotedIsCharged ==
    [][\A i \in DOMAIN request :
         /\ request[i].at = "sent" /\ request'[i].at = "made"
         /\ \A d \in Lines(request[i].lines) : request[i].lines[d].price = dish[d].price
         => request'[i].total = request[i].quoted]_checkoutVars
=============================================================================

--------------------------------- MODULE Carts ---------------------------------
(***************************************************************************)
(* The Telegram bot's carts: handle_update, cart_service and the callbacks. *)
(* Updates of one guest are handled by several threads at once, each of     *)
(* which looks the active cart up before it changes its lines.              *)
(***************************************************************************)
EXTENDS Integers, Sequences, FiniteSets, FiniteSetsExt

CONSTANTS
  Goods, GoodPrices,
  MaxUpdates,  \* bound: updates that Telegram delivers, each maybe more than once
  Handlers,
  LineCap,     \* MAX_QUANTITY_PER_LINE
  CartCap,     \* MAX_ITEMS_PER_ORDER
  MaxCarts,    \* bound
  MaxMenus     \* bound: changes of the menu

ASSUME CartAssumption ==
  /\ GoodPrices \subseteq Nat /\ GoodPrices # {} /\ LineCap \in Nat \ {0}
  /\ CartCap \in Nat /\ MaxCarts \in Nat /\ MaxMenus \in Nat /\ MaxUpdates \in Nat

VARIABLES
  menu,       \* products: [live, price]
  cart,       \* the guest's carts: [status, lines]
  placed,     \* orders made of carts: [from, lines]
  guest,      \* TelegramCustomer: [phone, blocked]
  seen,       \* ids of updates in the cache
  hand,       \* what a handler is doing
  put,        \* pieces the guest was told were put in, less those taken out
  handled,    \* how often an update was taken up
  overtaken,  \* a handler changed lines that were not what it had looked at any more
  menus

cartVars == <<menu, cart, placed, guest, seen, hand, put, handled, overtaken, menus>>

Updates == 1 .. MaxUpdates
AtRest == [what |-> "none"]
NoPiece == [qty |-> 0, price |-> 0]
NoLines == [g \in Goods |-> NoPiece]
LinesIn(lines) == {g \in Goods : lines[g].qty > 0}
Smallest(x, y) == IF x < y THEN x ELSE y
ActiveCarts == {i \in DOMAIN cart : cart[i].status = "ACTIVE"}

CartsInit ==
  /\ menu \in [Goods -> {[live |-> TRUE, price |-> p] : p \in {Min(GoodPrices)}}]
  /\ cart = <<>> /\ placed = <<>>
  /\ guest = [phone |-> FALSE, blocked |-> FALSE]
  /\ seen = {} /\ hand = [h \in Handlers |-> AtRest]
  /\ put = [g \in Goods |-> 0] /\ handled = [u \in Updates |-> 0]
  /\ overtaken = FALSE /\ menus = 0

-----------------------------------------------------------------------------
(* handle_update                                                           *)

\* (mutant) an update that is delivered again is handled again
TakeUpAgain(u) ==
  /\ handled[u] < 2
  /\ handled' = [handled EXCEPT ![u] = @ + 1] /\ seen' = seen \cup {u}
\* cache.add: whoever is first takes the update up.
TakeUp(u) ==
  /\ u \notin seen
  /\ seen' = seen \cup {u} /\ handled' = [handled EXCEPT ![u] = @ + 1]

\* A guest who blocked the bot, a command without effect on carts, a product that is gone.
Ignore(u) ==
  /\ TakeUp(u)
  /\ UNCHANGED <<menu, cart, placed, guest, hand, put, overtaken, menus>>
ShareContact(u) ==
  /\ ~guest.blocked /\ TakeUp(u)
  /\ guest' = [guest EXCEPT !.phone = TRUE]
  /\ UNCHANGED <<menu, cart, placed, hand, put, overtaken, menus>>

\* get_or_create_active_cart
Opened == IF ActiveCarts = {} THEN Append(cart, [status |-> "ACTIVE", lines |-> NoLines]) ELSE cart
OpenCart == CHOOSE i \in DOMAIN Opened : Opened[i].status = "ACTIVE"
Begins(h, u, job) ==
  /\ ~guest.blocked /\ hand[h] = AtRest /\ TakeUp(u)
  /\ Len(Opened) <= MaxCarts
  /\ cart' = Opened
  /\ hand' = [hand EXCEPT ![h] = job]
  /\ UNCHANGED <<menu, placed, guest, put, overtaken, menus>>

BeginAdd(h, u, g, n) ==
  /\ menu[g].live
  /\ Begins(h, u, [what |-> "add", cart |-> OpenCart, good |-> g, qty |-> n, price |-> menu[g].price])
BeginTake(h, u, g, what) == Begins(h, u, [what |-> what, cart |-> OpenCart, good |-> g])
BeginAll(h, u, what) == Begins(h, u, [what |-> what, cart |-> OpenCart, phone |-> guest.phone])

-----------------------------------------------------------------------------
TurnEnds(h) == hand' = [hand EXCEPT ![h] = AtRest]
SetLine(c, g, piece) == cart' = [cart EXCEPT ![c].lines[g] = piece]
\* The cart was checked out since: what is done to it is not done to any order.
TooLate(c) == cart[c].status # "ACTIVE"

\* add_item: the row is locked, the cart is not.
AddItem(h) ==
  LET j == hand[h]
      row == cart[j.cart].lines[j.good]
      qty == Smallest(row.qty + j.qty, LineCap)
  IN /\ j.what = "add"
     /\ IF row.qty = 0 /\ Cardinality(LinesIn(cart[j.cart].lines)) >= CartCap
          THEN UNCHANGED <<cart, put, overtaken>>
          ELSE /\ SetLine(j.cart, j.good,
                    [qty |-> qty, price |-> IF row.qty = 0 THEN j.price ELSE row.price])
               /\ put' = [put EXCEPT ![j.good] = @ + qty - row.qty]
               /\ overtaken' = (overtaken \/ TooLate(j.cart))
     /\ TurnEnds(h)
     /\ UNCHANGED <<menu, placed, guest, seen, handled, menus>>

\* remove_item and clear
RemoveLines(h) ==
  LET j == hand[h]
      gone == IF j.what = "rm" THEN {j.good} ELSE Goods
  IN /\ j.what \in {"rm", "clear"}
     /\ cart' = [cart EXCEPT ![j.cart].lines =
                   [g \in Goods |-> IF g \in gone THEN NoPiece ELSE @[g]]]
     /\ put' = [g \in Goods |-> IF g \in gone THEN put[g] - cart[j.cart].lines[g].qty ELSE put[g]]
     /\ overtaken' = (overtaken \/ TooLate(j.cart))
     /\ TurnEnds(h)
     /\ UNCHANGED <<menu, placed, guest, seen, handled, menus>>

\* _cb_dec: reads the row, without a lock, and writes it.
ReadRow(h) ==
  LET j == hand[h]
  IN /\ j.what = "dec"
     /\ IF cart[j.cart].lines[j.good].qty = 0 THEN TurnEnds(h)
        ELSE hand' = [hand EXCEPT ![h] = [what |-> "decrement", good |-> j.good, cart |-> j.cart,
                                          read |-> cart[j.cart].lines[j.good]]]
     /\ UNCHANGED <<menu, cart, placed, guest, seen, put, handled, overtaken, menus>>
Decrement(h) ==
  LET j == hand[h]
      row == cart[j.cart].lines[j.good]
  IN /\ j.what = "decrement"
     /\ IF row.qty = 0 THEN UNCHANGED cart     \* the row is gone
        ELSE SetLine(j.cart, j.good, 
                      IF j.read.qty <= 1 THEN NoPiece ELSE [row EXCEPT !.qty = j.read.qty - 1])
     /\ put' = [put EXCEPT ![j.good] = @ - 1]
     /\ overtaken' = (overtaken \/ TooLate(j.cart) \/ row # j.read)
     /\ TurnEnds(h)
     /\ UNCHANGED <<menu, placed, guest, seen, handled, menus>>

Convertible(c) == cart[c].status = "ACTIVE" /\ LinesIn(cart[c].lines) # {}
\* checkout: the second of two taps finds the cart converted and answers with its order.
Checkout(h) ==
  LET j == hand[h]
  IN /\ j.what = "checkout"
     /\ IF Convertible(j.cart) /\ j.phone
          THEN /\ placed' = Append(placed, [from |-> j.cart, lines |-> cart[j.cart].lines])
               /\ cart' = [cart EXCEPT ![j.cart].status = "CHECKED_OUT"]
          ELSE UNCHANGED <<placed, cart>>
     /\ TurnEnds(h)
     /\ UNCHANGED <<menu, guest, seen, put, handled, overtaken, menus>>

HandlerDies(h) ==
  /\ hand[h] # AtRest /\ TurnEnds(h)
  /\ UNCHANGED <<menu, cart, placed, guest, seen, put, handled, overtaken, menus>>

\* A reply was refused: the guest has blocked the bot, and stays blocked.
ReplyRefused ==
  /\ seen # {} /\ ~guest.blocked
  /\ guest' = [guest EXCEPT !.blocked = TRUE]
  /\ UNCHANGED <<menu, cart, placed, seen, hand, put, handled, overtaken, menus>>

ChangeMenu(g, live, price) ==
  /\ menus < MaxMenus /\ menus' = menus + 1
  /\ menu' = [menu EXCEPT ![g] = [live |-> live, price |-> price]]
  /\ UNCHANGED <<cart, placed, guest, seen, hand, put, handled, overtaken>>

Delivered == {u \in Updates : \A v \in Updates : v < u => v \in seen}
CartsNext ==
  \/ \E u \in Delivered : Ignore(u) \/ ShareContact(u)
  \/ \E h \in Handlers, u \in Delivered :
       \/ \E g \in Goods :
            \/ \E n \in 1 .. LineCap : BeginAdd(h, u, g, n)
            \/ \E what \in {"dec", "rm"} : BeginTake(h, u, g, what)
       \/ \E what \in {"clear", "checkout"} : BeginAll(h, u, what)
  \/ \E h \in Handlers :
       AddItem(h) \/ RemoveLines(h) \/ ReadRow(h) \/ Decrement(h) \/ Checkout(h) \/ HandlerDies(h)
  \/ ReplyRefused
  \/ \E g \in Goods, live \in BOOLEAN, price \in GoodPrices : ChangeMenu(g, live, price)

-----------------------------------------------------------------------------
(* Properties                                                              *)

InCarts(g) == SumFunction([i \in ActiveCarts |-> cart[i].lines[g].qty])
InOrders(g) == SumFunction([k \in DOMAIN placed |-> placed[k].lines[g].qty])

\* Every piece a guest was told is in the cart is in the active cart or, once, in an order, at
\* the price it was quoted, whatever was tapped twice, delivered twice or handled at once
\* (telegram_bot.py:66-68 and cart_service.py:146-150); an update is taken up once.
CartsBecomeOrders ==
  /\ \A u \in Updates : handled[u] <= 1
  /\ Cardinality(ActiveCarts) <= 1
  /\ \A k, l \in DOMAIN placed : placed[k].from = placed[l].from => k = l
  /\ ~overtaken =>
       /\ \A g \in Goods : InCarts(g) + InOrders(g) = put[g]
       /\ \A k \in DOMAIN placed : placed[k].lines = cart[placed[k].from].lines
-----------------------------------------------------------------------------
(* Loyalty: stamps for orders that are completed and paid, and rewards for   *)
(* stamps. The back office credits an order inside the transaction that      *)
(* completes or pays it; the till completes and pays without crediting.      *)

CONSTANTS
  Phones, Meals,    \* orders
  PhoneOf,          \* the phone an order was given, or NoPhone
  NoPhone,
  Stamps, Rewards,  \* stamps_per_completed_order and stamps_per_reward that may be set
  MaxTurns          \* bound: changes of orders, of settings, and rewards

ASSUME LoyaltyAssumption ==
  /\ Stamps \subseteq Nat \ {0} /\ Stamps # {}
  /\ Rewards \subseteq Nat \ {0} /\ Rewards # {}
  /\ PhoneOf \in [Meals -> Phones \cup {NoPhone}] /\ NoPhone \notin Phones
  /\ MaxTurns \in Nat

VARIABLES
  meal,       \* status and is_paid of an order
  loyal,      \* LoyaltySettings
  account,    \* LoyaltyAccount of a phone
  credits,    \* OrderLoyaltyCredit rows
  rewards,    \* LoyaltyRedemption rows
  owing,      \* orders that the back office made complete and paid while loyalty was on
  turns

loyaltyVars == <<meal, loyal, account, credits, rewards, owing, turns>>

NoStamps == [balance |-> 0, earned |-> 0, redeemed |-> 0]
LoyaltyInit ==
  /\ meal = [m \in Meals |-> [status |-> "OPEN", paid |-> FALSE]]
  /\ loyal = [on |-> TRUE, each |-> Min(Stamps), cost |-> Min(Rewards)]
  /\ account = [p \in Phones |-> NoStamps]
  /\ credits = <<>> /\ rewards = <<>> /\ owing = {} /\ turns = 0

Turn == turns < MaxTurns /\ turns' = turns + 1
Eligible(m, to) == loyal.on /\ to.status = "COMPLETED" /\ to.paid /\ PhoneOf[m] # NoPhone
\* (mutant) an order is credited as often as it is paid or completed
CreditedNot(m) == FALSE
Credited(m) == \E i \in DOMAIN credits : credits[i].of = m

\* maybe_accrue: the credit row is unique for the order, the account is raised where it stands.
Accrue(m, to) ==
  /\ owing' = IF Eligible(m, to) THEN owing \cup {m} ELSE owing
  /\ IF Eligible(m, to) /\ ~Credited(m)
       THEN /\ credits' = Append(credits, [of |-> m, stamps |-> loyal.each])
            /\ account' = [account EXCEPT ![PhoneOf[m]] =
                 [balance |-> @.balance + loyal.each, earned |-> @.earned + loyal.each,
                  redeemed |-> @.redeemed]]
       ELSE UNCHANGED <<credits, account>>

SetMeal(m, to) ==
  /\ Turn
  /\ meal' = [meal EXCEPT ![m] = to]
  /\ UNCHANGED <<loyal, rewards>>
\* update_order_status and mark_as_paid of the back office; a cancelled order stays cancelled.
SetMealStatus(m, status) ==
  /\ meal[m].status # "CANCELED"
  /\ SetMeal(m, [meal[m] EXCEPT !.status = status])
  /\ Accrue(m, [meal[m] EXCEPT !.status = status])
PayMeal(m) ==
  /\ meal[m].status # "CANCELED" /\ ~meal[m].paid
  /\ SetMeal(m, [meal[m] EXCEPT !.paid = TRUE])
  /\ Accrue(m, [meal[m] EXCEPT !.paid = TRUE])
UnpayMeal(m) ==
  /\ meal[m].paid
  /\ SetMeal(m, [meal[m] EXCEPT !.paid = FALSE])
  /\ UNCHANGED <<credits, account, owing>>
\* The till does both, and gives no stamps.
TillClosesMeal(m) ==
  /\ meal[m].status # "CANCELED" /\ ~meal[m].paid
  /\ SetMeal(m, [status |-> "COMPLETED", paid |-> TRUE])
  /\ UNCHANGED <<credits, account, owing>>

\* redeem: the account is locked.
Redeem(p) ==
  /\ loyal.on /\ account[p].earned > 0 /\ account[p].balance >= loyal.cost
  /\ Turn
  /\ account' = [account EXCEPT ![p] =
       [balance |-> @.balance - loyal.cost, earned |-> @.earned,
        redeemed |-> @.redeemed + loyal.cost]]
  /\ rewards' = Append(rewards, [to |-> p, spent |-> loyal.cost])
  /\ UNCHANGED <<meal, loyal, credits, owing>>
SetLoyalty(on, each, cost) ==
  /\ Turn
  /\ loyal' = [on |-> on, each |-> each, cost |-> cost]
  /\ UNCHANGED <<meal, account, credits, rewards, owing>>

LoyaltyNext ==
  \/ \E m \in Meals :
       \/ \E status \in {"OPEN", "COMPLETED", "CANCELED"} : SetMealStatus(m, status)
       \/ PayMeal(m) \/ UnpayMeal(m) \/ TillClosesMeal(m)
  \/ \E p \in Phones : Redeem(p)
  \/ \E on \in BOOLEAN, each \in Stamps, cost \in Rewards : SetLoyalty(on, each, cost)

-----------------------------------------------------------------------------
(* Properties of loyalty                                                   *)

EarnedBy(p) ==
  SumFunction([i \in DOMAIN credits |-> IF PhoneOf[credits[i].of] = p THEN credits[i].stamps ELSE 0])
SpentBy(p) ==
  SumFunction([i \in DOMAIN rewards |-> IF rewards[i].to = p THEN rewards[i].spent ELSE 0])

\* An order earns its stamps once, whatever order completing, paying, unpaying and paying again
\* came in (loyalty_service.py:12-14), every order that the back office completed and paid has
\* earned them, and an account is what its rows say, never below nothing, whatever the stamps
\* and rewards were set to in between.
StampsAddUp ==
  /\ \A i, j \in DOMAIN credits : credits[i].of = credits[j].of => i = j
  /\ \A m \in owing : \E i \in DOMAIN credits : credits[i].of = m
  /\ \A p \in Phones :
       /\ account[p].balance >= 0
       /\ account[p].balance = EarnedBy(p) - SpentBy(p)
       /\ account[p].earned = EarnedBy(p) /\ account[p].redeemed = SpentBy(p)
=============================================================================

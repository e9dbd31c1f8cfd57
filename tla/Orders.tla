-------------------------------- MODULE Orders --------------------------------
(***************************************************************************)
(* The life of an order and of the cash it brings into the drawer.         *)
(*                                                                         *)
(* Every handler of the three order services (customers/ for the cashier   *)
(* and the kitchen display, waiters/, admins/) and of the two self-service *)
(* surfaces (QR code, Telegram cart) is one action: this is the single-PC  *)
(* deployment, whose SQLite transactions take the write lock at BEGIN.     *)
(* Module OrderRaces splits the handlers that take no row lock, for        *)
(* PostgreSQL.  Stock, loyalty and fiscalization are switched off here     *)
(* (stock_enabled = False is their early return); notifications only       *)
(* report what happened.                                                   *)
(*                                                                         *)
(* Amounts are counted in the smallest unit of the currency; a whole soum, *)
(* to which a bill is rounded when it is paid, is Unit of them.            *)
(***************************************************************************)
EXTENDS Integers, FiniteSets, FiniteSetsExt, Functions

CONSTANTS
  Orders,       \* primary keys the order table may hand out
  Items,        \* order lines; each line id stands for one product
  Instant,      \* the lines whose product needs no kitchen (is_instant)
  Price,        \* price of a line's product
  Cashiers, Waiters, Admins,  \* staff; an empty set closes that surface
  SelfService,  \* TRUE when QR and Telegram orders are taken
  Tables, TableOf,            \* the table an order sits at, or NoTable
  NoTable, NoStaff,
  Percents,     \* pay-time discounts the till offers
  Unit,         \* smallest currency units in one whole soum
  MaxQuantity,  \* bound: quantity of one line
  MaxTotal,     \* bound: width of Order.total_amount
  MaxCash       \* bound: width of CashRegister.current_balance

ASSUME PricesAreAmounts ==
  /\ IsFiniteSet(Orders) /\ IsFiniteSet(Items)
  /\ Price \in [Items -> Nat]
  /\ Instant \subseteq Items
  /\ TableOf \in [Orders -> Tables \cup {NoTable}]
  /\ Percents \subseteq 0..100
  /\ {Unit, MaxQuantity} \subseteq Nat \ {0}
  /\ {MaxTotal, MaxCash} \subseteq Nat

VARIABLES
  order,     \* the order row
  item,      \* the order's OrderItem rows; quantity 0 is no row
  payment,   \* its OrderPayment rows: are there any, and their non-cash sum
  register,  \* CashRegister.current_balance
  table      \* Table.status

vars == <<order, item, payment, register, table>>

Status == {"OPEN", "PREPARING", "READY", "COMPLETED", "CANCELED"}
NotARow == {"NEW", "GONE"}   \* not yet created; hard-deleted
Method == {"NONE", "CASH", "CARD", "MIXED"}  \* NONE is NULL, CARD any non-cash one
TableStatus == {"AVAILABLE", "OCCUPIED", "RESERVED", "OUT_OF_SERVICE"}
Baskets == [Items -> 0..MaxQuantity] \ {[i \in Items |-> 0]}

OrderRow ==
  [status : Status \cup NotARow, ready_at : BOOLEAN, is_paid : BOOLEAN,
   payment_method : Method, total_amount : 0..MaxTotal,
   cashier : Cashiers \cup Waiters \cup {NoStaff}, is_deleted : BOOLEAN]
ItemRow == [quantity : 0..MaxQuantity, ready : BOOLEAN]
PaymentRows == [rows : BOOLEAN, noncash : 0..MaxTotal]

TypeOK ==
  /\ order \in [Orders -> OrderRow]
  /\ item \in [Orders -> [Items -> ItemRow]]
  /\ payment \in [Orders -> PaymentRows]
  /\ register \in Int
  /\ table \in [Tables -> TableStatus]

NoItems == [i \in Items |-> [quantity |-> 0, ready |-> FALSE]]
NoPayments == [rows |-> FALSE, noncash |-> 0]
NewRow == [status |-> "NEW", ready_at |-> FALSE, is_paid |-> FALSE,
           payment_method |-> "NONE", total_amount |-> 0,
           cashier |-> NoStaff, is_deleted |-> FALSE]

Init ==
  /\ order = [o \in Orders |-> NewRow]
  /\ item = [o \in Orders |-> NoItems]
  /\ payment = [o \in Orders |-> NoPayments]
  /\ register = 0
  /\ table = [t \in Tables |-> "AVAILABLE"]

-----------------------------------------------------------------------------
(* What the handlers share.                                                *)

IsRow(o) == order[o].status \notin NotARow
Live(o) == IsRow(o) /\ ~order[o].is_deleted      \* get_for_update, get_by_id

IsLine(rows, i) == rows[i].quantity > 0
AllReady(rows) ==
  /\ \E i \in Items : IsLine(rows, i)
  /\ \A i \in Items : IsLine(rows, i) => rows[i].ready
OrderTotal(rows) == SumFunction([i \in Items |-> Price[i] * rows[i].quantity])

\* _recalculate_total, for an order without OrderDiscount rows.
Recalculated(r, rows) == [r EXCEPT !.total_amount = OrderTotal(rows)]
\* (mutant) one ready line is taken for all of them
CheckedReadyTooSoon(r, rows) ==
  IF (\E i \in Items : rows[i].ready) /\ r.status # "READY"
  THEN [r EXCEPT !.status = "READY", !.ready_at = TRUE] ELSE r
\* _check_and_update_ready
CheckedReady(r, rows) ==
  IF AllReady(rows) /\ r.status # "READY"
  THEN [r EXCEPT !.status = "READY", !.ready_at = TRUE] ELSE r

\* Saving an order whose total does not fit its numeric column is an error.
SaveOrder(o, r) ==
  /\ r.total_amount \in 0..MaxTotal
  /\ order' = [order EXCEPT ![o] = r]
SaveItems(o, rows) == item' = [item EXCEPT ![o] = rows]

AddToRegister(amount) ==
  /\ register + amount \in -MaxCash..MaxCash
  /\ register' = register + amount

SetTable(o, status) ==
  table' = IF TableOf[o] = NoTable THEN table ELSE [table EXCEPT ![TableOf[o]] = status]

\* OrderItem.bulk_create: instant lines are born ready, and an order of nothing
\* else is ready the moment it is placed.
Placed(o, basket, status, staff) ==
  LET rows == [i \in Items |-> [quantity |-> basket[i], ready |-> basket[i] > 0 /\ i \in Instant]]
      ready == status = "PREPARING" /\ AllReady(rows)
  IN /\ order[o].status = "NEW"
     /\ SaveOrder(o, [NewRow EXCEPT !.status = IF ready THEN "READY" ELSE status,
                                    !.ready_at = ready,
                                    !.total_amount = OrderTotal(rows),
                                    !.cashier = staff])
     /\ SaveItems(o, rows)
     /\ UNCHANGED <<payment, register>>

\* (mutant) a paid order may be edited
EditableWhenPaid(o, statuses) == Live(o) /\ order[o].status \in statuses
Editable(o, statuses) == Live(o) /\ ~order[o].is_paid /\ order[o].status \in statuses

\* (mutant) the total is not recalculated when a line is added
LineAddedUncounted(o, i, q) ==
  /\ item[o][i].quantity = 0
  /\ SaveOrder(o, order[o])
  /\ SaveItems(o, [item[o] EXCEPT ![i] = [quantity |-> q, ready |-> i \in Instant]])
\* A line of an unready kitchen product grows; otherwise a new line is created.
LineAdded(o, i, q) ==
  LET old == item[o][i]
      rows == [item[o] EXCEPT ![i] =
                 IF old.quantity > 0 THEN [old EXCEPT !.quantity = @ + q]
                 ELSE [quantity |-> q, ready |-> i \in Instant]]
      reopen == i \notin Instant /\ order[o].ready_at
      r == IF reopen THEN [order[o] EXCEPT !.ready_at = FALSE, !.status = "PREPARING"]
           ELSE order[o]
  IN /\ old.quantity + q <= MaxQuantity
     /\ old.quantity > 0 => ~old.ready /\ i \notin Instant
     /\ SaveOrder(o, Recalculated(r, rows))
     /\ SaveItems(o, rows)

LineUpdated(o, i, q) ==
  LET rows == [item[o] EXCEPT ![i].quantity = q]
  IN /\ IsLine(item[o], i)
     /\ SaveOrder(o, Recalculated(order[o], rows))
     /\ SaveItems(o, rows)

\* The order goes with its last line, and its payment rows with the order.
LineRemoved(o, i, recheck) ==
  LET rows == [item[o] EXCEPT ![i] = NoItems[i]]
      r == IF recheck THEN CheckedReady(order[o], rows) ELSE order[o]
  IN /\ IsLine(item[o], i)
     /\ SaveItems(o, rows)
     /\ IF rows = NoItems
        THEN /\ SaveOrder(o, [NewRow EXCEPT !.status = "GONE"])
             /\ payment' = [payment EXCEPT ![o] = NoPayments]
        ELSE SaveOrder(o, Recalculated(r, rows)) /\ UNCHANGED payment

StatusSet(o, st) ==
  /\ SaveOrder(o, [order[o] EXCEPT !.status = st, !.ready_at = @ \/ st = "READY"])
  /\ SaveItems(o, IF st = "READY"
                  THEN [i \in Items |-> [item[o][i] EXCEPT !.ready = IsLine(item[o], i)]]
                  ELSE item[o])

ItemMarked(o, i) ==
  LET rows == [item[o] EXCEPT ![i].ready = TRUE]
  IN /\ Live(o) /\ order[o].status \notin {"CANCELED", "READY"}
     /\ IsLine(item[o], i) /\ ~item[o][i].ready
     /\ SaveItems(o, rows)
     /\ SaveOrder(o, CheckedReady(order[o], rows))

ItemUnmarked(o, i) ==
  /\ Live(o) /\ order[o].status # "CANCELED"
  /\ IsLine(item[o], i) /\ item[o][i].ready
  /\ SaveItems(o, [item[o] EXCEPT ![i].ready = FALSE])
  /\ SaveOrder(o, IF order[o].status = "READY"
                  THEN [order[o] EXCEPT !.status = "PREPARING", !.ready_at = FALSE]
                  ELSE order[o])

\* What cancelling takes back out of the drawer: the bill less what settled
\* elsewhere, or the whole bill of a cash order paid before payment rows existed.
CashInDrawer(o) ==
  IF payment[o].rows THEN order[o].total_amount - payment[o].noncash
  ELSE IF order[o].payment_method \in {"CASH", "NONE"} THEN order[o].total_amount ELSE 0
CashReversed(o) ==
  IF order[o].is_paid /\ CashInDrawer(o) > 0
  THEN AddToRegister(-CashInDrawer(o)) ELSE UNCHANGED register

-----------------------------------------------------------------------------
(* customers/services/order_service.py: cashiers and the kitchen display.  *)

CreateOrder(o, basket, staff) ==
  Placed(o, basket, "PREPARING", staff) /\ UNCHANGED table

AddItemToOrder(o, i, q) ==
  Editable(o, {"PREPARING"}) /\ LineAdded(o, i, q) /\ UNCHANGED <<payment, register, table>>

UpdateOrderItem(o, i, q) ==
  Editable(o, {"PREPARING"}) /\ LineUpdated(o, i, q) /\ UNCHANGED <<payment, register, table>>

RemoveItemFromOrder(o, i) ==
  Editable(o, {"PREPARING"}) /\ LineRemoved(o, i, TRUE) /\ UNCHANGED <<register, table>>

\* (mutant) a cancelled order may be set back to work
UpdateOrderStatusAnytime(o, st) ==
  /\ Live(o) /\ StatusSet(o, st)
  /\ IF st = "CANCELED" THEN CashReversed(o) ELSE UNCHANGED register
  /\ UNCHANGED <<payment, table>>
\* CANCELED is final: repeating it changes nothing, leaving it is refused.
UpdateOrderStatus(o, st) ==
  /\ Live(o) /\ order[o].status # "CANCELED"
  /\ StatusSet(o, st)
  /\ IF st = "CANCELED" THEN CashReversed(o) ELSE UNCHANGED register
  /\ UNCHANGED <<payment, table>>

MarkItemReady(o, i) == ItemMarked(o, i) /\ UNCHANGED <<payment, register, table>>

UnmarkItemReady(o, i) == ItemUnmarked(o, i) /\ UNCHANGED <<payment, register, table>>

MarkOrderReady(o) ==
  /\ Live(o) /\ order[o].status \notin {"CANCELED", "READY"}
  /\ StatusSet(o, "READY") /\ UNCHANGED <<payment, register, table>>

\* Rounded half up to a whole soum: total * (1 - pct / 100), quantized to 1.
EffectiveTotal(total, pct) ==
  ((total * (100 - pct) + 50 * Unit) \div (100 * Unit)) * Unit

\* The accepted payment lines for a bill, as their method and non-cash sum:
\* they cover the bill, and only cash may exceed it (the change).
Tenders(due) ==
  {[method |-> "CASH", noncash |-> 0], [method |-> "CARD", noncash |-> due]}
  \cup {[method |-> "MIXED", noncash |-> n] : n \in 1..due}

\* (mutant) nothing stops a second payment
MarkAsPaidAgain(o, staff, pct, tender) ==
  LET due == EffectiveTotal(order[o].total_amount, pct)
  IN /\ Live(o) /\ order[o].status # "CANCELED"
     /\ SaveOrder(o, [order[o] EXCEPT !.is_paid = TRUE, !.payment_method = tender.method])
     /\ payment' = [payment EXCEPT ![o] = [rows |-> TRUE, noncash |-> tender.noncash]]
     /\ AddToRegister(due - tender.noncash) /\ UNCHANGED <<item, table>>
MarkAsPaid(o, staff, pct, tender) ==
  LET r == order[o]
      due == EffectiveTotal(r.total_amount, pct)
      cash == due - tender.noncash
  IN /\ Live(o) /\ r.status # "CANCELED" /\ ~r.is_paid
     /\ tender \in Tenders(due)
     /\ SaveOrder(o, [r EXCEPT !.is_paid = TRUE, !.payment_method = tender.method,
                               !.cashier = IF @ = NoStaff THEN staff ELSE @,
                               !.total_amount = IF pct > 0 THEN due ELSE @])
     /\ payment[o].noncash + tender.noncash <= MaxTotal
     /\ payment' = [payment EXCEPT ![o] =
                      [rows |-> TRUE, noncash |-> @.noncash + tender.noncash]]
     /\ IF cash > 0 THEN AddToRegister(cash) ELSE UNCHANGED register
     /\ UNCHANGED <<item, table>>

-----------------------------------------------------------------------------
(* waiters/services/order_service.py: a waiter acts on their own orders.   *)

Serves(w, o) == order[o].cashier = w

WaiterCreateOrder(w, o, basket) ==
  Placed(o, basket, "PREPARING", w) /\ SetTable(o, "OCCUPIED")

WaiterAddItem(w, o, i, q) ==
  /\ Serves(w, o) /\ Editable(o, {"PREPARING"}) /\ LineAdded(o, i, q)
  /\ UNCHANGED <<payment, register, table>>

WaiterUpdateItem(w, o, i, q) ==
  /\ Serves(w, o) /\ Editable(o, {"PREPARING"}) /\ LineUpdated(o, i, q)
  /\ UNCHANGED <<payment, register, table>>

WaiterRemoveItem(w, o, i) ==
  /\ Serves(w, o) /\ Editable(o, {"PREPARING"}) /\ LineRemoved(o, i, FALSE)
  /\ IF order'[o].status = "GONE" THEN SetTable(o, "AVAILABLE") ELSE UNCHANGED table
  /\ UNCHANGED register

WaiterMarkReady(w, o) ==
  /\ Serves(w, o) /\ Live(o) /\ order[o].status \notin {"CANCELED", "READY"}
  /\ StatusSet(o, "READY") /\ UNCHANGED <<payment, register, table>>

WaiterCancelOrder(w, o) ==
  /\ Serves(w, o) /\ Live(o) /\ order[o].status # "CANCELED"
  /\ StatusSet(o, "CANCELED") /\ CashReversed(o)
  /\ SetTable(o, "AVAILABLE") /\ UNCHANGED payment

\* A waiter may set any table at which they have an order in progress.
UpdateTableStatus(w, t, st) ==
  /\ \E o \in Orders : /\ TableOf[o] = t /\ Live(o) /\ Serves(w, o)
                       /\ order[o].status \in {"PREPARING", "READY"}
  /\ table' = [table EXCEPT ![t] = st]
  /\ UNCHANGED <<order, item, payment, register>>

-----------------------------------------------------------------------------
(* admins/services/order_service.py                                        *)

AdminCreateOrder(o, basket, staff) ==
  Placed(o, basket, "PREPARING", staff) /\ UNCHANGED table

AdminAddItem(o, i, q) ==
  /\ Editable(o, {"PREPARING", "OPEN"}) /\ LineAdded(o, i, q)
  /\ UNCHANGED <<payment, register, table>>

AdminUpdateItem(o, i, q) ==
  /\ Editable(o, {"PREPARING", "OPEN"}) /\ LineUpdated(o, i, q)
  /\ UNCHANGED <<payment, register, table>>

AdminRemoveItem(o, i) ==
  /\ Editable(o, {"PREPARING", "OPEN"}) /\ LineRemoved(o, i, TRUE)
  /\ UNCHANGED <<register, table>>

\* Cancelling takes back the whole bill of a cash order and nothing of any other.
AdminUpdateStatus(o, st) ==
  LET r == order[o]
  IN /\ Live(o) /\ r.status # "CANCELED"
     /\ StatusSet(o, st)
     /\ IF st = "CANCELED" /\ r.is_paid /\ r.payment_method \in {"CASH", "NONE"}
        THEN AddToRegister(-r.total_amount) ELSE UNCHANGED register
     /\ UNCHANGED <<payment, table>>

\* One method, MIXED included, and no payment rows.
AdminMarkAsPaid(o, m) ==
  /\ Live(o) /\ order[o].status # "CANCELED" /\ ~order[o].is_paid
  /\ SaveOrder(o, [order[o] EXCEPT !.is_paid = TRUE, !.payment_method = m])
  /\ IF m = "CASH" THEN AddToRegister(order[o].total_amount) ELSE UNCHANGED register
  /\ UNCHANGED <<item, payment, table>>

AdminMarkAsUnpaid(o) ==
  LET r == order[o]
  IN /\ Live(o) /\ r.status # "CANCELED" /\ r.is_paid
     /\ SaveOrder(o, [r EXCEPT !.is_paid = FALSE, !.payment_method = "NONE"])
     /\ IF r.payment_method \in {"CASH", "NONE"}
        THEN AddToRegister(-r.total_amount) ELSE UNCHANGED register
     /\ UNCHANGED <<item, payment, table>>

AdminMarkOrderReady(o) ==
  /\ Live(o) /\ order[o].status \notin {"CANCELED", "READY"}
  /\ StatusSet(o, "READY") /\ UNCHANGED <<payment, register, table>>

AdminMarkItemReady(o, i) == ItemMarked(o, i) /\ UNCHANGED <<payment, register, table>>

AdminUnmarkItemReady(o, i) == ItemUnmarked(o, i) /\ UNCHANGED <<payment, register, table>>

\* A soft delete hides the row; a hard one takes its lines and payments along.
DeleteOrder(o, hard) ==
  /\ IF hard
     THEN /\ IsRow(o)
          /\ SaveOrder(o, [NewRow EXCEPT !.status = "GONE"])
          /\ SaveItems(o, NoItems)
          /\ payment' = [payment EXCEPT ![o] = NoPayments]
     ELSE /\ Live(o)
          /\ SaveOrder(o, [order[o] EXCEPT !.is_deleted = TRUE])
          /\ UNCHANGED <<item, payment>>
  /\ UNCHANGED <<register, table>>

RestoreOrder(o) ==
  /\ IsRow(o) /\ order[o].is_deleted
  /\ SaveOrder(o, [order[o] EXCEPT !.is_deleted = FALSE])
  /\ UNCHANGED <<item, payment, register, table>>

-----------------------------------------------------------------------------
(* notifications/services: orders a guest places without staff stay OPEN,  *)
(* with every line unready, until staff act on them.                       *)

SelfServiceOrder(o, basket) ==
  LET rows == [i \in Items |-> [quantity |-> basket[i], ready |-> FALSE]]
  IN /\ order[o].status = "NEW"
     /\ SaveOrder(o, [NewRow EXCEPT !.status = "OPEN", !.total_amount = OrderTotal(rows)])
     /\ SaveItems(o, rows)
     /\ UNCHANGED <<payment, register, table>>

CreateQrOrder(o, basket) == TableOf[o] # NoTable /\ SelfServiceOrder(o, basket)
Checkout(o, basket) == TableOf[o] = NoTable /\ SelfServiceOrder(o, basket)

-----------------------------------------------------------------------------
\* Handlers that lock the order row first (or create it), by surface.
LockedCashier(o) ==
  \/ \E b \in Baskets, s \in Cashiers \cup {NoStaff} : CreateOrder(o, b, s)
  \/ \E i \in Items, q \in 1..MaxQuantity : AddItemToOrder(o, i, q) \/ UpdateOrderItem(o, i, q)
  \/ \E i \in Items : RemoveItemFromOrder(o, i)
  \/ \E st \in {"PREPARING", "READY", "CANCELED"} : UpdateOrderStatus(o, st)
  \/ MarkOrderReady(o)
  \/ \E s \in Cashiers \cup {NoStaff}, p \in Percents :
       \E t \in Tenders(EffectiveTotal(order[o].total_amount, p)) : MarkAsPaid(o, s, p, t)
LockedWaiter(w, o) ==
  \/ \E b \in Baskets : WaiterCreateOrder(w, o, b)
  \/ \E i \in Items, q \in 1..MaxQuantity : WaiterAddItem(w, o, i, q) \/ WaiterUpdateItem(w, o, i, q)
  \/ \E i \in Items : WaiterRemoveItem(w, o, i)
  \/ WaiterMarkReady(w, o) \/ WaiterCancelOrder(w, o)
LockedAdmin(o) ==
  \/ \E b \in Baskets, s \in Cashiers \cup {NoStaff} : AdminCreateOrder(o, b, s)
  \/ \E i \in Items, q \in 1..MaxQuantity : AdminAddItem(o, i, q)
  \/ \E st \in Status \ {"OPEN"} : AdminUpdateStatus(o, st)
  \/ \E m \in Method \ {"NONE"} : AdminMarkAsPaid(o, m)
  \/ AdminMarkAsUnpaid(o) \/ AdminMarkOrderReady(o)
  \/ \E hard \in BOOLEAN : DeleteOrder(o, hard)
  \/ RestoreOrder(o)
Locked(o) ==
  \/ Cashiers # {} /\ LockedCashier(o)
  \/ \E w \in Waiters : LockedWaiter(w, o)
  \/ \E a \in Admins : LockedAdmin(o)
  \/ SelfService /\ \E b \in Baskets : CreateQrOrder(o, b) \/ Checkout(o, b)

\* Handlers that read the order without a lock and write it afterwards.
Unlocked(o) ==
  \/ Cashiers # {} /\ \E i \in Items : MarkItemReady(o, i) \/ UnmarkItemReady(o, i)
  \/ \E a \in Admins, i \in Items :
       \/ AdminMarkItemReady(o, i) \/ AdminUnmarkItemReady(o, i)
       \/ AdminRemoveItem(o, i)
       \/ \E q \in 1..MaxQuantity : AdminUpdateItem(o, i, q)

Seating == \E w \in Waiters, t \in Tables, st \in TableStatus : UpdateTableStatus(w, t, st)

Next == (\E o \in Orders : Locked(o) \/ Unlocked(o)) \/ Seating

Spec == Init /\ [][Next]_vars

-----------------------------------------------------------------------------
(* Properties.                                                             *)

\* The cash an order accounts for: its cash share while it is paid and stands.
CashShare(o) ==
  IF IsRow(o) /\ order[o].is_paid /\ order[o].status # "CANCELED" THEN CashInDrawer(o) ELSE 0

\* The drawer holds exactly the cash shares of the paid orders that were not
\* cancelled, whichever surface edited, paid, re-opened or cancelled them.
DrawerReconciles == register = SumFunction([o \in Orders |-> CashShare(o)])

\* No sequence of calls brings a cancelled order back: its row can only be
\* deleted.  (The kitchen treats CANCELLED as terminal.)
CanceledIsTerminal ==
  [][\A o \in Orders : order[o].status = "CANCELED" => order'[o].status \in {"CANCELED", "GONE"}]_vars

\* While an order stays paid nobody changes its bill, neither the total, against
\* which the cash was counted, nor what is on it.
PaidBillFrozen ==
  [][\A o \in Orders :
       order[o].is_paid /\ order'[o].is_paid =>
         /\ order'[o].total_amount = order[o].total_amount
         /\ \A i \in Items : item'[o][i].quantity = item[o][i].quantity]_vars

\* The kitchen display never shows READY over a line that is still cooking.
ReadyMeansCooked ==
  \A o \in Orders : order[o].status = "READY" => AllReady(item[o])

\* The drawer as the cashier understands it: a bill is due, settled once for
\* some cash, or void, and voiding returns exactly what settling brought.
Phase(o) == IF order[o].status \in {"CANCELED", "GONE"} THEN "void"
            ELSE IF order[o].is_paid THEN "settled" ELSE "due"
Ledger == INSTANCE Drawer WITH
            phase <- [o \in Orders |-> Phase(o)],
            held <- [o \in Orders |-> CashShare(o)]
ImplementsDrawer == Ledger!Spec
=============================================================================

----------------------------- MODULE StockMoves -----------------------------
(***************************************************************************)
(* Transfers between places: StockTransferService. A transfer has one item *)
(* (the handlers roll all items back when one fails), with the batch it    *)
(* moves or 0. The quantities a receiver reports are not among what is     *)
(* modelled: receive looks them up by integer ids in a JSON object, whose  *)
(* keys are strings, so it always books what was shipped.                  *)
(* And what comes in from a supplier, in the second half.                   *)
(***************************************************************************)
EXTENDS StockLevels, Sequences

CONSTANTS
  Moves,      \* transfers
  MaxAsked    \* bound: quantity of a transfer

ASSUME MoveAssumption == IsFiniteSet(Moves) /\ MaxAsked \in Nat

VARIABLE move

MoveStatus == {"none", "DRAFT", "REQUESTED", "APPROVED", "IN_TRANSIT", "RECEIVED", "CANCELED"}
Item == [good : Goods, batch : {0} \cup BatchIds, qty : 0 .. MaxAsked]
NoItem == [good |-> CHOOSE g \in Goods : TRUE, batch |-> 0, qty |-> 0]
Move == [status : MoveStatus, from : Places, to : Places, item : Item]

MovesInit ==
  move = [t \in Moves |-> [status |-> "none", from |-> CHOOSE p \in Places : TRUE,
                           to |-> CHOOSE p \in Places : TRUE, item |-> NoItem]]

MoveOnly(t, row) ==
  /\ move' = [move EXCEPT ![t] = row]
  /\ UNCHANGED <<levelVars, batch>>

HasItem(row) == row.item.qty > 0
\* add_item takes a batch of the good that lies at the place of departure.
Fits(i, from) == i.batch # 0 => /\ i.batch \in DOMAIN batch
                                /\ batch[i.batch].good = i.good /\ batch[i.batch].place = from

\* create, with an item or empty; the item that does not fit leaves it empty.
CreateMove(t, from, to, i) ==
  /\ move[t].status = "none"
  /\ from # to
  /\ MoveOnly(t, [status |-> "DRAFT", from |-> from, to |-> to,
                  item |-> IF Fits(i, from) THEN i ELSE NoItem])

\* add_item: to the same good and batch again, or the first.
AddItem(t, i) ==
  /\ move[t].status \in {"DRAFT", "REQUESTED"}
  /\ i.qty > 0 /\ Fits(i, move[t].from)
  /\ \/ ~HasItem(move[t])
     \/ i.good = move[t].item.good /\ i.batch = move[t].item.batch
  /\ move[t].item.qty + i.qty <= MaxAsked
  /\ MoveOnly(t, [move[t] EXCEPT !.item = [i EXCEPT !.qty = @ + move[t].item.qty]])

\* update: to any places, the same twice included; the batch stays.
Relocate(t, from, to) ==
  /\ move[t].status \in {"DRAFT", "REQUESTED"}
  /\ MoveOnly(t, [move[t] EXCEPT !.from = from, !.to = to])

RequestMove(t) ==
  /\ move[t].status = "DRAFT" /\ HasItem(move[t])
  /\ MoveOnly(t, [move[t] EXCEPT !.status = "REQUESTED"])

\* approve: what is reserved is not free to go, and nothing is reserved for it.
CanApprove(row) ==
  setting.negative \/ ~HasItem(row) \/ row.item.qty <= Available(level, row.item.good, row.from)
ApproveMove(t) ==
  /\ move[t].status \in {"DRAFT", "REQUESTED"}
  /\ CanApprove(move[t])
  /\ MoveOnly(t, [move[t] EXCEPT !.status = "APPROVED"])

\* ship: the batch, then the level; both or neither.
CanShip(row) ==
  /\ row.item.batch # 0 => batch[row.item.batch].qty >= row.item.qty
  /\ CanTake(level, row.from, Just(row.item.good, row.item.qty))
Debited(row) ==
  IF row.item.batch # 0 THEN [batch EXCEPT ![row.item.batch].qty = @ - row.item.qty] ELSE batch
ShipMove(t) ==
  /\ move[t].status = "APPROVED"
  /\ CanShip(move[t])
  /\ move' = [move EXCEPT ![t].status = "IN_TRANSIT"]
  /\ level' = Take(level, move[t].from, Just(move[t].item.good, move[t].item.qty))
  /\ batch' = Debited(move[t])
  /\ UNCHANGED setting

\* receive: what was shipped, in a batch of its own when it left in one.
Landed(row, b) ==
  IF row.item.batch # 0 THEN NewBatch(b, row.item.good, row.to, row.item.qty) ELSE b
ReceiveMove(t) ==
  /\ move[t].status = "IN_TRANSIT"
  /\ move[t].item.batch # 0 => HasRoom(batch)
  /\ move' = [move EXCEPT ![t].status = "RECEIVED"]
  /\ level' = Put(level, move[t].to, Just(move[t].item.good, move[t].item.qty))
  /\ batch' = Landed(move[t], batch)
  /\ UNCHANGED setting

\* cancel, from any open status: what is under way returns to its level, not its batch.
\* (mutant) only what was approved can be cancelled, and nothing returns
CancelLosing(t) ==
  /\ move[t].status \in {"DRAFT", "REQUESTED", "APPROVED", "IN_TRANSIT"}
  /\ MoveOnly(t, [move[t] EXCEPT !.status = "CANCELED"])
CancelMove(t) ==
  /\ move[t].status \in {"DRAFT", "REQUESTED", "APPROVED", "IN_TRANSIT"}
  /\ move' = [move EXCEPT ![t].status = "CANCELED"]
  /\ level' = IF move[t].status = "IN_TRANSIT"
                THEN Put(level, move[t].from, Just(move[t].item.good, move[t].item.qty))
                ELSE level
  /\ UNCHANGED <<setting, batch>>

\* quick_transfer: create, approve, ship and receive, as far as each of them goes; what
\* was done stays.
QuickMove(t, from, to, i) ==
  LET row == [status |-> "DRAFT", from |-> from, to |-> to, item |-> i]
  IN  /\ move[t].status = "none"
      /\ from # to /\ i.qty > 0
      /\ IF ~Fits(i, from)
           THEN MoveOnly(t, [row EXCEPT !.item = NoItem])
         ELSE IF ~CanApprove(row)
           THEN MoveOnly(t, row)
         ELSE IF ~CanShip(row)
           THEN MoveOnly(t, [row EXCEPT !.status = "APPROVED"])
         ELSE /\ HasRoom(batch)
              /\ move' = [move EXCEPT ![t] = [row EXCEPT !.status = "RECEIVED"]]
              /\ level' = Put(Take(level, from, Just(i.good, i.qty)), to, Just(i.good, i.qty))
              /\ batch' = Landed(row, Debited(row))
              /\ UNCHANGED setting

InTransit(g) ==
  SumFunction([t \in Moves |-> IF move[t].status = "IN_TRANSIT" /\ move[t].item.good = g
                                 THEN move[t].item.qty ELSE 0])

-----------------------------------------------------------------------------
(* Buying: PurchaseOrderService, PurchaseReceivingService and the ledger   *)
(* of the supplier they are bought from (SupplierLedgerService). One order *)
(* of one good, at a price of one, received in several deliveries. Amounts *)
(* other than quantities, and the average cost, are not modelled, nor what *)
(* no view calls: record_payment, update_item, add_all_pending,            *)
(* create_from_low_stock and remove.                                       *)

CONSTANTS
  Bought,        \* the good
  Dock,          \* delivery_location
  Deliveries,    \* receivings
  Lots,          \* batch numbers a delivery may name; NoLot: it names none
  NoLot,
  MaxOrdered, MaxPaid    \* bounds

ASSUME BuyAssumption ==
  /\ Bought \in Goods /\ Dock \in Places /\ NoLot \notin Lots
  /\ MaxOrdered \in Nat /\ MaxPaid \in Nat

VARIABLES
  buy,         \* the purchase order
  delivery,    \* its receivings
  supplier     \* the supplier, with its ledger

buyVars == <<buy, delivery, supplier>>

BuyStatus == {"none", "DRAFT", "SENT", "CONFIRMED", "PARTIAL", "RECEIVED", "CANCELED"}
Buy == [status : BuyStatus, ordered : Nat, received : Nat]
Delivery == [status : {"none", "DRAFT", "COMPLETED"},
             rows : Seq([qty : Nat \ {0}, lot : Lots \cup {NoLot}])]
\* balance is what is owed; due and paid are its PURCHASE and PAYMENT rows, summed;
\* lots, the batch numbers used.
Supplier == [active : BOOLEAN, balance : Int, due : Nat, paid : Nat, lots : SUBSET Lots]

BuysInit ==
  /\ buy = [status |-> "none", ordered |-> 0, received |-> 0]
  /\ delivery = [d \in Deliveries |-> [status |-> "none", rows |-> <<>>]]
  /\ supplier = [active |-> TRUE, balance |-> 0, due |-> 0, paid |-> 0, lots |-> {}]

BuyOnly(row) == buy' = row /\ UNCHANGED <<delivery, supplier, levelVars, batch>>

\* create, with the line or without.
CreateBuy(n) ==
  /\ buy.status = "none" /\ supplier.active
  /\ BuyOnly([buy EXCEPT !.status = "DRAFT", !.ordered = n])
\* PurchaseOrderItemService: add and update_item, in DRAFT.
AddLine(n) ==
  /\ buy.status = "DRAFT" /\ buy.ordered = 0
  /\ BuyOnly([buy EXCEPT !.ordered = n])
UpdateLine(n) ==
  /\ buy.status = "DRAFT" /\ buy.ordered > 0 /\ n # buy.ordered
  /\ BuyOnly([buy EXCEPT !.ordered = n])
SendBuy ==
  /\ buy.status = "DRAFT" /\ buy.ordered > 0
  /\ BuyOnly([buy EXCEPT !.status = "SENT"])
ConfirmBuy == buy.status = "SENT" /\ BuyOnly([buy EXCEPT !.status = "CONFIRMED"])
CancelBuy ==
  /\ buy.status \in {"DRAFT", "SENT", "CONFIRMED", "PARTIAL"}
  /\ \A d \in Deliveries : delivery[d].status # "COMPLETED"
  /\ BuyOnly([buy EXCEPT !.status = "CANCELED"])

-----------------------------------------------------------------------------
(* Receivings.                                                             *)

CreateDelivery(d) ==
  /\ delivery[d].status = "none"
  /\ buy.status \in {"CONFIRMED", "PARTIAL"}
  /\ delivery' = [delivery EXCEPT ![d].status = "DRAFT"]
  /\ UNCHANGED <<buy, supplier, levelVars, batch>>

\* (mutant) more than is pending may arrive
DeliverMore(d, n, lot) ==
  /\ delivery[d].status = "DRAFT" /\ Len(delivery[d].rows) < 2
  /\ n <= buy.ordered
  /\ delivery' = [delivery EXCEPT ![d].rows = Append(@, [qty |-> n, lot |-> lot])]
  /\ UNCHANGED <<buy, supplier, levelVars, batch>>
\* add_item: no more than is pending now, whatever other rows there are.
AddDelivered(d, n, lot) ==
  /\ delivery[d].status = "DRAFT" /\ Len(delivery[d].rows) < 2
  /\ n <= buy.ordered - buy.received
  /\ delivery' = [delivery EXCEPT ![d].rows = Append(@, [qty |-> n, lot |-> lot])]
  /\ UNCHANGED <<buy, supplier, levelVars, batch>>

\* The rows complete books before one names a batch number that is taken.
Booked(rows) ==
  LET Clash(k) == /\ Bought \in Tracked /\ rows[k].lot # NoLot
                  /\ \/ rows[k].lot \in supplier.lots
                     \/ \E j \in 1 .. k - 1 : rows[j].lot = rows[k].lot
      clashes == {k \in DOMAIN rows : Clash(k)}
  IN  IF clashes = {} THEN rows ELSE SubSeq(rows, 1, Min(clashes) - 1)
Total(rows) == SumFunction([k \in DOMAIN rows |-> rows[k].qty])
BatchPerRow(rows) ==
  IF Bought \notin Tracked THEN batch
  ELSE [i \in DOMAIN batch \cup (Cardinality(DOMAIN batch) + 1 .. Cardinality(DOMAIN batch) + Len(rows)) |->
          IF i \in DOMAIN batch THEN batch[i]
          ELSE [good |-> Bought, place |-> Dock, qty |-> rows[i - Cardinality(DOMAIN batch)].qty]]

\* _update_po_status, whatever the order's status was.
StatusAfter(received) ==
  IF received >= buy.ordered THEN "RECEIVED"
  ELSE IF received > 0 THEN "PARTIAL" ELSE buy.status

Owed(s, n) == [s EXCEPT !.balance = @ + n, !.due = @ + n]

\* complete: goods, batches and counts row by row; when a row fails those before it
\* stay, the delivery stays a draft and nothing is owed.
CompleteDelivery(d) ==
  LET rows == delivery[d].rows
      done == Booked(rows)
      n == Total(done)
      named == {done[k].lot : k \in DOMAIN done} \ {NoLot}
      lotted == [supplier EXCEPT !.lots = @ \cup named]
  IN  /\ delivery[d].status = "DRAFT" /\ rows # <<>>
      /\ Bought \in Tracked => Cardinality(DOMAIN batch) + Len(done) <= NumBatches
      /\ level' = Put(level, Dock, Just(Bought, n))
      /\ batch' = BatchPerRow(done)
      /\ IF done = rows
           THEN /\ delivery' = [delivery EXCEPT ![d].status = "COMPLETED"]
                /\ buy' = [buy EXCEPT !.received = @ + n, !.status = StatusAfter(buy.received + n)]
                /\ supplier' = Owed(lotted, n)
           ELSE /\ buy' = [buy EXCEPT !.received = @ + n]
                /\ supplier' = lotted
                /\ UNCHANGED delivery
      /\ UNCHANGED setting

-----------------------------------------------------------------------------
(* The supplier.                                                           *)

\* pay_supplier, when the treasury has it, and record_drawer_payment.
PaySupplier(n) ==
  /\ supplier.paid + n <= MaxPaid
  /\ supplier' = [supplier EXCEPT !.balance = @ - n, !.paid = @ + n]
  /\ UNCHANGED <<buy, delivery, levelVars, batch>>

\* deactivate.
Pending == {"DRAFT", "SENT", "CONFIRMED", "PARTIAL"}
DeactivateSupplier ==
  /\ supplier.active /\ buy.status \notin Pending
  /\ supplier' = [supplier EXCEPT !.active = FALSE]
  /\ UNCHANGED <<buy, delivery, levelVars, batch>>
=============================================================================

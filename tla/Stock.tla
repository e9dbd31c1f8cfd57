-------------------------------- MODULE Stock --------------------------------
(***************************************************************************)
(* The stock: every document that moves goods, on the same levels and      *)
(* batches. A handler is one transaction and the database of a branch has  *)
(* one writer, so handlers interleave and do not overlap; complete of a    *)
(* production order, which begins before its transaction, is two steps.    *)
(* A behaviour has a scene: the kinds of documents that are used and the   *)
(* complications that may happen.                                          *)
(***************************************************************************)
EXTENDS StockOrders, StockMakes, StockMoves, StockCounts

CONSTANTS Scenes    \* each scene considered, with its settings

Document == {"orders", "makes", "moves", "buys", "counts", "hands"}
\* An order deducted again, or paid again; edited; an edited order cancelled; two
\* completions of a production order, and one of a cancelled one; a production order
\* cancelled that holds ingredients and is not PLANNED or IN_PROGRESS; a transfer
\* cancelled on its way, or moved elsewhere with its batch; two deliveries in draft, or
\* a cancelled order's; a batch number used twice; more than one
\* count; goods moved while they are counted.
Complication ==
  {"reopen", "repay", "edit", "edit_cancel", "two_completes", "odd_cancel",
   "cancel_in_transit", "relocate", "late_delivery", "lot_clash", "recount",
   "moved_while_counted"}

ASSUME SceneAssumption ==
  /\ DOMAIN Scenes \subseteq SUBSET (Document \cup Complication)
  /\ Scenes \in [DOMAIN Scenes -> SUBSET Setting]

VARIABLE scene

documents == <<ticket, book, make, move, buyVars, countVars>>
vars == <<scene, levelVars, batch, documents>>

Init ==
  /\ scene \in DOMAIN Scenes
  /\ setting \in Scenes[scene]
  /\ LevelsInit /\ BatchesInit /\ OrdersInit /\ MakesInit /\ MovesInit /\ BuysInit /\ CountsInit

With(what) == what \in scene
Only(what, happens) == happens => With(what)

-----------------------------------------------------------------------------
(* The steps of each kind of document.                                     *)

OrderStep ==
  \/ \E o \in Orders, basket \in Baskets, status \in {"PREPARING", "READY"} :
       StockCreate(o, basket, status)
  \/ \E o \in Orders, status \in {"PREPARING", "READY", "CANCELED"} :
       /\ Only("reopen", status = setting.deduct /\ book[o].sold # Nothing)
       /\ Only("edit_cancel", status = "CANCELED" /\ ticket[o].edits > 0)
       /\ StockSetStatus(o, status)
  \/ \E o \in Orders : StockCooked(o)
  \/ \E o \in Orders : StockPay(o)
  \/ With("repay") /\ \E o \in Orders : StockUnpay(o)
  \/ With("edit") /\ \E o \in Orders, product \in Products, n \in 0 .. 2 : StockEdit(o, product, n)

MakeStep ==
  \E m \in Makes :
    \/ \E allocate \in BOOLEAN : CreateMake(m, allocate)
    \/ PlanMake(m)
    \/ StartMake(m)
    \/ HoldMake(m)
    \/ ResumeMake(m)
    \/ /\ Only("two_completes", make[m].checked > 0)
       /\ Only("odd_cancel", make[m].inputs = "ALLOCATED"
                               /\ make[m].status \notin {"PLANNED", "IN_PROGRESS"})
       /\ CancelMake(m)
    \/ Only("two_completes", make[m].checked > 0) /\ CheckMake(m)
    \/ CompleteMake(m)

MoveStep ==
  \E t \in Moves :
    \/ \E from, to \in Places, g \in Goods, i \in {0} \cup DOMAIN batch, n \in 0 .. MaxAsked :
         LET item == [good |-> g, batch |-> i, qty |-> n]
         IN  /\ (i = 0) = (g \notin Tracked)
             /\ n = 0 => item = NoItem
             /\ CreateMove(t, from, to, item) \/ QuickMove(t, from, to, item)
    \/ \E g \in Goods, i \in {0} \cup DOMAIN batch, n \in 1 .. MaxAsked :
         (i = 0) = (g \notin Tracked) /\ AddItem(t, [good |-> g, batch |-> i, qty |-> n])
    \/ With("relocate") /\ \E from, to \in Places : Relocate(t, from, to)
    \/ RequestMove(t)
    \/ ApproveMove(t)
    \/ ShipMove(t)
    \/ ReceiveMove(t)
    \/ Only("cancel_in_transit", move[t].status = "IN_TRANSIT") /\ CancelMove(t)

\* No other delivery is a draft, and the order is open.
Sole(d) ==
  /\ \A e \in Deliveries \ {d} : delivery[e].status # "DRAFT"
  /\ Len(delivery[d].rows) = 0
BuyStep ==
  \/ \E n \in 0 .. MaxOrdered : CreateBuy(n)
  \/ \E n \in 1 .. MaxOrdered : AddLine(n) \/ UpdateLine(n)
  \/ SendBuy
  \/ ConfirmBuy
  \/ /\ Only("late_delivery", \E d \in Deliveries : delivery[d].status = "DRAFT")
     /\ CancelBuy
  \/ \E d \in Deliveries : Only("late_delivery", ~Sole(d)) /\ CreateDelivery(d)
  \/ \E d \in Deliveries, n \in 1 .. MaxOrdered, lot \in Lots \cup {NoLot} :
       /\ Only("late_delivery", ~Sole(d))
       /\ Only("lot_clash", lot \in supplier.lots \/ Len(delivery[d].rows) > 0)
       /\ AddDelivered(d, n, lot)
  \/ \E d \in Deliveries : CompleteDelivery(d)
  \/ \E n \in 1 .. MaxPaid : PaySupplier(n)
  \/ DeactivateSupplier

CountStep ==
  \/ \E c \in Counts, p \in Places, scope \in Scopes, auto \in BOOLEAN :
       /\ Only("recount", \E d \in Counts : count[d].status # "none")
       /\ CreateCount(c, p, scope, auto)
  \/ \E c \in Counts :
       \/ StartCount(c)
       \/ \E line \in count[c].lines : RecordCount(c, line)
       \/ CompleteCount(c)
       \/ \E apply \in BOOLEAN : ApproveCount(c, apply)
       \/ CancelCount(c)
  \/ \E g \in Goods, p \in Places : Lose(g, p)

HandStep ==
  \E g \in Handled, p \in Places, n \in {-1, 1} :
    corrected[<<g, p>>] + n \in -1 .. 1 /\ AdjustByHand(g, p, n)

-----------------------------------------------------------------------------
Still == Counting => UNCHANGED <<level, batch>> \/ With("moved_while_counted")
Next ==
  /\ UNCHANGED scene
  /\ \/ /\ With("orders") /\ OrderStep /\ Still
        /\ UNCHANGED <<batch, make, move, buyVars, countVars>>
     \/ /\ With("makes") /\ MakeStep /\ Still
        /\ UNCHANGED <<ticket, book, move, buyVars, countVars>>
     \/ /\ With("moves") /\ MoveStep /\ Still
        /\ UNCHANGED <<ticket, book, make, buyVars, countVars>>
     \/ /\ With("buys") /\ BuyStep /\ Still
        /\ UNCHANGED <<ticket, book, make, move, countVars>>
     \/ /\ With("counts") /\ CountStep
        /\ UNCHANGED <<ticket, book, make, move, buyVars>>
     \/ /\ With("hands") /\ HandStep /\ Still
        /\ UNCHANGED <<ticket, book, make, move, buyVars>>

Spec == Init /\ [][Next]_vars

-----------------------------------------------------------------------------

\* Every variable keeps its type.
TypeOK ==
  /\ scene \in DOMAIN Scenes /\ setting \in Scenes[scene]
  /\ level \in [Goods \X Places -> Level]
  /\ \E n \in 0 .. NumBatches : batch \in [1 .. n -> Batch]
  /\ ticket \in [Orders -> Ticket] /\ book \in [Orders -> Book]
  /\ make \in [Makes -> Make]
  /\ move \in [Moves -> Move]
  /\ buy \in Buy /\ delivery \in [Deliveries -> Delivery] /\ supplier \in Supplier
  /\ count \in [Counts -> Count]
  /\ astray \in [Goods \X Places -> Int] /\ lost \in [Goods \X Places -> Nat]
  /\ corrected \in [Goods \X Places -> Int]

\* What is reserved at a place is what the open orders and production orders reserved:
\* nothing is released twice, or kept by one that is cancelled (level_service.py:377).
HeldIsReserved ==
  "odd_cancel" \notin scene =>
    \A g \in Goods, p \in Places :
      level[<<g, p>>].held =
        (IF p = Counter
           THEN SumFunction([o \in Orders |-> IF ticket[o].status = "CANCELED" THEN 0
                                              ELSE HeldBy(o)[g]])
           ELSE 0)
        + (IF p = Workshop THEN SumFunction([m \in Makes |-> HeldByMake(m)[g]]) ELSE 0)

\* A cancelled order has given back all it took, and no more (order_service.py:209-215).
CanceledGivesBack == \A o \in Orders : ticket[o].status = "CANCELED" => Taken(o) = Nothing
\* Any other has taken what its lines need, or nothing. An edit keeps it so only where each
\* good can be had and the setting says to follow edits (order_service.py:463): with it off,
\* an order that was deducted and then edited keeps what it took for its former lines.
OrdersTakeWhatTheyNeed ==
  scene \cap {"reopen", "repay"} = {} =>
    /\ "edit_cancel" \notin scene => CanceledGivesBack
    /\ "edit" \notin scene \/ (setting.negative /\ setting.adjusts) =>
         \A o \in Orders :
           ticket[o].status # "CANCELED" => Taken(o) \in {Nothing, Needs(ticket[o].lines)}

\* The goods whose batches nothing passes over: a sale and a by-product move levels only.
InBatches ==
  {g \in Tracked : /\ \A product \in Products : Uses[product][g] = 0
                   /\ \A m \in Makes : Besides[m][g] = 0}
\* The batches of such a good hold what its level says, at every place.
BatchesMatchLevels ==
  scene \cap {"cancel_in_transit", "relocate"} = {} =>
    \A g \in InBatches, p \in Places : Batched(batch, g, p) = level[<<g, p>>].qty

\* The levels of a good are its opening stock with what the documents say was received,
\* made, corrected, taken, used and is on its way.
LevelsMatchDocuments ==
  "two_completes" \notin scene =>
    \A g \in Goods :
      Stocked(level, g) =
        SumFunction([p \in Places |-> Opening[<<g, p>>]])
        + (IF g = Bought THEN buy.received ELSE 0)
        - SumFunction([o \in Orders |-> Taken(o)[g]])
        + SumFunction([m \in Makes |-> MadeBy(m)[g]])
        - InTransit(g)
        + SumFunction([p \in Places |-> corrected[<<g, p>>]])

\* What was received of the supplier is owed until it is paid, no more was received than
\* ordered, and a supplier with an open order is active (purchase_service.py:842-844).
SupplierIsOwed ==
  /\ "lot_clash" \notin scene => supplier.balance = buy.received - supplier.paid
  /\ "late_delivery" \notin scene => buy.received <= buy.ordered
  /\ "late_delivery" \notin scene => (buy.status \in Pending => supplier.active)

\* The levels claim no more than was lost beyond what there is, and never less than there
\* is: a count that is applied corrects, and invents nothing (count_service.py:457-466).
CountsFindTheTruth ==
  "moved_while_counted" \notin scene =>
    \A x \in Goods \X Places : astray[x] \in -lost[x] .. 0
=============================================================================

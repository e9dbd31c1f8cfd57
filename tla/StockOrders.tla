----------------------------- MODULE StockOrders -----------------------------
(***************************************************************************)
(* What orders do to the stock: OrderStockService, and OrderStatusHandler  *)
(* as the customers', waiters' and admins' order services call it. Each of *)
(* their handlers is one transaction; what the handler of the stock        *)
(* answers, and what it raises, they ignore. Of an order only what these   *)
(* calls depend on is kept, the bill is in Orders: its status (COMPLETED,  *)
(* which only an admin sets, is not told from READY), whether it is paid,  *)
(* its quantities, and its StockTransaction rows, summed.                  *)
(***************************************************************************)
EXTENDS StockLevels

CONSTANTS
  Orders, Products,
  Uses,       \* product -> what one sold takes (ProductStockLink)
  Baskets,    \* the quantities an order is created with
  Counter,    \* the default location
  MaxEdits, MaxSold    \* bounds: edits of an order, goods sold on it

ASSUME OrderStockAssumption ==
  /\ Uses \in [Products -> Quantities]
  /\ Baskets \subseteq [Products -> Nat]
  /\ Counter \in Places
  /\ IsFiniteSet(Orders) /\ IsFiniteSet(Products)
  /\ MaxEdits \in Nat /\ MaxSold \in Nat

VARIABLES
  ticket,    \* the orders
  book       \* their stock transactions

orderVars == <<ticket, book>>

Ticket == [status : {"none", "PREPARING", "READY", "CANCELED", "deleted"}, paid : BOOLEAN,
           lines : [Products -> Nat], edits : Nat]
\* SALE_OUT, RETURN_FROM_CUSTOMER and RESERVATION rows; whether a reversal or a
\* release is among them.
Book == [sold : Quantities, back : Quantities, held : Quantities,
         reversed : BOOLEAN, released : BOOLEAN]

OrdersInit ==
  /\ ticket = [o \in Orders |-> [status |-> "none", paid |-> FALSE, edits |-> 0,
                                 lines |-> [p \in Products |-> 0]]]
  /\ book = [o \in Orders |-> [sold |-> Nothing, back |-> Nothing, held |-> Nothing,
                               reversed |-> FALSE, released |-> FALSE]]

-----------------------------------------------------------------------------
(* OrderStockService, on the levels and the book of one order.             *)

\* What lines take, by get_deduction_items.
Needs(lines) == [g \in Goods |-> SumFunction([p \in Products |-> lines[p] * Uses[p][g]])]

\* (mutant) no check for an earlier release
ReleaseAgain(s) ==
  IF CanRelease(s.level, Counter, s.book.held)
    THEN [level |-> Release(s.level, Counter, s.book.held),
          book |-> [s.book EXCEPT !.released = @ \/ s.book.held # Nothing]]
    ELSE s
ReserveForOrder(s, need) ==
  IF setting.reserve /\ CanHold(s.level, Counter, need)
    THEN [level |-> Hold(s.level, Counter, need),
          book |-> [s.book EXCEPT !.held = Plus(@, need)]]
    ELSE s

ReleaseReservation(s) ==
  IF s.book.released \/ ~CanRelease(s.level, Counter, s.book.held)
    THEN s
    ELSE [level |-> Release(s.level, Counter, s.book.held),
          book |-> [s.book EXCEPT !.released = s.book.held # Nothing]]

Deducted(s, need) ==
  [level |-> Take(s.level, Counter, need), book |-> [s.book EXCEPT !.sold = Plus(@, need)]]
\* (mutant) what there is of each good is deducted, a shortage of another or not
DeductEach(s, need) ==
  LET got == [g \in Goods |-> IF CanTake(s.level, Counter, Just(g, need[g])) THEN need[g] ELSE 0]
  IN  Deducted(s, got)
DeductForOrder(s, need) == IF CanTake(s.level, Counter, need) THEN Deducted(s, need) ELSE s

\* Every SALE_OUT row is returned, once in the order's life.
ReverseDeduction(s) ==
  IF s.book.reversed \/ s.book.sold = Nothing
    THEN s
    ELSE [level |-> Put(s.level, Counter, s.book.sold),
          book |-> [s.book EXCEPT !.back = Plus(@, s.book.sold), !.reversed = TRUE]]

\* adjust_for_item_change: only with auto_deduct_on_sale, at which the deduction itself and
\* its reversal do not look, and for an order that was deducted; a good that lacks is passed
\* over.
AdjustForItemChange(s, product, delta) ==
  IF ~setting.adjusts \/ s.book.sold = Nothing
    THEN s
    ELSE LET moved == [g \in Goods |-> (IF delta > 0 THEN delta ELSE -delta) * Uses[product][g]]
             got == [g \in Goods |-> IF CanTake(s.level, Counter, Just(g, moved[g]))
                                       THEN moved[g] ELSE 0]
         IN  IF delta > 0
               THEN Deducted(s, got)
               ELSE [level |-> Put(s.level, Counter, moved),
                     book |-> [s.book EXCEPT !.back = Plus(@, moved)]]

\* OrderStatusHandler.on_status_change.
OnStatusChange(s0, old, new, need) ==
  LET s1 == IF old = "none" THEN ReserveForOrder(s0, need) ELSE s0
      Released(s) == IF setting.reserve THEN ReleaseReservation(s) ELSE s
      s2 == IF new = setting.deduct THEN DeductForOrder(Released(s1), need) ELSE s1
  IN  IF new = "CANCELED" THEN ReverseDeduction(Released(s2)) ELSE s2

-----------------------------------------------------------------------------
(* The handlers of the order services.                                     *)

Books(o) == [level |-> level, book |-> book[o]]
Becomes(o, t, s) ==
  /\ ticket' = [ticket EXCEPT ![o] = t]
  /\ level' = s.level
  /\ book' = [book EXCEPT ![o] = s.book]
  /\ UNCHANGED setting
Bounded(o) == \A g \in Goods : book[o].sold[g] <= MaxSold

\* create_order: the handler hears PREPARING, be the order READY (all instant) or not.
StockCreate(o, basket, status) ==
  /\ ticket[o].status = "none"
  /\ status \in {"PREPARING", "READY"}
  /\ Becomes(o, [ticket[o] EXCEPT !.status = status, !.lines = basket],
             OnStatusChange(Books(o), "none", "PREPARING", Needs(basket)))

\* update_order_status and cancel_order: to any status, the same again included.
StockSetStatus(o, status) ==
  /\ ticket[o].status \in {"PREPARING", "READY"}
  /\ status \in {"PREPARING", "READY", "CANCELED"}
  /\ Bounded(o)
  /\ Becomes(o, [ticket[o] EXCEPT !.status = status],
             OnStatusChange(Books(o), ticket[o].status, status, Needs(ticket[o].lines)))

\* The chef's mark_order_ready and mark_item_ready do not call the handler.
StockCooked(o) ==
  /\ ticket[o].status = "PREPARING"
  /\ Becomes(o, [ticket[o] EXCEPT !.status = "READY"], Books(o))

\* mark_as_paid.
StockPay(o) ==
  /\ ticket[o].status \in {"PREPARING", "READY"} /\ ~ticket[o].paid
  /\ Bounded(o)
  /\ Becomes(o, [ticket[o] EXCEPT !.paid = TRUE],
             IF setting.deduct = "PAID"
               THEN OnStatusChange(Books(o), ticket[o].status, "PAID", Needs(ticket[o].lines))
               ELSE Books(o))

\* The admins' mark_as_unpaid.
StockUnpay(o) ==
  /\ ticket[o].status \in {"PREPARING", "READY"} /\ ticket[o].paid
  /\ Becomes(o, [ticket[o] EXCEPT !.paid = FALSE],
             IF setting.deduct = "PAID" THEN ReverseDeduction(Books(o)) ELSE Books(o))

\* add_item_to_order, update_order_item and remove_item_from_order; the rest of the
\* lines may be cooked, and without lines the order is deleted.
StockEdit(o, product, n) ==
  LET t == ticket[o]
      lines == [t.lines EXCEPT ![product] = n]
  IN  /\ t.status = "PREPARING" /\ ~t.paid
      /\ n # t.lines[product]
      /\ t.edits < MaxEdits
      /\ \E status \in {"PREPARING", "READY"} :
           /\ status = "READY" => n = 0
           /\ Becomes(o, [t EXCEPT !.lines = lines, !.edits = @ + 1,
                            !.status = IF \A p \in Products : lines[p] = 0
                                         THEN "deleted" ELSE status],
                      AdjustForItemChange(Books(o), product, n - t.lines[product]))

-----------------------------------------------------------------------------
\* What an order has taken and not returned, and what it has reserved.
Taken(o) == Minus(book[o].sold, book[o].back)
HeldBy(o) == IF book[o].released THEN Nothing ELSE book[o].held
=============================================================================

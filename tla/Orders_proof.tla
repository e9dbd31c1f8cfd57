----------------------------- MODULE Orders_proof -----------------------------
(***************************************************************************)
(* Theorems about the order services, for every number of orders, lines,   *)
(* tables and staff and for every price.                                   *)
(*                                                                         *)
(* Every handler touches one order: it replaces the order's row r and its  *)
(* lines rows.  The proofs therefore look at single rows: Good(r, rows) is *)
(* the inductive invariant of one order, Changes what a step may make of   *)
(* one, and one lemma per helper says what that helper does to them.  They *)
(* assume no more than the types, so that they also hold of the handlers   *)
(* among the races of OrderRaces, where Good is lost.                      *)
(***************************************************************************)
EXTENDS OrderRaces, Sums, FiniteSetTheorems, TLAPS

\* Item rows that do not exist are not ready, a row in the table has lines, and
\* READY is only written over cooked lines.
Good(r, rows) ==
  /\ \A i \in Items : rows[i].ready => IsLine(rows, i)
  /\ r.status \notin NotARow => \E i \in Items : IsLine(rows, i)
  /\ r.status = "READY" => AllReady(rows)

\* A cancelled order stays so until it is deleted, a paid bill does not change.
Lawful(r, s) ==
  /\ r.status = "CANCELED" => s.status \in {"CANCELED", "GONE"}
  /\ r.is_paid /\ s.is_paid => s.total_amount = r.total_amount

\* A row that is not in the table is not paid.
Unpaid(r) == r.status \in NotARow => ~r.is_paid

\* The bill is what the lines cost, up to a discount given when it is paid.
Priced(r, rows) ==
  r.status \notin NotARow /\ (r.is_paid => Percents \subseteq {0})
    => r.total_amount = OrderTotal(rows)
\* Only the admin surface undoes a payment; the discount given with it stays in the total.
NoDiscountUndone == Admins = {} \/ Percents \subseteq {0}

\* What may become of an order: its lines stay while it stays paid, its bill stays true, and
\* becomes true when a line changes.
Billed(r, rows, s, lines) ==
  /\ Unpaid(r) => Unpaid(s)
  /\ r.is_paid /\ s.is_paid => \A i \in Items : lines[i].quantity = rows[i].quantity
  /\ NoDiscountUndone /\ (Priced(r, rows) \/ \E i \in Items : lines[i].quantity # rows[i].quantity)
       => Priced(s, lines)

Changes(r, rows, s, lines) ==
  /\ Good(r, rows) => Good(s, lines)
  /\ Lawful(r, s)
  /\ Billed(r, rows, s, lines)

\* A payment is lost with the row, or undone by an admin.
Loses(o, r) == r.status = "GONE" \/ AdminMarkAsUnpaid(o)

IInv == TypeOK /\ \A o \in Orders : Good(order[o], item[o])

\* Row r and lines rows are what the step makes of order o.
Becomes(o, r, rows) ==
  /\ r \in OrderRow /\ rows \in [Items -> ItemRow]
  /\ order' = [order EXCEPT ![o] = r]
  /\ item' = [item EXCEPT ![o] = rows]

Step(o) == \E r \in OrderRow, rows \in [Items -> ItemRow] :
             /\ Becomes(o, r, rows) /\ Changes(order[o], item[o], r, rows)
             /\ Unpaid(order[o]) /\ order[o].is_paid /\ ~r.is_paid => Loses(o, r)

-----------------------------------------------------------------------------
(* What a step that touches one order lawfully preserves.                  *)

LEMMA StepKeeps ==
  ASSUME TypeOK, NEW o \in Orders, Step(o)
  PROVE  /\ order' \in [Orders -> OrderRow]
         /\ item' \in [Orders -> [Items -> ItemRow]]
         /\ \A p \in Orders :
              /\ Changes(order[p], item[p], order'[p], item'[p])
              /\ Unpaid(order[p]) /\ order[p].is_paid /\ ~order'[p].is_paid => Loses(p, order'[p])
<1>1. PICK r \in OrderRow, rows \in [Items -> ItemRow] :
        /\ Becomes(o, r, rows) /\ Changes(order[o], item[o], r, rows)
        /\ Unpaid(order[o]) /\ order[o].is_paid /\ ~r.is_paid => Loses(o, r)
  BY DEF Step
<1>2. order \in [Orders -> OrderRow] /\ item \in [Orders -> [Items -> ItemRow]]
  BY DEF TypeOK
<1>3. /\ order' \in [Orders -> OrderRow]
      /\ item' \in [Orders -> [Items -> ItemRow]]
  BY <1>1, <1>2 DEF Becomes
<1>4. ASSUME NEW p \in Orders
      PROVE  /\ Changes(order[p], item[p], order'[p], item'[p])
             /\ Unpaid(order[p]) /\ order[p].is_paid /\ ~order'[p].is_paid => Loses(p, order'[p])
  <2>1. CASE p = o
    BY <1>1, <1>2, <2>1 DEF Becomes
  <2>2. CASE p # o
    <3>1. order'[p] = order[p] /\ item'[p] = item[p]
      BY <1>1, <1>2, <2>2 DEF Becomes
    <3>2. Changes(order[p], item[p], order[p], item[p])
      BY DEF Changes, Lawful, Billed
    <3> QED BY <3>1, <3>2
  <2> QED BY <2>1, <2>2
<1> QED BY <1>3, <1>4

LEMMA RowTypes ==
  ASSUME TypeOK, NEW o \in Orders
  PROVE  order[o] \in OrderRow /\ item[o] \in [Items -> ItemRow]
BY DEF TypeOK

\* Lifts what a handler does to its one order to Step.
LEMMA StepWitness ==
  ASSUME NEW o \in Orders, NEW r \in OrderRow, NEW rows \in [Items -> ItemRow],
         Becomes(o, r, rows), Good(order[o], item[o]) => Good(r, rows), Lawful(order[o], r),
         Billed(order[o], item[o], r, rows),
         order[o].status \in NotARow \/ ~order[o].is_paid \/ r.is_paid \/ Loses(o, r)
  PROVE  Step(o)
BY DEF Step, Changes, Unpaid

\* The bill depends on the quantities of the lines.
LEMMA SameQuantities ==
  ASSUME NEW rows, NEW lines, \A i \in Items : lines[i].quantity = rows[i].quantity
  PROVE  OrderTotal(lines) = OrderTotal(rows)
<1>1. [i \in Items |-> Price[i] * lines[i].quantity] = [i \in Items |-> Price[i] * rows[i].quantity]
  OBVIOUS
<1> QED BY <1>1 DEF OrderTotal

\* Neither the bill nor the payment changes.
LEMMA BillKept ==
  ASSUME NEW r, NEW rows, NEW s, NEW lines,
         r.status \notin NotARow, s.status \notin NotARow,
         s.is_paid = r.is_paid, s.total_amount = r.total_amount,
         \A i \in Items : lines[i].quantity = rows[i].quantity
  PROVE  Billed(r, rows, s, lines)
<1>1. OrderTotal(lines) = OrderTotal(rows)
  BY SameQuantities
<1> QED BY <1>1 DEF Billed, Unpaid, Priced

\* An order that is not paid gets its bill from its lines, or is no row.
LEMMA BillRenewed ==
  ASSUME NEW r, NEW rows, NEW s, NEW lines, ~s.is_paid,
         s.status \in NotARow \/ s.total_amount = OrderTotal(lines)
  PROVE  Billed(r, rows, s, lines)
BY DEF Billed, Unpaid, Priced

LEMMA PlacedStep ==
  ASSUME TypeOK, NEW o \in Orders, NEW b \in Baskets, NEW st \in {"PREPARING", "OPEN"},
         NEW staff \in Cashiers \cup Waiters \cup {NoStaff}, Placed(o, b, st, staff)
  PROVE  Step(o)
<1> DEFINE rows == [i \in Items |-> [quantity |-> b[i], ready |-> b[i] > 0 /\ i \in Instant]]
           ready == st = "PREPARING" /\ AllReady(rows)
           r == [NewRow EXCEPT !.status = IF ready THEN "READY" ELSE st,
                               !.ready_at = ready,
                               !.total_amount = OrderTotal(rows),
                               !.cashier = staff]
<1>1. order[o].status = "NEW" /\ SaveOrder(o, r) /\ SaveItems(o, rows)
  BY DEF Placed
<1>2. b \in [Items -> 0..MaxQuantity] /\ b # [i \in Items |-> 0]
  BY DEF Baskets
<1>3. PICK i \in Items : b[i] # 0
  BY <1>2
<1>4. rows \in [Items -> ItemRow]
  BY <1>2, PricesAreAmounts DEF ItemRow
<1>5. r \in OrderRow
  BY <1>1 DEF SaveOrder, NewRow, OrderRow, Status, NotARow, Method
<1>6. IsLine(rows, i)
  BY <1>2, <1>3, PricesAreAmounts DEF IsLine
<1>7. Good(r, rows)
  BY <1>2, <1>6, PricesAreAmounts DEF Good, IsLine, NewRow
<1>8. Lawful(order[o], r)
  BY <1>1 DEF Lawful, NewRow
<1>9. Billed(order[o], item[o], r, rows)
  BY BillRenewed DEF NewRow
<1> QED BY <1>1, <1>4, <1>5, <1>7, <1>8, <1>9, StepWitness DEF Becomes, SaveOrder, SaveItems, NotARow

LEMMA SelfServiceStep ==
  ASSUME TypeOK, NEW o \in Orders, NEW b \in Baskets, SelfServiceOrder(o, b)
  PROVE  Step(o)
<1> DEFINE rows == [i \in Items |-> [quantity |-> b[i], ready |-> FALSE]]
           r == [NewRow EXCEPT !.status = "OPEN", !.total_amount = OrderTotal(rows)]
<1>1. order[o].status = "NEW" /\ SaveOrder(o, r) /\ SaveItems(o, rows)
  BY DEF SelfServiceOrder
<1>2. b \in [Items -> 0..MaxQuantity] /\ b # [i \in Items |-> 0]
  BY DEF Baskets
<1>3. PICK i \in Items : b[i] # 0
  BY <1>2
<1>4. rows \in [Items -> ItemRow]
  BY <1>2, PricesAreAmounts DEF ItemRow
<1>5. r \in OrderRow
  BY <1>1 DEF SaveOrder, NewRow, OrderRow, Status, NotARow, Method
<1>6. IsLine(rows, i)
  BY <1>2, <1>3, PricesAreAmounts DEF IsLine
<1>7. Good(r, rows)
  BY <1>6 DEF Good, NewRow
<1>8. Lawful(order[o], r)
  BY <1>1 DEF Lawful, NewRow
<1>9. Billed(order[o], item[o], r, rows)
  BY BillRenewed DEF NewRow
<1> QED BY <1>1, <1>4, <1>5, <1>7, <1>8, <1>9, StepWitness DEF Becomes, SaveOrder, SaveItems, NotARow

LEMMA LineAddedStep ==
  ASSUME TypeOK, NEW o \in Orders, NEW i \in Items, NEW q \in 1..MaxQuantity,
         Editable(o, {"PREPARING", "OPEN"}), LineAdded(o, i, q)
  PROVE  Step(o)
<1> DEFINE old == item[o][i]
           rows == [item[o] EXCEPT ![i] =
                      IF old.quantity > 0 THEN [old EXCEPT !.quantity = @ + q]
                      ELSE [quantity |-> q, ready |-> i \in Instant]]
           reopen == i \notin Instant /\ order[o].ready_at
           base == IF reopen THEN [order[o] EXCEPT !.ready_at = FALSE, !.status = "PREPARING"]
                   ELSE order[o]
           r == [base EXCEPT !.total_amount = OrderTotal(rows)]
<1>1. /\ old.quantity + q <= MaxQuantity
      /\ SaveOrder(o, r) /\ SaveItems(o, rows)
  BY DEF LineAdded, Recalculated
<1>2. order[o] \in OrderRow /\ item[o] \in [Items -> ItemRow]
  BY RowTypes
<1>3. order[o].status \in {"PREPARING", "OPEN"} /\ ~order[o].is_paid
  BY DEF Editable
<1>4. rows \in [Items -> ItemRow] /\ IsLine(rows, i)
  <2>1. old \in ItemRow
    BY <1>2
  <2>2. old.quantity \in Nat /\ q \in Nat /\ q > 0 /\ MaxQuantity \in Nat
    BY <2>1, PricesAreAmounts DEF ItemRow
  <2>3. rows[i] \in ItemRow /\ rows[i].quantity > 0
    BY <1>1, <1>2, <2>1, <2>2 DEF ItemRow
  <2> QED BY <1>2, <2>3 DEF IsLine
<1>5. base \in OrderRow /\ base.status \in {"PREPARING", "OPEN"} /\ base.is_paid = FALSE
  BY <1>2, <1>3 DEF OrderRow, Status
<1>6. r \in OrderRow /\ r.status = base.status /\ r.is_paid = FALSE
      /\ r.total_amount = OrderTotal(rows)
  BY <1>1, <1>5 DEF SaveOrder, OrderRow
<1>7. Good(order[o], item[o]) => \A j \in Items : rows[j].ready => IsLine(rows, j)
  BY <1>2, <1>4 DEF Good, IsLine
<1>8. Good(order[o], item[o]) => Good(r, rows)
  BY <1>4, <1>5, <1>6, <1>7 DEF Good
<1>9. Lawful(order[o], r) /\ Billed(order[o], item[o], r, rows)
  BY <1>3, <1>6, BillRenewed DEF Lawful
<1> QED BY <1>1, <1>3, <1>4, <1>6, <1>8, <1>9, StepWitness DEF Becomes, SaveOrder, SaveItems

LEMMA LineUpdatedStep ==
  ASSUME TypeOK, NEW o \in Orders, NEW i \in Items, NEW q \in 1..MaxQuantity,
         Editable(o, {"PREPARING", "OPEN"}), LineUpdated(o, i, q)
  PROVE  Step(o)
<1> DEFINE rows == [item[o] EXCEPT ![i].quantity = q]
           r == [order[o] EXCEPT !.total_amount = OrderTotal(rows)]
<1>1. SaveOrder(o, r) /\ SaveItems(o, rows)
  BY DEF LineUpdated, Recalculated
<1>2. order[o] \in OrderRow /\ item[o] \in [Items -> ItemRow]
  BY RowTypes
<1>3. order[o].status \in {"PREPARING", "OPEN"} /\ ~order[o].is_paid
  BY DEF Editable
<1>4. rows \in [Items -> ItemRow] /\ IsLine(rows, i)
  BY <1>2, PricesAreAmounts DEF ItemRow, IsLine
<1>5. r \in OrderRow /\ r.status = order[o].status /\ r.is_paid = order[o].is_paid
      /\ r.total_amount = OrderTotal(rows)
  BY <1>1, <1>2 DEF SaveOrder, OrderRow
<1>6. Good(order[o], item[o]) => Good(r, rows)
  BY <1>2, <1>3, <1>4, <1>5 DEF Good, IsLine
<1>7. Lawful(order[o], r) /\ Billed(order[o], item[o], r, rows)
  BY <1>3, <1>5, BillRenewed DEF Lawful
<1> QED BY <1>1, <1>3, <1>4, <1>5, <1>6, <1>7, StepWitness DEF Becomes, SaveOrder, SaveItems

LEMMA LineRemovedStep ==
  ASSUME TypeOK, NEW o \in Orders, NEW i \in Items, NEW recheck \in BOOLEAN,
         Editable(o, {"PREPARING", "OPEN"}), LineRemoved(o, i, recheck)
  PROVE  Step(o)
<1> DEFINE rows == [item[o] EXCEPT ![i] = NoItems[i]]
           base == IF recheck THEN CheckedReady(order[o], rows) ELSE order[o]
           r == [base EXCEPT !.total_amount = OrderTotal(rows)]
           gone == [NewRow EXCEPT !.status = "GONE"]
<1>1. /\ SaveItems(o, rows)
      /\ IF rows = NoItems THEN SaveOrder(o, gone) ELSE SaveOrder(o, r)
  BY DEF LineRemoved, Recalculated
<1>2. order[o] \in OrderRow /\ item[o] \in [Items -> ItemRow]
  BY RowTypes
<1>3. order[o].status \in {"PREPARING", "OPEN"} /\ ~order[o].is_paid
  BY DEF Editable
<1>4. /\ rows \in [Items -> ItemRow]
      /\ Good(order[o], item[o]) => \A j \in Items : rows[j].ready => IsLine(rows, j)
  BY <1>2, PricesAreAmounts DEF NoItems, ItemRow, Good, IsLine
<1>5. CASE rows = NoItems
  <2>1. gone \in OrderRow
    BY <1>1, <1>5 DEF SaveOrder, NewRow, OrderRow, Status, NotARow, Method
  <2>2. /\ Good(order[o], item[o]) => Good(gone, rows)
        /\ Lawful(order[o], gone) /\ Billed(order[o], item[o], gone, rows)
    BY <1>3, <1>4, BillRenewed DEF Good, Lawful, NewRow, NotARow
  <2> QED BY <1>1, <1>3, <1>4, <1>5, <2>1, <2>2, StepWitness DEF Becomes, SaveOrder, SaveItems
<1>6. CASE rows # NoItems
  <2>1. PICK j \in Items : rows[j] # [quantity |-> 0, ready |-> FALSE]
    BY <1>4, <1>6 DEF NoItems
  <2>2. Good(order[o], item[o]) => IsLine(rows, j)
    <3> SUFFICES ASSUME Good(order[o], item[o]) PROVE IsLine(rows, j)
      OBVIOUS
    <3>1. PICK n \in 0..MaxQuantity, b \in BOOLEAN : rows[j] = [quantity |-> n, ready |-> b]
      BY <1>4 DEF ItemRow
    <3>2. b => n > 0
      BY <1>4, <3>1 DEF IsLine
    <3>3. ASSUME n = 0 PROVE FALSE
      <4>1. b = FALSE
        BY <3>2, <3>3
      <4>2. rows[j] = [quantity |-> 0, ready |-> FALSE]
        BY <3>1, <3>3, <4>1
      <4> QED BY <2>1, <4>2
    <3> QED BY <3>1, <3>3, PricesAreAmounts DEF IsLine
  <2>3. /\ base \in OrderRow /\ base.is_paid = FALSE
        /\ base.status = "READY" => AllReady(rows)
        /\ base.status # "CANCELED"
    BY <1>2, <1>3 DEF CheckedReady, OrderRow, Status
  <2>4. r \in OrderRow /\ r.status = base.status /\ r.is_paid = FALSE
        /\ r.total_amount = OrderTotal(rows)
    BY <1>1, <1>6, <2>3 DEF SaveOrder, OrderRow
  <2>5. /\ Good(order[o], item[o]) => Good(r, rows)
        /\ Lawful(order[o], r) /\ Billed(order[o], item[o], r, rows)
    BY <1>3, <1>4, <2>2, <2>3, <2>4, BillRenewed DEF Good, Lawful
  <2> QED BY <1>1, <1>3, <1>4, <1>6, <2>4, <2>5, StepWitness DEF Becomes, SaveOrder, SaveItems
<1> QED BY <1>5, <1>6

LEMMA StatusSetStep ==
  ASSUME TypeOK, NEW o \in Orders, NEW st \in Status, Live(o), order[o].status # "CANCELED",
         StatusSet(o, st)
  PROVE  Step(o)
<1> DEFINE rows == IF st = "READY"
                   THEN [i \in Items |-> [item[o][i] EXCEPT !.ready = IsLine(item[o], i)]]
                   ELSE item[o]
           r == [order[o] EXCEPT !.status = st, !.ready_at = @ \/ st = "READY"]
<1>1. SaveOrder(o, r) /\ SaveItems(o, rows)
  BY DEF StatusSet
<1>2. order[o] \in OrderRow /\ item[o] \in [Items -> ItemRow]
  BY RowTypes
<1>3. order[o].status \notin NotARow
  BY DEF Live, IsRow
<1>4. r \in OrderRow /\ r.status = st /\ r.is_paid = order[o].is_paid
      /\ r.total_amount = order[o].total_amount
  BY <1>2 DEF OrderRow
<1>5. Lawful(order[o], r) /\ r.status \notin NotARow
  BY <1>4 DEF Lawful, Status, NotARow
<1>6. CASE st = "READY"
  <2>1. rows \in [Items -> ItemRow]
    <3>1. ASSUME NEW i \in Items
          PROVE  [item[o][i] EXCEPT !.ready = IsLine(item[o], i)] \in ItemRow
      <4>1. item[o][i] \in ItemRow /\ IsLine(item[o], i) \in BOOLEAN
        BY <1>2 DEF IsLine
      <4> QED BY <4>1 DEF ItemRow
    <3> QED BY <1>6, <3>1
  <2>2. \A i \in Items : /\ rows[i].quantity = item[o][i].quantity
                         /\ rows[i].ready = IsLine(item[o], i)
    BY <1>2, <1>6 DEF ItemRow
  <2>3. \A i \in Items : rows[i].ready <=> IsLine(rows, i)
    BY <2>2 DEF IsLine
  <2>4. Good(order[o], item[o]) => \E i \in Items : IsLine(rows, i)
    BY <1>2, <1>3, <2>2 DEF Good, IsLine
  <2>5. Good(order[o], item[o]) => Good(r, rows)
    BY <2>3, <2>4 DEF Good, AllReady
  <2>6. Billed(order[o], item[o], r, rows)
    BY <1>3, <1>4, <1>5, <2>2, BillKept
  <2> QED BY <1>1, <1>4, <1>5, <2>1, <2>5, <2>6, StepWitness DEF Becomes, SaveOrder, SaveItems
<1>7. CASE st # "READY"
  <2>1. rows = item[o]
    BY <1>7
  <2>2. Good(order[o], item[o]) => Good(r, rows)
    BY <1>2, <1>3, <1>4, <1>7, <2>1 DEF Good
  <2>3. Billed(order[o], item[o], r, rows)
    BY <1>3, <1>4, <1>5, <2>1, BillKept
  <2> QED BY <1>1, <1>2, <1>4, <1>5, <2>1, <2>2, <2>3, StepWitness DEF Becomes, SaveOrder, SaveItems
<1> QED BY <1>6, <1>7

LEMMA ItemMarkedStep ==
  ASSUME TypeOK, NEW o \in Orders, NEW i \in Items, ItemMarked(o, i)
  PROVE  Step(o)
<1> DEFINE rows == [item[o] EXCEPT ![i].ready = TRUE]
           r == CheckedReady(order[o], rows)
<1>1. /\ Live(o) /\ order[o].status \notin {"CANCELED", "READY"} /\ IsLine(item[o], i)
      /\ SaveOrder(o, r) /\ SaveItems(o, rows)
  BY DEF ItemMarked
<1>2. order[o] \in OrderRow /\ item[o] \in [Items -> ItemRow]
  BY RowTypes
<1>3. /\ rows \in [Items -> ItemRow]
      /\ \A j \in Items : rows[j].quantity = item[o][j].quantity
      /\ Good(order[o], item[o]) => \A j \in Items : rows[j].ready => IsLine(rows, j)
  BY <1>1, <1>2 DEF ItemRow, Good, IsLine
<1>4. \E j \in Items : IsLine(rows, j)
  BY <1>1, <1>3 DEF IsLine
<1>5. /\ r \in OrderRow /\ r.is_paid = order[o].is_paid /\ r.total_amount = order[o].total_amount
      /\ r.status = "READY" => AllReady(rows)
      /\ r.status \in {order[o].status, "READY"}
  BY <1>1, <1>2 DEF CheckedReady, OrderRow, Status
<1>6. Good(order[o], item[o]) => Good(r, rows)
  BY <1>3, <1>4, <1>5 DEF Good
<1>7. Lawful(order[o], r)
  BY <1>1, <1>5 DEF Lawful
<1>8. Billed(order[o], item[o], r, rows)
  BY <1>1, <1>3, <1>5, BillKept DEF Live, IsRow, NotARow
<1> QED BY <1>1, <1>3, <1>5, <1>6, <1>7, <1>8, StepWitness DEF Becomes, SaveOrder, SaveItems

LEMMA ItemUnmarkedStep ==
  ASSUME TypeOK, NEW o \in Orders, NEW i \in Items, ItemUnmarked(o, i)
  PROVE  Step(o)
<1> DEFINE rows == [item[o] EXCEPT ![i].ready = FALSE]
           r == IF order[o].status = "READY"
                THEN [order[o] EXCEPT !.status = "PREPARING", !.ready_at = FALSE]
                ELSE order[o]
<1>1. /\ Live(o) /\ order[o].status # "CANCELED" /\ IsLine(item[o], i)
      /\ SaveOrder(o, r) /\ SaveItems(o, rows)
  BY DEF ItemUnmarked
<1>2. order[o] \in OrderRow /\ item[o] \in [Items -> ItemRow]
  BY RowTypes
<1>3. /\ rows \in [Items -> ItemRow]
      /\ \A j \in Items : rows[j].quantity = item[o][j].quantity
      /\ Good(order[o], item[o]) => \A j \in Items : rows[j].ready => IsLine(rows, j)
  BY <1>2 DEF ItemRow, Good, IsLine
<1>4. /\ r \in OrderRow /\ r.is_paid = order[o].is_paid /\ r.total_amount = order[o].total_amount
      /\ r.status # "READY" /\ r.status \in {order[o].status, "PREPARING"}
  BY <1>2 DEF OrderRow, Status
<1>5. Good(order[o], item[o]) => Good(r, rows)
  BY <1>1, <1>3, <1>4 DEF Good, IsLine, Live, IsRow
<1>6. Lawful(order[o], r)
  BY <1>1, <1>4 DEF Lawful
<1>7. Billed(order[o], item[o], r, rows)
  BY <1>1, <1>3, <1>4, BillKept DEF Live, IsRow, NotARow
<1> QED BY <1>1, <1>3, <1>4, <1>5, <1>6, <1>7, StepWitness DEF Becomes, SaveOrder, SaveItems

\* The handlers that change only columns which Good does not look at.
LEMMA ColumnsStep ==
  ASSUME TypeOK, NEW o \in Orders, NEW r \in OrderRow, SaveOrder(o, r), UNCHANGED item,
         r.status = order[o].status, r.status \notin NotARow, Lawful(order[o], r),
         Billed(order[o], item[o], r, item[o]),
         ~order[o].is_paid \/ r.is_paid \/ Loses(o, r)
  PROVE  Step(o)
<1>1. order[o] \in OrderRow /\ item[o] \in [Items -> ItemRow]
  BY RowTypes
<1>2. item' = [item EXCEPT ![o] = item[o]]
  BY DEF TypeOK
<1>3. Good(order[o], item[o]) => Good(r, item[o])
  BY <1>1 DEF Good
<1> QED BY <1>1, <1>2, <1>3, StepWitness DEF Becomes, SaveOrder

\* What the till charges and what is tendered for it are amounts of money.
LEMMA EffectiveTotalIsAmount ==
  ASSUME NEW total \in Nat, NEW pct \in 0..100
  PROVE  EffectiveTotal(total, pct) \in Nat
<1> DEFINE a == total * (100 - pct) + 50 * Unit
           b == 100 * Unit
<1>1. Unit \in Nat \ {0}
  BY PricesAreAmounts
<1>2. total * (100 - pct) \in Nat
  <2>1. 100 - pct \in Nat
    OBVIOUS
  <2> QED BY <2>1
<1>3. a \in Nat /\ b \in Nat \ {0}
  BY <1>1, <1>2
<1>4. a \div b \in Nat
  <2>1. \A x \in Nat, y \in Nat \ {0} : x \div y \in Nat
    OBVIOUS
  <2> HIDE DEF a, b
  <2> QED BY <1>3, <2>1
<1>5. (a \div b) * Unit \in Nat
  <2> HIDE DEF a, b
  <2> QED BY <1>1, <1>4
<1> QED BY <1>5 DEF EffectiveTotal

LEMMA TendersAreAmounts ==
  ASSUME NEW due \in Nat, NEW t \in Tenders(due)
  PROVE  t.noncash \in 0..due /\ t.method \in Method
BY DEF Tenders, Method

LEMMA RegisterTyped ==
  ASSUME NEW amount, AddToRegister(amount)
  PROVE  register' \in Int /\ register' = register + amount
BY PricesAreAmounts DEF AddToRegister

LEMMA MarkAsPaidStep ==
  ASSUME TypeOK, NEW o \in Orders, NEW s \in Cashiers \cup {NoStaff}, NEW p \in Percents,
         NEW t \in Tenders(EffectiveTotal(order[o].total_amount, p)), MarkAsPaid(o, s, p, t)
  PROVE  /\ Step(o)
         /\ payment' \in [Orders -> PaymentRows] /\ register' \in Int
<1> DEFINE due == EffectiveTotal(order[o].total_amount, p)
           r == [order[o] EXCEPT !.is_paid = TRUE, !.payment_method = t.method,
                                 !.cashier = IF @ = NoStaff THEN s ELSE @,
                                 !.total_amount = IF p > 0 THEN due ELSE @]
<1>1. order[o] \in OrderRow /\ item[o] \in [Items -> ItemRow]
  BY RowTypes
<1>2. due \in Nat
  <2>1. order[o].total_amount \in Nat /\ p \in 0..100
    BY <1>1, PricesAreAmounts DEF OrderRow
  <2> QED BY <2>1, EffectiveTotalIsAmount
<1>3. t.noncash \in Nat /\ t.method \in Method
  BY <1>2, TendersAreAmounts
<1>4. /\ Live(o) /\ order[o].status # "CANCELED" /\ ~order[o].is_paid
      /\ SaveOrder(o, r)
      /\ payment[o].noncash + t.noncash <= MaxTotal
      /\ payment' = [payment EXCEPT ![o] = [rows |-> TRUE, noncash |-> @.noncash + t.noncash]]
      /\ \/ AddToRegister(due - t.noncash)
         \/ UNCHANGED register
      /\ UNCHANGED item
  BY DEF MarkAsPaid
<1>5. r \in OrderRow
  <2> HIDE DEF due
  <2>1. (IF p > 0 THEN due ELSE order[o].total_amount) \in 0..MaxTotal
    BY <1>1, <1>4 DEF SaveOrder, OrderRow
  <2>2. (IF order[o].cashier = NoStaff THEN s ELSE order[o].cashier)
          \in Cashiers \cup Waiters \cup {NoStaff}
    BY <1>1 DEF OrderRow
  <2> QED BY <1>1, <1>3, <2>1, <2>2 DEF OrderRow
<1>6. /\ r.status = order[o].status /\ r.status \notin NotARow /\ Lawful(order[o], r)
      /\ Billed(order[o], item[o], r, item[o])
  <2>1. /\ r.status = order[o].status /\ r.status \notin NotARow /\ Lawful(order[o], r)
        /\ r.is_paid /\ r.total_amount = IF p > 0 THEN due ELSE order[o].total_amount
    BY <1>1, <1>4 DEF OrderRow, Lawful, Live, IsRow
  <2>2. Percents \subseteq {0} => r.total_amount = order[o].total_amount
    BY <2>1
  <2> HIDE DEF r
  <2> QED BY <1>4, <2>1, <2>2 DEF Billed, Unpaid, Priced
<1>7. Step(o)
  BY <1>4, <1>5, <1>6, ColumnsStep
<1>8. payment' \in [Orders -> PaymentRows]
  BY <1>3, <1>4 DEF TypeOK, PaymentRows
<1>9. register' \in Int
  BY <1>4, RegisterTyped DEF TypeOK
<1> QED BY <1>7, <1>8, <1>9

-----------------------------------------------------------------------------
(* Every handler.                                                          *)

Sound(o) ==
  /\ Step(o)
  /\ payment' \in [Orders -> PaymentRows] /\ register' \in Int
  /\ table' \in [Tables -> TableStatus]

LEMMA SideEffects ==
  ASSUME TypeOK, NEW o \in Orders
  PROVE  /\ CashReversed(o) => register' \in Int
         /\ UNCHANGED register => register' \in Int
         /\ UNCHANGED payment => payment' \in [Orders -> PaymentRows]
         /\ payment' = [payment EXCEPT ![o] = NoPayments] => payment' \in [Orders -> PaymentRows]
         /\ UNCHANGED table => table' \in [Tables -> TableStatus]
         /\ \A st \in TableStatus : SetTable(o, st) => table' \in [Tables -> TableStatus]
<1>1. CashReversed(o) => register' \in Int
  BY RegisterTyped DEF CashReversed, TypeOK
<1>2. NoPayments \in PaymentRows
  BY PricesAreAmounts DEF NoPayments, PaymentRows
<1>3. \A st \in TableStatus : SetTable(o, st) => table' \in [Tables -> TableStatus]
  BY PricesAreAmounts DEF SetTable, TypeOK
<1> QED BY <1>1, <1>2, <1>3 DEF TypeOK

LEMMA CashierIsSound ==
  ASSUME TypeOK, NEW o \in Orders, Cashiers # {},
         LockedCashier(o) \/ \E i \in Items : MarkItemReady(o, i) \/ UnmarkItemReady(o, i)
  PROVE  Sound(o)
<1>1. ASSUME NEW b \in Baskets, NEW s \in Cashiers \cup {NoStaff}, CreateOrder(o, b, s)
      PROVE  Sound(o)
  BY <1>1, PlacedStep, SideEffects DEF CreateOrder, Placed, Sound
<1>2. ASSUME NEW i \in Items, NEW q \in 1..MaxQuantity, AddItemToOrder(o, i, q)
      PROVE  Sound(o)
  BY <1>2, LineAddedStep, SideEffects DEF AddItemToOrder, Editable, Sound
<1>3. ASSUME NEW i \in Items, NEW q \in 1..MaxQuantity, UpdateOrderItem(o, i, q)
      PROVE  Sound(o)
  BY <1>3, LineUpdatedStep, SideEffects DEF UpdateOrderItem, Editable, Sound
<1>4. ASSUME NEW i \in Items, RemoveItemFromOrder(o, i)
      PROVE  Sound(o)
  <2>1. Step(o)
    BY <1>4, LineRemovedStep DEF RemoveItemFromOrder, Editable
  <2> QED BY <1>4, <2>1, SideEffects DEF RemoveItemFromOrder, LineRemoved, Sound
<1>5. ASSUME NEW st \in {"PREPARING", "READY", "CANCELED"}, UpdateOrderStatus(o, st)
      PROVE  Sound(o)
  <2>1. st \in Status
    BY DEF Status
  <2>2. Step(o)
    BY <1>5, <2>1, StatusSetStep DEF UpdateOrderStatus
  <2> QED BY <1>5, <2>2, SideEffects DEF UpdateOrderStatus, Sound
<1>6. ASSUME MarkOrderReady(o) PROVE Sound(o)
  BY <1>6, StatusSetStep, SideEffects DEF MarkOrderReady, Status, Sound
<1>7. ASSUME NEW s \in Cashiers \cup {NoStaff}, NEW p \in Percents,
             NEW t \in Tenders(EffectiveTotal(order[o].total_amount, p)), MarkAsPaid(o, s, p, t)
      PROVE  Sound(o)
  <2>1. UNCHANGED table
    BY <1>7 DEF MarkAsPaid
  <2> QED BY <1>7, <2>1, MarkAsPaidStep, SideEffects DEF Sound
<1>8. ASSUME NEW i \in Items, MarkItemReady(o, i) PROVE Sound(o)
  BY <1>8, ItemMarkedStep, SideEffects DEF MarkItemReady, Sound
<1>9. ASSUME NEW i \in Items, UnmarkItemReady(o, i) PROVE Sound(o)
  BY <1>9, ItemUnmarkedStep, SideEffects DEF UnmarkItemReady, Sound
<1> QED BY <1>1, <1>2, <1>3, <1>4, <1>5, <1>6, <1>7, <1>8, <1>9 DEF LockedCashier

LEMMA WaiterIsSound ==
  ASSUME TypeOK, NEW o \in Orders, NEW w \in Waiters, LockedWaiter(w, o)
  PROVE  Sound(o)
<1>1. ASSUME NEW b \in Baskets, WaiterCreateOrder(w, o, b) PROVE Sound(o)
  <2>1. Step(o)
    BY <1>1, PlacedStep DEF WaiterCreateOrder
  <2> QED BY <1>1, <2>1, SideEffects DEF WaiterCreateOrder, Placed, Sound, TableStatus
<1>2. ASSUME NEW i \in Items, NEW q \in 1..MaxQuantity, WaiterAddItem(w, o, i, q)
      PROVE  Sound(o)
  BY <1>2, LineAddedStep, SideEffects DEF WaiterAddItem, Editable, Sound
<1>3. ASSUME NEW i \in Items, NEW q \in 1..MaxQuantity, WaiterUpdateItem(w, o, i, q)
      PROVE  Sound(o)
  BY <1>3, LineUpdatedStep, SideEffects DEF WaiterUpdateItem, Editable, Sound
<1>4. ASSUME NEW i \in Items, WaiterRemoveItem(w, o, i) PROVE Sound(o)
  <2>1. Step(o)
    BY <1>4, LineRemovedStep DEF WaiterRemoveItem, Editable
  <2>2. table' \in [Tables -> TableStatus]
    BY <1>4, SideEffects DEF WaiterRemoveItem, TableStatus
  <2> QED BY <1>4, <2>1, <2>2, SideEffects DEF WaiterRemoveItem, LineRemoved, Sound
<1>5. ASSUME WaiterMarkReady(w, o) PROVE Sound(o)
  BY <1>5, StatusSetStep, SideEffects DEF WaiterMarkReady, Status, Sound
<1>6. ASSUME WaiterCancelOrder(w, o) PROVE Sound(o)
  <2>1. Step(o)
    BY <1>6, StatusSetStep DEF WaiterCancelOrder, Status
  <2> QED BY <1>6, <2>1, SideEffects DEF WaiterCancelOrder, TableStatus, Sound
<1> QED BY <1>1, <1>2, <1>3, <1>4, <1>5, <1>6 DEF LockedWaiter

LEMMA EmptyRows ==
  /\ NewRow \in OrderRow /\ NoPayments \in PaymentRows
  /\ NoItems \in [Items -> ItemRow]
<1>1. 0 \in 0..MaxTotal /\ 0 \in 0..MaxQuantity
  BY PricesAreAmounts
<1>2. NewRow \in OrderRow
  BY <1>1 DEF NewRow, OrderRow, NotARow, Method
<1>3. NoPayments \in PaymentRows
  BY <1>1 DEF NoPayments, PaymentRows
<1>4. NoItems \in [Items -> ItemRow]
  BY <1>1 DEF NoItems, ItemRow
<1> QED BY <1>2, <1>3, <1>4

LEMMA AdminIsSound ==
  ASSUME TypeOK, NEW o \in Orders, Admins # {},
         \/ LockedAdmin(o)
         \/ \E i \in Items :
              \/ AdminMarkItemReady(o, i) \/ AdminUnmarkItemReady(o, i)
              \/ AdminRemoveItem(o, i)
              \/ \E q \in 1..MaxQuantity : AdminUpdateItem(o, i, q)
  PROVE  Sound(o)
<1> USE DEF Sound
<1>row. order[o] \in OrderRow /\ item[o] \in [Items -> ItemRow]
  BY RowTypes
<1>1. ASSUME NEW b \in Baskets, NEW s \in Cashiers \cup {NoStaff}, AdminCreateOrder(o, b, s)
      PROVE  Sound(o)
  BY <1>1, PlacedStep, SideEffects DEF AdminCreateOrder, Placed
<1>2. ASSUME NEW i \in Items, NEW q \in 1..MaxQuantity, AdminAddItem(o, i, q)
      PROVE  Sound(o)
  BY <1>2, LineAddedStep, SideEffects DEF AdminAddItem
<1>3. ASSUME NEW i \in Items, NEW q \in 1..MaxQuantity, AdminUpdateItem(o, i, q)
      PROVE  Sound(o)
  BY <1>3, LineUpdatedStep, SideEffects DEF AdminUpdateItem
<1>4. ASSUME NEW i \in Items, AdminRemoveItem(o, i) PROVE Sound(o)
  <2>1. Step(o)
    BY <1>4, LineRemovedStep DEF AdminRemoveItem
  <2> QED BY <1>4, <2>1, SideEffects DEF AdminRemoveItem, LineRemoved
<1>5. ASSUME NEW st \in Status \ {"OPEN"}, AdminUpdateStatus(o, st) PROVE Sound(o)
  <2>1. Step(o)
    BY <1>5, StatusSetStep DEF AdminUpdateStatus
  <2> QED BY <1>5, <2>1, SideEffects, RegisterTyped DEF AdminUpdateStatus
<1>6. ASSUME NEW m \in Method \ {"NONE"}, AdminMarkAsPaid(o, m) PROVE Sound(o)
  <2> DEFINE r == [order[o] EXCEPT !.is_paid = TRUE, !.payment_method = m]
  <2>1. r \in OrderRow /\ r.status = order[o].status /\ Lawful(order[o], r)
    BY <1>6, <1>row DEF AdminMarkAsPaid, OrderRow, Lawful
  <2>2. r.is_paid /\ ~order[o].is_paid /\ r.total_amount = order[o].total_amount
    BY <1>6, <1>row DEF AdminMarkAsPaid, OrderRow
  <2>3. r.status \notin NotARow /\ Billed(order[o], item[o], r, item[o])
    BY <1>6, <2>1, <2>2 DEF AdminMarkAsPaid, Live, IsRow, Billed, Unpaid, Priced
  <2>4. Step(o)
    BY <1>6, <2>1, <2>2, <2>3, ColumnsStep DEF AdminMarkAsPaid
  <2> QED BY <1>6, <2>4, SideEffects, RegisterTyped DEF AdminMarkAsPaid
<1>7. ASSUME AdminMarkAsUnpaid(o) PROVE Sound(o)
  <2> DEFINE r == [order[o] EXCEPT !.is_paid = FALSE, !.payment_method = "NONE"]
  <2>1. r \in OrderRow /\ r.status = order[o].status /\ Lawful(order[o], r)
    BY <1>row DEF OrderRow, Lawful, Method
  <2>2. ~r.is_paid /\ order[o].is_paid /\ r.total_amount = order[o].total_amount
    BY <1>7, <1>row DEF AdminMarkAsUnpaid, OrderRow
  <2>3. r.status \notin NotARow /\ Billed(order[o], item[o], r, item[o])
    BY <1>7, <2>1, <2>2 DEF AdminMarkAsUnpaid, Live, IsRow, Billed, Unpaid, Priced, NoDiscountUndone
  <2>4. Loses(o, r)
    BY <1>7 DEF Loses
  <2>5. Step(o)
    BY <1>7, <2>1, <2>3, <2>4, ColumnsStep DEF AdminMarkAsUnpaid
  <2> QED BY <1>7, <2>5, SideEffects, RegisterTyped DEF AdminMarkAsUnpaid
<1>8. ASSUME AdminMarkOrderReady(o) PROVE Sound(o)
  BY <1>8, StatusSetStep, SideEffects DEF AdminMarkOrderReady, Status
<1>9. ASSUME NEW hard \in BOOLEAN, DeleteOrder(o, hard) PROVE Sound(o)
  <2>1. CASE hard
    <3> DEFINE gone == [NewRow EXCEPT !.status = "GONE"]
    <3>1. /\ SaveOrder(o, gone) /\ SaveItems(o, NoItems)
          /\ payment' = [payment EXCEPT ![o] = NoPayments] /\ UNCHANGED <<register, table>>
      BY <1>9, <2>1 DEF DeleteOrder
    <3>2. gone \in OrderRow /\ NoItems \in [Items -> ItemRow]
      BY EmptyRows DEF OrderRow, NotARow
    <3>3. Good(gone, NoItems) /\ Lawful(order[o], gone) /\ Loses(o, gone)
      BY DEF Good, Lawful, NewRow, NoItems, NotARow, Loses
    <3>4. Billed(order[o], item[o], gone, NoItems)
      BY BillRenewed DEF NewRow, NotARow
    <3>5. Step(o)
      BY <3>1, <3>2, <3>3, <3>4, StepWitness DEF Becomes, SaveOrder, SaveItems
    <3> QED BY <3>1, <3>5, SideEffects
  <2>2. CASE ~hard
    <3> DEFINE r == [order[o] EXCEPT !.is_deleted = TRUE]
    <3>1. /\ r \in OrderRow /\ r.status = order[o].status /\ Lawful(order[o], r)
          /\ r.is_paid = order[o].is_paid /\ r.total_amount = order[o].total_amount
      BY <1>row DEF OrderRow, Lawful
    <3>2. r.status \notin NotARow /\ Billed(order[o], item[o], r, item[o])
      BY <1>9, <2>2, <3>1, BillKept DEF DeleteOrder, Live, IsRow
    <3>3. Step(o)
      BY <1>9, <2>2, <3>1, <3>2, ColumnsStep DEF DeleteOrder
    <3> QED BY <1>9, <2>2, <3>3, SideEffects DEF DeleteOrder
  <2> QED BY <2>1, <2>2
<1>10. ASSUME RestoreOrder(o) PROVE Sound(o)
  <2> DEFINE r == [order[o] EXCEPT !.is_deleted = FALSE]
  <2>1. /\ r \in OrderRow /\ r.status = order[o].status /\ Lawful(order[o], r)
        /\ r.is_paid = order[o].is_paid /\ r.total_amount = order[o].total_amount
    BY <1>row DEF OrderRow, Lawful
  <2>2. r.status \notin NotARow /\ Billed(order[o], item[o], r, item[o])
    BY <1>10, <2>1, BillKept DEF RestoreOrder, IsRow
  <2>3. Step(o)
    BY <1>10, <2>1, <2>2, ColumnsStep DEF RestoreOrder
  <2> QED BY <1>10, <2>3, SideEffects DEF RestoreOrder
<1>11. ASSUME NEW i \in Items, AdminMarkItemReady(o, i) PROVE Sound(o)
  BY <1>11, ItemMarkedStep, SideEffects DEF AdminMarkItemReady
<1>12. ASSUME NEW i \in Items, AdminUnmarkItemReady(o, i) PROVE Sound(o)
  BY <1>12, ItemUnmarkedStep, SideEffects DEF AdminUnmarkItemReady
<1> QED BY <1>1, <1>2, <1>3, <1>4, <1>5, <1>6, <1>7, <1>8, <1>9, <1>10, <1>11, <1>12
        DEF LockedAdmin

LEMMA GuestIsSound ==
  ASSUME TypeOK, NEW o \in Orders, NEW b \in Baskets, CreateQrOrder(o, b) \/ Checkout(o, b)
  PROVE  Sound(o)
<1>1. SelfServiceOrder(o, b)
  BY DEF CreateQrOrder, Checkout
<1>2. Step(o)
  BY <1>1, SelfServiceStep
<1> QED BY <1>1, <1>2, SideEffects DEF SelfServiceOrder, Sound

LEMMA NextIsSound ==
  ASSUME TypeOK, Next
  PROVE  \/ \E o \in Orders : Sound(o)
         \/ UNCHANGED <<order, item, payment, register>> /\ table' \in [Tables -> TableStatus]
<1>1. ASSUME NEW o \in Orders, Locked(o) \/ Unlocked(o) PROVE Sound(o)
  BY <1>1, CashierIsSound, WaiterIsSound, AdminIsSound, GuestIsSound DEF Locked, Unlocked
<1>2. ASSUME Seating
      PROVE  UNCHANGED <<order, item, payment, register>> /\ table' \in [Tables -> TableStatus]
  BY <1>2 DEF Seating, UpdateTableStatus, TypeOK
<1> QED BY <1>1, <1>2 DEF Next

-----------------------------------------------------------------------------
(* The theorems.                                                           *)

LEMMA InitIsGood == Init => IInv
<1> SUFFICES ASSUME Init PROVE IInv
  OBVIOUS
<1>2. TypeOK
  BY EmptyRows DEF Init, TypeOK, TableStatus
<1>3. Good(NewRow, NoItems)
  BY DEF Good, NewRow, NoItems, NotARow
<1> QED BY <1>2, <1>3 DEF Init, IInv

\* One step keeps the types and changes every order as it may.
LEMMA NextChanges ==
  ASSUME TypeOK, [Next]_vars
  PROVE  TypeOK' /\ \A o \in Orders : Changes(order[o], item[o], order'[o], item'[o])
<1>1. CASE \E o \in Orders : Sound(o)
  <2>1. PICK o \in Orders : Sound(o)
    BY <1>1
  <2>2. TypeOK'
    BY <2>1, StepKeeps DEF Sound, TypeOK
  <2> QED BY <2>1, <2>2, StepKeeps DEF Sound
<1>2. CASE UNCHANGED <<order, item, payment, register>> /\ table' \in [Tables -> TableStatus]
  BY <1>2 DEF TypeOK, Changes, Lawful, Billed
<1>3. CASE UNCHANGED vars
  BY <1>3 DEF vars, TypeOK, Changes, Lawful, Billed
<1> QED BY <1>1, <1>2, <1>3, NextIsSound

LEMMA NextKeeps ==
  ASSUME IInv, [Next]_vars
  PROVE  /\ IInv'
         /\ \A o \in Orders : Lawful(order[o], order'[o]) /\ Billed(order[o], item[o], order'[o], item'[o])
<1>1. TypeOK' /\ \A o \in Orders : Changes(order[o], item[o], order'[o], item'[o])
  BY NextChanges DEF IInv
<1>2. \A o \in Orders : /\ Good(order'[o], item'[o]) /\ Lawful(order[o], order'[o])
                       /\ Billed(order[o], item[o], order'[o], item'[o])
  BY <1>1 DEF Changes, IInv
<1>3. \A o \in Orders : Good(order[o], item[o])'
  BY <1>2 DEF Good, AllReady, IsLine
<1> QED BY <1>1, <1>2, <1>3 DEF IInv

LEMMA Inductive == Spec => []IInv
<1>1. IInv /\ [Next]_vars => IInv'
  BY NextKeeps
<1> QED BY InitIsGood, <1>1, PTL DEF Spec

\* Every handler of every surface leaves rows that fit their columns.
THEOREM TypeCorrect == Spec => []TypeOK
<1>1. IInv => TypeOK
  BY DEF IInv
<1> QED BY Inductive, <1>1, PTL

\* The kitchen display is honest: whatever staff and guests do, in whatever
\* order, READY is only ever shown over an order that has lines, all of them cooked.
THEOREM KitchenIsHonest == Spec => []ReadyMeansCooked
<1>1. IInv => ReadyMeansCooked
  BY DEF IInv, Good, ReadyMeansCooked
<1> QED BY Inductive, <1>1, PTL

\* No handler of any surface brings a cancelled order back.
THEOREM CancellationIsFinal == Spec => CanceledIsTerminal
<1>1. IInv /\ [Next]_vars =>
        [\A o \in Orders : order[o].status = "CANCELED" => order'[o].status \in {"CANCELED", "GONE"}]_vars
  BY NextKeeps DEF Lawful
<1> QED BY Inductive, <1>1, PTL DEF Spec, CanceledIsTerminal

\* No handler of any surface changes the bill of an order that stays paid, its total or its lines.
THEOREM PaidBillIsFrozen == Spec => PaidBillFrozen
<1>1. IInv /\ [Next]_vars =>
        [\A o \in Orders : order[o].is_paid /\ order'[o].is_paid =>
           /\ order'[o].total_amount = order[o].total_amount
           /\ \A i \in Items : item'[o][i].quantity = item[o][i].quantity]_vars
  BY NextKeeps DEF Lawful, Billed
<1> QED BY Inductive, <1>1, PTL DEF Spec, PaidBillFrozen

-----------------------------------------------------------------------------
(***************************************************************************)
(* The drawer never loses or invents cash: where only cashiers, waiters    *)
(* and guests act (Admins = {}, for the admin surface breaks it) and bills *)
(* are whole soums (Unit = 1, for a fraction is rounded when paid but not  *)
(* when cancelled), the order services implement Drawer.                   *)
(***************************************************************************)

\* How one order row and its payment rows look to the drawer.
PhaseOf(r) == IF r.status \in {"CANCELED", "GONE"} THEN "void"
              ELSE IF r.is_paid THEN "settled" ELSE "due"
ShareOf(r, p) ==
  IF r.status \notin NotARow /\ r.is_paid /\ r.status # "CANCELED"
  THEN IF p.rows THEN r.total_amount - p.noncash
       ELSE IF r.payment_method \in {"CASH", "NONE"} THEN r.total_amount ELSE 0
  ELSE 0

\* A paid row has payment rows, which cover no more than its bill; an unpaid
\* one, or one that is not in the table, has none.
Banked(r, p) ==
  /\ r.is_paid => p.rows /\ p.noncash <= r.total_amount /\ r.status \notin NotARow
  /\ ~r.is_paid => ~p.rows /\ p.noncash = 0

LInv == IInv /\ \A o \in Orders : Banked(order[o], payment[o])

Replaces(o, r, p) ==
  /\ order' = [order EXCEPT ![o] = r]
  /\ payment' = [payment EXCEPT ![o] = p]

Quiet(o, r, p) ==
  /\ PhaseOf(r) = PhaseOf(order[o]) /\ ShareOf(r, p) = ShareOf(order[o], payment[o])
  /\ UNCHANGED register
Settles(o, r, p) ==
  /\ PhaseOf(order[o]) = "due" /\ PhaseOf(r) = "settled"
  /\ ShareOf(r, p) \in 0..MaxTotal /\ register' = register + ShareOf(r, p)
Voids(o, r, p) ==
  /\ PhaseOf(order[o]) # "void" /\ PhaseOf(r) = "void"
  /\ register' = register - ShareOf(order[o], payment[o])

\* What every handler does, seen from the drawer.
Posts(o) == \E r \in OrderRow, p \in PaymentRows :
              /\ Replaces(o, r, p) /\ Banked(r, p)
              /\ Quiet(o, r, p) \/ Settles(o, r, p) \/ Voids(o, r, p)

LEMMA LedgerViews ==
  ASSUME NEW o
  PROVE  /\ Phase(o) = PhaseOf(order[o])
         /\ CashShare(o) = ShareOf(order[o], payment[o])
         /\ Phase(o)' = PhaseOf(order'[o])
         /\ CashShare(o)' = ShareOf(order'[o], payment'[o])
BY DEF Phase, PhaseOf, CashShare, ShareOf, CashInDrawer, IsRow

LEMMA PostsImplements ==
  ASSUME LInv, NEW o \in Orders, Posts(o)
  PROVE  [Ledger!Next]_Ledger!vars /\ \A q \in Orders : Banked(order[q], payment[q])'
<1>1. PICK r \in OrderRow, p \in PaymentRows :
        /\ Replaces(o, r, p) /\ Banked(r, p)
        /\ Quiet(o, r, p) \/ Settles(o, r, p) \/ Voids(o, r, p)
  BY DEF Posts
<1>2. order \in [Orders -> OrderRow] /\ payment \in [Orders -> PaymentRows]
  BY DEF LInv, IInv, TypeOK
<1>3. order'[o] = r /\ payment'[o] = p
      /\ \A q \in Orders \ {o} : order'[q] = order[q] /\ payment'[q] = payment[q]
  BY <1>1, <1>2 DEF Replaces
<1>4. \A q \in Orders : Banked(order[q], payment[q])'
  BY <1>1, <1>3 DEF LInv, Banked, NotARow
<1> DEFINE phases == [q \in Orders |-> Phase(q)]
           shares == [q \in Orders |-> CashShare(q)]
<1>5. /\ phases' = [phases EXCEPT ![o] = PhaseOf(r)]
      /\ shares' = [shares EXCEPT ![o] = ShareOf(r, p)]
      /\ phases[o] = PhaseOf(order[o])
      /\ shares[o] = ShareOf(order[o], payment[o])
  <2>1. ASSUME NEW q \in Orders
        PROVE  /\ Phase(q)' = IF q = o THEN PhaseOf(r) ELSE Phase(q)
               /\ CashShare(q)' = IF q = o THEN ShareOf(r, p) ELSE CashShare(q)
    BY <1>3, LedgerViews
  <2>2. phases' = [q \in Orders |-> Phase(q)'] /\ shares' = [q \in Orders |-> CashShare(q)']
    OBVIOUS
  <2> QED BY <2>1, <2>2, LedgerViews
<1>6. CASE Quiet(o, r, p)
  <2>1. phases' = phases /\ shares' = shares
    <3> HIDE DEF phases, shares
    <3>1. phases = [phases EXCEPT ![o] = phases[o]] /\ shares = [shares EXCEPT ![o] = shares[o]]
      BY DEF phases, shares
    <3> QED BY <1>5, <1>6, <3>1 DEF Quiet
  <2> QED BY <1>4, <1>6, <2>1 DEF Ledger!vars, Quiet
<1>7. CASE Settles(o, r, p)
  <2>1. Ledger!Settle(o, ShareOf(r, p))
    BY <1>5, <1>7 DEF Ledger!Settle, Settles
  <2> QED BY <1>4, <1>7, <2>1 DEF Ledger!Next, Settles
<1>8. CASE Voids(o, r, p)
  <2>1. ShareOf(r, p) = 0
    BY <1>8 DEF Voids, PhaseOf, ShareOf, NotARow
  <2>2. Ledger!Void(o)
    BY <1>5, <1>8, <2>1 DEF Ledger!Void, Voids
  <2> QED BY <1>4, <2>2 DEF Ledger!Next
<1> QED BY <1>1, <1>6, <1>7, <1>8

-----------------------------------------------------------------------------
(* What the helpers post.                                                  *)

LEMMA LRowTypes ==
  ASSUME LInv, NEW o \in Orders
  PROVE  /\ order[o] \in OrderRow /\ payment[o] \in PaymentRows
         /\ Banked(order[o], payment[o])
         /\ payment = [payment EXCEPT ![o] = payment[o]]
BY DEF LInv, IInv, TypeOK

\* The row of an order that is not yet in the table, or not yet paid, is due
\* and stays due while it is neither paid nor cancelled.
LEMMA UnpaidPosts ==
  ASSUME LInv, NEW o \in Orders, NEW r, SaveOrder(o, r), Step(o), UNCHANGED <<payment, register>>,
         ~order[o].is_paid, ~r.is_paid,
         PhaseOf(order[o]) = PhaseOf(r)
  PROVE  Posts(o)
<1>1. order[o] \in OrderRow /\ payment[o] \in PaymentRows /\ Banked(order[o], payment[o])
  BY LRowTypes
<1>2. order' = [order EXCEPT ![o] = r] /\ payment' = [payment EXCEPT ![o] = payment[o]]
  BY LRowTypes DEF SaveOrder
<1>3. r \in OrderRow
  <2>1. order'[o] = r
    BY <1>2 DEF LInv, IInv, TypeOK
  <2>2. order' \in [Orders -> OrderRow]
    BY StepKeeps DEF LInv, IInv
  <2> QED BY <2>1, <2>2
<1>4. Banked(r, payment[o]) /\ Quiet(o, r, payment[o])
  BY <1>1 DEF Banked, Quiet, ShareOf
<1> QED BY <1>1, <1>2, <1>3, <1>4 DEF Posts, Replaces

LEMMA PlacedPosts ==
  ASSUME LInv, NEW o \in Orders, NEW b \in Baskets,
         NEW staff \in Cashiers \cup Waiters \cup {NoStaff}, Placed(o, b, "PREPARING", staff)
  PROVE  Posts(o)
<1> DEFINE rows == [i \in Items |-> [quantity |-> b[i], ready |-> b[i] > 0 /\ i \in Instant]]
           ready == "PREPARING" = "PREPARING" /\ AllReady(rows)
           r == [NewRow EXCEPT !.status = IF ready THEN "READY" ELSE "PREPARING",
                               !.ready_at = ready,
                               !.total_amount = OrderTotal(rows),
                               !.cashier = staff]
<1>1. order[o].status = "NEW" /\ SaveOrder(o, r) /\ UNCHANGED <<payment, register>>
  BY DEF Placed
<1>2. Step(o)
  BY PlacedStep DEF LInv, IInv
<1>3. ~order[o].is_paid
  BY <1>1, LRowTypes DEF Banked, NotARow
<1>4. ~r.is_paid /\ r.status \in {"PREPARING", "READY"}
  BY DEF NewRow
<1>5. PhaseOf(order[o]) = PhaseOf(r)
  BY <1>1, <1>3, <1>4 DEF PhaseOf
<1> QED BY <1>1, <1>2, <1>3, <1>4, <1>5, UnpaidPosts

LEMMA SelfServicePosts ==
  ASSUME LInv, NEW o \in Orders, NEW b \in Baskets, SelfServiceOrder(o, b)
  PROVE  Posts(o)
<1> DEFINE rows == [i \in Items |-> [quantity |-> b[i], ready |-> FALSE]]
           r == [NewRow EXCEPT !.status = "OPEN", !.total_amount = OrderTotal(rows)]
<1>1. order[o].status = "NEW" /\ SaveOrder(o, r) /\ UNCHANGED <<payment, register>>
  BY DEF SelfServiceOrder
<1>2. Step(o)
  BY SelfServiceStep DEF LInv, IInv
<1>3. ~order[o].is_paid
  BY <1>1, LRowTypes DEF Banked, NotARow
<1>4. ~r.is_paid /\ r.status = "OPEN"
  BY DEF NewRow
<1>5. PhaseOf(order[o]) = PhaseOf(r)
  BY <1>1, <1>3, <1>4 DEF PhaseOf
<1> QED BY <1>1, <1>2, <1>3, <1>4, <1>5, UnpaidPosts

LEMMA LineAddedPosts ==
  ASSUME LInv, NEW o \in Orders, NEW i \in Items, NEW q \in 1..MaxQuantity,
         Editable(o, {"PREPARING"}), LineAdded(o, i, q), UNCHANGED <<payment, register>>
  PROVE  Posts(o)
<1> DEFINE base == IF i \notin Instant /\ order[o].ready_at
                   THEN [order[o] EXCEPT !.ready_at = FALSE, !.status = "PREPARING"]
                   ELSE order[o]
<1>1. PICK r : SaveOrder(o, r) /\ \E total : r = [base EXCEPT !.total_amount = total]
  BY DEF LineAdded, Recalculated
<1>2. Editable(o, {"PREPARING", "OPEN"}) /\ order[o].status = "PREPARING" /\ ~order[o].is_paid
  BY DEF Editable
<1>3. Step(o)
  BY <1>2, LineAddedStep DEF LInv, IInv
<1>4. ~r.is_paid /\ r.status = "PREPARING"
  BY <1>1, <1>2, LRowTypes DEF OrderRow
<1>5. PhaseOf(order[o]) = PhaseOf(r)
  BY <1>2, <1>4 DEF PhaseOf
<1> QED BY <1>1, <1>2, <1>3, <1>4, <1>5, UnpaidPosts

LEMMA LineUpdatedPosts ==
  ASSUME LInv, NEW o \in Orders, NEW i \in Items, NEW q \in 1..MaxQuantity,
         Editable(o, {"PREPARING"}), LineUpdated(o, i, q), UNCHANGED <<payment, register>>
  PROVE  Posts(o)
<1>1. PICK r : SaveOrder(o, r) /\ \E total : r = [order[o] EXCEPT !.total_amount = total]
  BY DEF LineUpdated, Recalculated
<1>2. Editable(o, {"PREPARING", "OPEN"}) /\ order[o].status = "PREPARING" /\ ~order[o].is_paid
  BY DEF Editable
<1>3. Step(o)
  BY <1>2, LineUpdatedStep DEF LInv, IInv
<1>4. ~r.is_paid /\ r.status = "PREPARING"
  BY <1>1, <1>2, LRowTypes DEF OrderRow
<1>5. PhaseOf(order[o]) = PhaseOf(r)
  BY <1>2, <1>4 DEF PhaseOf
<1> QED BY <1>1, <1>2, <1>3, <1>4, <1>5, UnpaidPosts

LEMMA LineRemovedPosts ==
  ASSUME LInv, NEW o \in Orders, NEW i \in Items, NEW recheck \in BOOLEAN,
         Editable(o, {"PREPARING"}), LineRemoved(o, i, recheck), UNCHANGED register
  PROVE  Posts(o)
<1> DEFINE rows == [item[o] EXCEPT ![i] = NoItems[i]]
           base == IF recheck THEN CheckedReady(order[o], rows) ELSE order[o]
           gone == [NewRow EXCEPT !.status = "GONE"]
<1>1. Editable(o, {"PREPARING", "OPEN"}) /\ order[o].status = "PREPARING" /\ ~order[o].is_paid
  BY DEF Editable
<1>2. /\ order[o] \in OrderRow /\ payment[o] \in PaymentRows /\ Banked(order[o], payment[o])
  BY LRowTypes
<1>3. CASE rows = NoItems
  <2>1. SaveOrder(o, gone) /\ payment' = [payment EXCEPT ![o] = NoPayments]
    BY <1>3 DEF LineRemoved
  <2>2. gone \in OrderRow /\ NoPayments \in PaymentRows /\ Banked(gone, NoPayments)
    BY EmptyRows DEF OrderRow, NewRow, NoPayments, NotARow, Banked
  <2>3. Voids(o, gone, NoPayments)
    <3>1. ShareOf(order[o], payment[o]) = 0 /\ PhaseOf(order[o]) = "due"
      BY <1>1 DEF ShareOf, PhaseOf
    <3>2. PhaseOf(gone) = "void" /\ register \in Int
      BY DEF PhaseOf, NewRow, LInv, IInv, TypeOK
    <3> QED BY <3>1, <3>2 DEF Voids
  <2> QED BY <2>1, <2>2, <2>3 DEF Posts, Replaces, SaveOrder
<1>4. CASE rows # NoItems
  <2>1. PICK r : SaveOrder(o, r) /\ \E total : r = [base EXCEPT !.total_amount = total]
    BY <1>4 DEF LineRemoved, Recalculated
  <2>2. Step(o)
    BY <1>1, LineRemovedStep DEF LInv, IInv
  <2>3. ~r.is_paid /\ r.status \in {"PREPARING", "READY"}
    BY <1>1, <1>2, <2>1 DEF CheckedReady, OrderRow
  <2>4. PhaseOf(order[o]) = PhaseOf(r)
    BY <1>1, <2>3 DEF PhaseOf
  <2>5. UNCHANGED <<payment, register>>
    BY <1>4 DEF LineRemoved
  <2> QED BY <1>1, <2>1, <2>2, <2>3, <2>4, <2>5, UnpaidPosts
<1> QED BY <1>3, <1>4

\* A step between two statuses of a standing order posts nothing.
LEMMA StandingPosts ==
  ASSUME LInv, NEW o \in Orders, Live(o), order[o].status # "CANCELED",
         NEW r \in OrderRow, SaveOrder(o, r), UNCHANGED <<payment, register>>,
         r.is_paid = order[o].is_paid, r.total_amount = order[o].total_amount,
         r.payment_method = order[o].payment_method,
         r.status \in Status \ {"CANCELED"}
  PROVE  Posts(o)
<1>1. /\ order[o] \in OrderRow /\ payment[o] \in PaymentRows /\ Banked(order[o], payment[o])
      /\ payment' = [payment EXCEPT ![o] = payment[o]]
  BY LRowTypes
<1>2. order[o].status \notin {"CANCELED", "GONE", "NEW"}
  BY DEF Live, IsRow, NotARow
<1>3. r.status \notin {"CANCELED", "GONE", "NEW"}
  BY DEF Status
<1>4. Banked(r, payment[o])
  BY <1>1, <1>3 DEF Banked, NotARow
<1>5. Quiet(o, r, payment[o])
  BY <1>2, <1>3 DEF Quiet, PhaseOf, ShareOf, NotARow
<1> QED BY <1>1, <1>4, <1>5 DEF Posts, Replaces, SaveOrder

LEMMA StatusSetPosts ==
  ASSUME LInv, NEW o \in Orders, NEW st \in Status \ {"CANCELED"}, Live(o),
         order[o].status # "CANCELED", StatusSet(o, st), UNCHANGED <<payment, register>>
  PROVE  Posts(o)
<1> DEFINE r == [order[o] EXCEPT !.status = st, !.ready_at = @ \/ st = "READY"]
<1>1. order[o] \in OrderRow
  BY LRowTypes
<1>2. /\ r \in OrderRow /\ r.is_paid = order[o].is_paid
      /\ r.total_amount = order[o].total_amount
      /\ r.payment_method = order[o].payment_method /\ r.status = st
  BY <1>1 DEF OrderRow
<1>3. SaveOrder(o, r)
  BY DEF StatusSet
<1> QED BY <1>2, <1>3, StandingPosts

LEMMA ItemMarkedPosts ==
  ASSUME LInv, NEW o \in Orders, NEW i \in Items, ItemMarked(o, i),
         UNCHANGED <<payment, register>>
  PROVE  Posts(o)
<1> DEFINE r == CheckedReady(order[o], [item[o] EXCEPT ![i].ready = TRUE])
<1>1. order[o] \in OrderRow /\ Live(o) /\ order[o].status # "CANCELED" /\ SaveOrder(o, r)
  BY LRowTypes DEF ItemMarked
<1>2. /\ r \in OrderRow /\ r.is_paid = order[o].is_paid
      /\ r.total_amount = order[o].total_amount
      /\ r.payment_method = order[o].payment_method
      /\ r.status \in {"READY", order[o].status}
  BY <1>1 DEF CheckedReady, OrderRow, Status
<1>3. r.status \in Status \ {"CANCELED"}
  BY <1>1, <1>2 DEF OrderRow, Status, Live, IsRow, NotARow
<1> QED BY <1>1, <1>2, <1>3, StandingPosts

LEMMA ItemUnmarkedPosts ==
  ASSUME LInv, NEW o \in Orders, NEW i \in Items, ItemUnmarked(o, i),
         UNCHANGED <<payment, register>>
  PROVE  Posts(o)
<1> DEFINE r == IF order[o].status = "READY"
                THEN [order[o] EXCEPT !.status = "PREPARING", !.ready_at = FALSE]
                ELSE order[o]
<1>1. order[o] \in OrderRow /\ Live(o) /\ order[o].status # "CANCELED" /\ SaveOrder(o, r)
  BY LRowTypes DEF ItemUnmarked
<1>2. /\ r \in OrderRow /\ r.is_paid = order[o].is_paid
      /\ r.total_amount = order[o].total_amount
      /\ r.payment_method = order[o].payment_method
      /\ r.status \in {"PREPARING", order[o].status}
  BY <1>1 DEF OrderRow, Status
<1>3. r.status \in Status \ {"CANCELED"}
  BY <1>1, <1>2 DEF OrderRow, Status, Live, IsRow, NotARow
<1> QED BY <1>1, <1>2, <1>3, StandingPosts

\* Cancelling gives back the cash share, and nothing when there is none.
LEMMA CancelPosts ==
  ASSUME LInv, NEW o \in Orders, Live(o), order[o].status # "CANCELED",
         StatusSet(o, "CANCELED"), CashReversed(o), UNCHANGED payment
  PROVE  Posts(o)
<1> DEFINE r == [order[o] EXCEPT !.status = "CANCELED", !.ready_at = @ \/ FALSE]
<1>1. /\ order[o] \in OrderRow /\ payment[o] \in PaymentRows /\ Banked(order[o], payment[o])
      /\ payment' = [payment EXCEPT ![o] = payment[o]]
  BY LRowTypes
<1>2. SaveOrder(o, r)
  BY DEF StatusSet
<1>3. /\ r \in OrderRow /\ r.is_paid = order[o].is_paid
      /\ r.total_amount = order[o].total_amount /\ r.status = "CANCELED"
  BY <1>1 DEF OrderRow, Status
<1>4. order[o].status \notin {"CANCELED", "GONE", "NEW"}
  BY DEF Live, IsRow, NotARow
<1>5. Banked(r, payment[o])
  BY <1>1, <1>3 DEF Banked, NotARow
<1>6. register' = register - ShareOf(order[o], payment[o])
  <2>1. register \in Int /\ order[o].total_amount \in Nat /\ payment[o].noncash \in Nat
    BY <1>1, PricesAreAmounts DEF LInv, IInv, TypeOK, OrderRow, PaymentRows
  <2>2. CASE order[o].is_paid
    <3>1. /\ ShareOf(order[o], payment[o]) = order[o].total_amount - payment[o].noncash
          /\ CashInDrawer(o) = order[o].total_amount - payment[o].noncash
          /\ CashInDrawer(o) >= 0
      BY <1>1, <1>4, <2>1, <2>2 DEF ShareOf, CashInDrawer, Banked, NotARow
    <3>2. CASE CashInDrawer(o) > 0
      <4>1. register' = register + (-CashInDrawer(o))
        BY <2>2, <3>2 DEF CashReversed, AddToRegister
      <4> QED BY <2>1, <3>1, <4>1
    <3>3. CASE ~(CashInDrawer(o) > 0)
      BY <2>1, <3>1, <3>3 DEF CashReversed
    <3> QED BY <3>2, <3>3
  <2>3. CASE ~order[o].is_paid
    BY <2>1, <2>3 DEF ShareOf, CashReversed
  <2> QED BY <2>2, <2>3
<1>7. Voids(o, r, payment[o])
  BY <1>3, <1>4, <1>6 DEF Voids, PhaseOf
<1> QED BY <1>1, <1>2, <1>3, <1>5, <1>7 DEF Posts, Replaces, SaveOrder

\* A whole amount needs no rounding.
LEMMA WholeSoumIsNotRounded ==
  ASSUME Unit = 1, NEW total \in Nat
  PROVE  EffectiveTotal(total, 0) = total
<1>1. EffectiveTotal(total, 0) = ((total * 100 + 50) \div 100) * 1
  BY DEF EffectiveTotal
<1> QED BY <1>1

LEMMA MarkAsPaidPosts ==
  ASSUME LInv, Unit = 1, NEW o \in Orders, NEW s \in Cashiers \cup {NoStaff}, NEW p \in Percents,
         NEW t \in Tenders(EffectiveTotal(order[o].total_amount, p)), MarkAsPaid(o, s, p, t)
  PROVE  Posts(o)
<1> DEFINE due == EffectiveTotal(order[o].total_amount, p)
           r == [order[o] EXCEPT !.is_paid = TRUE, !.payment_method = t.method,
                                 !.cashier = IF @ = NoStaff THEN s ELSE @,
                                 !.total_amount = IF p > 0 THEN due ELSE @]
           pay == [rows |-> TRUE, noncash |-> payment[o].noncash + t.noncash]
<1>1. /\ order[o] \in OrderRow /\ payment[o] \in PaymentRows /\ Banked(order[o], payment[o])
  BY LRowTypes
<1>2. /\ Live(o) /\ order[o].status # "CANCELED" /\ ~order[o].is_paid
      /\ SaveOrder(o, r) /\ payment' = [payment EXCEPT ![o] = pay]
      /\ IF due - t.noncash > 0 THEN AddToRegister(due - t.noncash) ELSE UNCHANGED register
  BY DEF MarkAsPaid
<1>3. /\ order' \in [Orders -> OrderRow] /\ payment' \in [Orders -> PaymentRows]
  BY MarkAsPaidStep, StepKeeps DEF LInv, IInv
<1>4. order' = [order EXCEPT ![o] = r]
  BY <1>2 DEF SaveOrder
<1>5. r \in OrderRow /\ pay \in PaymentRows
  <2> HIDE DEF r, pay
  <2> QED BY <1>2, <1>3, <1>4 DEF LInv, IInv, TypeOK
<1>6. order[o].total_amount \in 0..MaxTotal /\ p \in 0..100 /\ MaxTotal \in Nat
  BY <1>1, PricesAreAmounts DEF OrderRow
<1>7. due \in Nat /\ t.noncash \in 0..due
  <2>1. order[o].total_amount \in Nat
    BY <1>6
  <2>2. due \in Nat
    BY <1>6, <2>1, EffectiveTotalIsAmount
  <2>3. t \in Tenders(due)
    OBVIOUS
  <2> HIDE DEF due
  <2> QED BY <2>2, <2>3, TendersAreAmounts
<1>8. r.total_amount = due
  <2>1. CASE p = 0
    BY <1>1, <1>6, <2>1, WholeSoumIsNotRounded DEF OrderRow
  <2>2. CASE p > 0
    <3> HIDE DEF due
    <3> QED BY <1>1, <2>2 DEF OrderRow
  <2> QED BY <1>6, <2>1, <2>2
<1>9. pay.rows /\ pay.noncash = t.noncash
  BY <1>1, <1>2, <1>7 DEF Banked
<1>10. r.is_paid /\ r.status = order[o].status /\ r.status \notin {"CANCELED", "GONE", "NEW"}
  BY <1>1, <1>2 DEF OrderRow, Live, IsRow, NotARow
<1>11. due \in 0..MaxTotal
  BY <1>5, <1>8 DEF OrderRow
<1> HIDE DEF due, r, pay
<1>12. Banked(r, pay)
  BY <1>7, <1>8, <1>9, <1>10 DEF Banked, NotARow
<1>13. ShareOf(r, pay) = due - t.noncash
  BY <1>8, <1>9, <1>10 DEF ShareOf, NotARow
<1>14. register' = register + (due - t.noncash)
  BY <1>2, <1>7 DEF AddToRegister, LInv, IInv, TypeOK
<1>15. Settles(o, r, pay)
  BY <1>2, <1>6, <1>7, <1>10, <1>11, <1>13, <1>14 DEF Settles, PhaseOf
<1> QED BY <1>2, <1>4, <1>5, <1>12, <1>15 DEF Posts, Replaces

-----------------------------------------------------------------------------
LEMMA CashierPosts ==
  ASSUME LInv, Unit = 1, NEW o \in Orders,
         LockedCashier(o) \/ \E i \in Items : MarkItemReady(o, i) \/ UnmarkItemReady(o, i)
  PROVE  Posts(o)
<1>1. ASSUME NEW b \in Baskets, NEW s \in Cashiers \cup {NoStaff}, CreateOrder(o, b, s)
      PROVE  Posts(o)
  BY <1>1, PlacedPosts DEF CreateOrder
<1>2. ASSUME NEW i \in Items, NEW q \in 1..MaxQuantity, AddItemToOrder(o, i, q)
      PROVE  Posts(o)
  BY <1>2, LineAddedPosts DEF AddItemToOrder
<1>3. ASSUME NEW i \in Items, NEW q \in 1..MaxQuantity, UpdateOrderItem(o, i, q)
      PROVE  Posts(o)
  BY <1>3, LineUpdatedPosts DEF UpdateOrderItem
<1>4. ASSUME NEW i \in Items, RemoveItemFromOrder(o, i) PROVE Posts(o)
  BY <1>4, LineRemovedPosts DEF RemoveItemFromOrder
<1>5. ASSUME NEW st \in {"PREPARING", "READY", "CANCELED"}, UpdateOrderStatus(o, st)
      PROVE  Posts(o)
  <2>1. CASE st = "CANCELED"
    BY <1>5, <2>1, CancelPosts DEF UpdateOrderStatus
  <2>2. CASE st # "CANCELED"
    <3>1. st \in Status \ {"CANCELED"}
      BY <2>2 DEF Status
    <3> QED BY <1>5, <2>2, <3>1, StatusSetPosts DEF UpdateOrderStatus
  <2> QED BY <2>1, <2>2
<1>6. ASSUME MarkOrderReady(o) PROVE Posts(o)
  BY <1>6, StatusSetPosts DEF MarkOrderReady, Status
<1>7. ASSUME NEW s \in Cashiers \cup {NoStaff}, NEW p \in Percents,
             NEW t \in Tenders(EffectiveTotal(order[o].total_amount, p)), MarkAsPaid(o, s, p, t)
      PROVE  Posts(o)
  BY <1>7, MarkAsPaidPosts
<1>8. ASSUME NEW i \in Items, MarkItemReady(o, i) PROVE Posts(o)
  BY <1>8, ItemMarkedPosts DEF MarkItemReady
<1>9. ASSUME NEW i \in Items, UnmarkItemReady(o, i) PROVE Posts(o)
  BY <1>9, ItemUnmarkedPosts DEF UnmarkItemReady
<1> QED BY <1>1, <1>2, <1>3, <1>4, <1>5, <1>6, <1>7, <1>8, <1>9 DEF LockedCashier

LEMMA WaiterPosts ==
  ASSUME LInv, NEW o \in Orders, NEW w \in Waiters, LockedWaiter(w, o)
  PROVE  Posts(o)
<1>1. ASSUME NEW b \in Baskets, WaiterCreateOrder(w, o, b) PROVE Posts(o)
  BY <1>1, PlacedPosts DEF WaiterCreateOrder
<1>2. ASSUME NEW i \in Items, NEW q \in 1..MaxQuantity, WaiterAddItem(w, o, i, q)
      PROVE  Posts(o)
  BY <1>2, LineAddedPosts DEF WaiterAddItem
<1>3. ASSUME NEW i \in Items, NEW q \in 1..MaxQuantity, WaiterUpdateItem(w, o, i, q)
      PROVE  Posts(o)
  BY <1>3, LineUpdatedPosts DEF WaiterUpdateItem
<1>4. ASSUME NEW i \in Items, WaiterRemoveItem(w, o, i) PROVE Posts(o)
  BY <1>4, LineRemovedPosts DEF WaiterRemoveItem
<1>5. ASSUME WaiterMarkReady(w, o) PROVE Posts(o)
  BY <1>5, StatusSetPosts DEF WaiterMarkReady, Status
<1>6. ASSUME WaiterCancelOrder(w, o) PROVE Posts(o)
  BY <1>6, CancelPosts DEF WaiterCancelOrder
<1> QED BY <1>1, <1>2, <1>3, <1>4, <1>5, <1>6 DEF LockedWaiter

LEMMA NextPosts ==
  ASSUME LInv, Admins = {}, Unit = 1, [Next]_vars
  PROVE  LInv' /\ [Ledger!Next]_Ledger!vars
<1>1. IInv'
  BY NextKeeps DEF LInv
<1>2. ASSUME NEW o \in Orders, Posts(o)
      PROVE  LInv' /\ [Ledger!Next]_Ledger!vars
  BY <1>1, <1>2, PostsImplements DEF LInv
<1>3. ASSUME NEW o \in Orders, Locked(o) \/ Unlocked(o) PROVE Posts(o)
  BY <1>3, CashierPosts, WaiterPosts, SelfServicePosts DEF Locked, Unlocked, CreateQrOrder, Checkout
<1>4. ASSUME UNCHANGED <<order, payment, register>>
      PROVE  LInv' /\ [Ledger!Next]_Ledger!vars
  <2>1. LInv'
    BY <1>1, <1>4 DEF LInv, Banked
  <2>2. \A o \in Orders : Phase(o)' = Phase(o) /\ CashShare(o)' = CashShare(o)
    BY <1>4, LedgerViews
  <2> QED BY <1>4, <2>1, <2>2 DEF Ledger!vars
<1>5. CASE Seating
  BY <1>4, <1>5 DEF Seating, UpdateTableStatus
<1>6. CASE UNCHANGED vars
  BY <1>4, <1>6 DEF vars
<1> QED BY <1>2, <1>3, <1>5, <1>6 DEF Next

LEMMA InitPosts == Init => LInv /\ Ledger!Init
<1> SUFFICES ASSUME Init PROVE LInv /\ Ledger!Init
  OBVIOUS
<1>1. IInv
  BY InitIsGood
<1>2. \A o \in Orders : order[o] = NewRow /\ payment[o] = NoPayments
  BY DEF Init
<1>3. \A o \in Orders : Banked(order[o], payment[o])
  BY <1>2 DEF Banked, NewRow, NoPayments
<1>4. \A o \in Orders : Phase(o) = "due" /\ CashShare(o) = 0
  BY <1>2 DEF Phase, CashShare, IsRow, NewRow, NotARow
<1> QED BY <1>1, <1>3, <1>4 DEF LInv, Init, Ledger!Init

\* Where only cashiers, waiters and guests act, and bills are whole soums, the
\* drawer behaves as Drawer promises, for every number of orders, lines and
\* staff: each bill brings its cash once and voiding it takes back that same cash.
THEOREM TillImplementsDrawer ==
  ASSUME Admins = {}, Unit = 1
  PROVE  Spec => ImplementsDrawer
<1>1. LInv /\ [Next]_vars => LInv' /\ [Ledger!Next]_Ledger!vars
  BY NextPosts
<1> QED BY InitPosts, <1>1, PTL DEF Spec, ImplementsDrawer, Ledger!Spec

-----------------------------------------------------------------------------
(* What the drawer holds.                                                  *)

Shares == [o \in Orders |-> CashShare(o)]

\* A step of Drawer moves the register by what the shares change.
LEMMA DrawerAddsUp ==
  ASSUME LInv, LInv', DrawerReconciles, [Ledger!Next]_Ledger!vars
  PROVE  DrawerReconciles'
<1>1. /\ \A o \in Orders : CashShare(o) \in Int /\ CashShare(o)' \in Int
      /\ \A o \in Orders : Phase(o) = "due" => CashShare(o) = 0
  <2>1. ASSUME NEW r \in OrderRow, NEW p \in PaymentRows PROVE ShareOf(r, p) \in Int
    <3>1. r.total_amount \in Int /\ p.noncash \in Int
      BY PricesAreAmounts DEF OrderRow, PaymentRows
    <3> QED BY <3>1 DEF ShareOf
  <2>2. \A o \in Orders : /\ order[o] \in OrderRow /\ payment[o] \in PaymentRows
                          /\ order'[o] \in OrderRow /\ payment'[o] \in PaymentRows
    BY DEF LInv, IInv, TypeOK
  <2> QED BY <2>1, <2>2, LedgerViews DEF PhaseOf, ShareOf
<1>2. /\ register = SumFunctionOnSet(Shares, Orders)
      /\ DrawerReconciles' <=> register' = SumFunctionOnSet(Shares', Orders)
      /\ IsFiniteSet(Orders)
  <2>1. DOMAIN Shares = Orders /\ DOMAIN Shares' = Orders
    BY DEF Shares
  <2>2. /\ register = SumFunction(Shares)
        /\ DrawerReconciles' <=> register' = SumFunction(Shares')
    BY DEF DrawerReconciles, Shares
  <2> QED BY <2>1, <2>2, PricesAreAmounts DEF SumFunction
<1>3. ASSUME NEW o \in Orders, NEW x \in Int,
             Shares' = [Shares EXCEPT ![o] = x], register' = register - Shares[o] + x
      PROVE  DrawerReconciles'
  <2>1. \A q \in Orders : Shares[q] \in Int /\ Shares'[q] \in Int
    BY <1>1 DEF Shares
  <2>2. Shares'[o] = x /\ \A q \in Orders \ {o} : Shares[q] = Shares'[q]
    <3>1. DOMAIN Shares = Orders
      BY DEF Shares
    <3> QED BY <1>3, <3>1
  <2>3. SumFunctionOnSet(Shares', Orders) = SumFunctionOnSet(Shares, Orders) - Shares[o] + Shares'[o]
    BY <1>2, <2>1, <2>2, SumChanges
  <2> QED BY <1>2, <1>3, <2>2, <2>3
<1>4. register \in Int
  BY DEF LInv, IInv, TypeOK
<1>5. ASSUME NEW o \in Orders, NEW cash \in 0..MaxTotal, Ledger!Settle(o, cash)
      PROVE  DrawerReconciles'
  <2>1. Shares' = [Shares EXCEPT ![o] = cash] /\ Shares[o] = 0 /\ register' = register + cash
    BY <1>1, <1>5 DEF Ledger!Settle, Shares
  <2>2. cash \in Int /\ register' = register - Shares[o] + cash
    BY <1>4, <2>1, PricesAreAmounts
  <2> QED BY <1>3, <2>1, <2>2
<1>6. ASSUME NEW o \in Orders, Ledger!Void(o) PROVE DrawerReconciles'
  <2>1. Shares' = [Shares EXCEPT ![o] = 0] /\ register' = register - Shares[o]
    BY <1>6 DEF Ledger!Void, Shares
  <2>2. register' = register - Shares[o] + 0
    BY <1>1, <1>4, <2>1 DEF Shares
  <2> DEFINE none == 0
  <2>3. none \in Int /\ Shares' = [Shares EXCEPT ![o] = none] /\ register' = register - Shares[o] + none
    BY <2>1, <2>2
  <2> HIDE DEF none
  <2> QED BY <1>3, <2>3
<1>7. CASE UNCHANGED Ledger!vars
  BY <1>7 DEF Ledger!vars, DrawerReconciles
<1> QED BY <1>5, <1>6, <1>7 DEF Ledger!Next

\* Under the same conditions the drawer holds exactly the cash shares of the bills that
\* stand, in whatever order they are edited, paid and cancelled. (The run OrdersAdminCancel
\* shows that the first condition is needed.)
THEOREM TillReconciles ==
  ASSUME Admins = {}, Unit = 1
  PROVE  Spec => []DrawerReconciles
<1> DEFINE Inv == LInv /\ DrawerReconciles
<1>1. Init => Inv
  <2> SUFFICES ASSUME Init PROVE DrawerReconciles
    BY InitPosts
  <2>1. \A o \in Orders : Shares[o] = 0
    BY DEF Init, Shares, CashShare, IsRow, NewRow, NotARow
  <2>2. SumFunctionOnSet(Shares, Orders) = 0
    BY <2>1, SumOfZeros, PricesAreAmounts
  <2>3. DOMAIN Shares = Orders /\ register = 0
    BY DEF Init, Shares
  <2>4. DrawerReconciles <=> register = SumFunction(Shares)
    BY DEF DrawerReconciles, Shares
  <2>5. register = SumFunction(Shares)
    BY <2>2, <2>3 DEF SumFunction
  <2> QED BY <2>4, <2>5
<1>2. Inv /\ [Next]_vars => Inv'
  BY NextPosts, DrawerAddsUp
<1>3. Inv => DrawerReconciles
  OBVIOUS
<1> QED BY <1>1, <1>2, <1>3, PTL DEF Spec
-----------------------------------------------------------------------------
(***************************************************************************)
(* The races of the handlers that take no lock, for any number of workers, *)
(* orders, lines and staff.  What a lock protects is a step of Orders, and *)
(* the lemmas above say what such a step may change; here is what the      *)
(* commit of a transaction that read earlier may change.                   *)
(***************************************************************************)

\* What a transaction under way is about: only the back office edits lines or saves
\* whole orders, an order ends with its last line only when that line is removed, and
\* the object it holds was a row when it was read.
Fits(k) ==
  k.phase # "idle" =>
    /\ k.kind = "save" => duty = "save" /\ k.phase = "read"
    /\ k.kind \in Edits => Editing
    /\ k.empty => k.kind = "remove"
    /\ k.row.status \notin NotARow
    /\ k.total <= MaxTotal

\* The total of an edit under way is what the lines will cost with its own change.
Current(k) == k.phase = "wrote" /\ k.kind \in Edits => k.total = OrderTotal(Changed(k))

RInv ==
  /\ RaceTypeOK
  /\ \A o \in Orders : Unpaid(order[o])
  /\ \A w \in Workers : Fits(task[w])
  /\ \A w \in Workers \ late : Current(task[w])
  /\ Calm => torn = {}
  /\ NoDiscountUndone => \A o \in Orders \ torn : Priced(order[o], item[o])

\* What a step may not do to an order that is paid.
Stands ==
  CASE duty = "save" -> KeepsLines
    [] Editing -> KeepsPayments
    [] OTHER -> KeepsPayments /\ KeepsTotals

-----------------------------------------------------------------------------
(* Steps that hold the order's lock, and steps that meet nobody.           *)

LEMMA LockedIsSound ==
  ASSUME TypeOK, NEW o \in Orders, Locked(o) \/ LockedTill(o) \/ Unlocked(o)
  PROVE  Sound(o)
BY CashierIsSound, WaiterIsSound, AdminIsSound, GuestIsSound DEF Locked, LockedTill, Unlocked

\* What an edit under way will cost depends on the lines of its order.
LEMMA StaysCurrent ==
  ASSUME RInv, NEW w \in Workers, task'[w] = task[w], ~Rebilled(task[w].o), item' \in [Orders -> [Items -> ItemRow]],
         Current(task[w])
  PROVE  Current(task[w])'
<1> DEFINE k == task[w]
<1>1. k \in Task /\ k.o \in Orders /\ k.i \in Items
  BY DEF RInv, RaceTypeOK, Task
<1>2. item[k.o] \in [Items -> ItemRow] /\ item'[k.o] \in [Items -> ItemRow]
  BY <1>1 DEF RInv, RaceTypeOK, TypeOK
<1>3. \A i \in Items : item'[k.o][i].quantity = item[k.o][i].quantity
  BY DEF Rebilled
<1> DEFINE was == Changed(k)
           is == CASE k.kind = "mark"   -> [item'[k.o] EXCEPT ![k.i].ready = TRUE]
                   [] k.kind = "unmark" -> [item'[k.o] EXCEPT ![k.i].ready = FALSE]
                   [] k.kind = "update" -> [item'[k.o] EXCEPT ![k.i].quantity = k.q]
                   [] k.kind = "remove" -> [item'[k.o] EXCEPT ![k.i] = NoItems[k.i]]
<1>4. ASSUME k.kind \in Edits PROVE \A i \in Items : is[i].quantity = was[i].quantity
  <2>1. CASE k.kind = "update"
    BY <1>1, <1>2, <1>3, <2>1 DEF Changed, ItemRow
  <2>2. CASE k.kind = "remove"
    BY <1>1, <1>2, <1>3, <2>2 DEF Changed, ItemRow
  <2> QED BY <1>4, <2>1, <2>2 DEF Edits
<1>5. k.kind \in Edits => OrderTotal(is) = OrderTotal(was)
  <2> HIDE DEF is, was
  <2> QED BY <1>4, SameQuantities
<1>6. OrderTotal(Changed(task[w]))' = OrderTotal(is)
  BY DEF Changed, OrderTotal
<1> QED BY <1>5, <1>6 DEF Current

\* What a step that leaves the tasks to others does to those still under way.
LEMMA OthersStayCurrent ==
  ASSUME RInv, Overtakes, item' \in [Orders -> [Items -> ItemRow]],
         NEW w \in Workers, w \notin late', task'[w] = task[w]
  PROVE  Current(task[w])'
<1>1. CASE task[w].phase = "wrote"
  <2>1. w \notin late /\ ~Rebilled(task[w].o)
    BY <1>1 DEF Overtakes
  <2> QED BY <2>1, StaysCurrent DEF RInv
<1>2. CASE task[w].phase # "wrote"
  BY <1>2 DEF Current
<1> QED BY <1>1, <1>2

LEMMA LockedStep ==
  ASSUME RInv, Serialized \/ Seating \/ Alone, UNCHANGED <<task, duty>>, Overtakes,
         torn' = {o \in torn : ~Rebilled(o)}
  PROVE  RInv' /\ Stands
<1>1. TypeOK /\ (\A p \in Orders : Unpaid(order[p]))
  BY DEF RInv, RaceTypeOK
<1>h. late' \in SUBSET Workers /\ torn' \in SUBSET Orders /\ (Calm => torn = {})'
  BY DEF Overtakes, RInv, RaceTypeOK, Calm
<1>2. ASSUME NEW o \in Orders, Sound(o) PROVE RInv' /\ Stands
  <2>1. /\ order' \in [Orders -> OrderRow]
        /\ item' \in [Orders -> [Items -> ItemRow]]
        /\ \A p \in Orders :
             /\ Changes(order[p], item[p], order'[p], item'[p])
             /\ order[p].is_paid /\ ~order'[p].is_paid => Loses(p, order'[p])
    BY <1>1, <1>2, StepKeeps DEF Sound
  <2>2. RaceTypeOK'
    BY <1>2, <1>h, <2>1 DEF RInv, RaceTypeOK, TypeOK, Sound
  <2>3. \A p \in Orders : Unpaid(order'[p])
    BY <1>1, <2>1 DEF Changes, Billed
  <2>4. ASSUME NoDiscountUndone, NEW p \in Orders \ torn' PROVE Priced(order'[p], item'[p])
    <3>1. Priced(order[p], item[p]) \/ \E i \in Items : item'[p][i].quantity # item[p][i].quantity
      BY <2>4 DEF RInv, Rebilled
    <3> QED BY <2>1, <2>4, <3>1 DEF Changes, Billed
  <2>5. KeepsLines /\ KeepsPayments /\ KeepsTotals
    BY <2>1 DEF KeepsLines, KeepsPayments, KeepsTotals, Changes, Lawful, Billed, Loses
  <2>6. (\A p \in Orders : Unpaid(order[p]))' /\ (\A w \in Workers : Fits(task[w]))'
    BY <2>3 DEF RInv, Fits, Unpaid, Editing
  <2>7. (NoDiscountUndone => \A p \in Orders \ torn : Priced(order[p], item[p]))'
    BY <2>4 DEF NoDiscountUndone, Priced, OrderTotal
  <2>8. (\A w \in Workers \ late : Current(task[w]))'
    BY <2>1, OthersStayCurrent
  <2> QED BY <1>h, <2>2, <2>5, <2>6, <2>7, <2>8 DEF RInv, Stands
<1>3. CASE Seating
  <2>1. UNCHANGED <<order, item, payment, register>> /\ table' \in [Tables -> TableStatus]
    BY <1>1, <1>3 DEF Seating, UpdateTableStatus, TypeOK
  <2>2. RaceTypeOK'
    BY <1>h, <2>1 DEF RInv, RaceTypeOK, TypeOK
  <2>3. KeepsLines /\ KeepsPayments /\ KeepsTotals
    BY <2>1 DEF KeepsLines, KeepsPayments, KeepsTotals
  <2>4. torn' = torn
    BY <2>1 DEF Rebilled, RInv, RaceTypeOK
  <2>5. (\A w \in Workers \ late : Current(task[w]))'
    BY <2>2, OthersStayCurrent DEF RaceTypeOK, TypeOK
  <2> QED BY <1>h, <2>1, <2>2, <2>3, <2>4, <2>5
          DEF RInv, Fits, Unpaid, NoDiscountUndone, Priced, OrderTotal, Stands, Editing
<1>4. CASE Serialized \/ Alone
  <2>1. PICK o \in Orders : Locked(o) \/ LockedTill(o) \/ Unlocked(o)
    BY <1>4 DEF Serialized, Alone
  <2> QED BY <1>1, <1>2, <2>1, LockedIsSound
<1> QED BY <1>3, <1>4

-----------------------------------------------------------------------------
(* Steps of a transaction that took no lock.                               *)

LEMMA TaskStep ==
  ASSUME RInv, NEW w \in Workers, NEW k \in Task, Fits(k), Current(k), task' = [task EXCEPT ![w] = k],
         UNCHANGED <<vars, duty, torn>>, Overtakes
  PROVE  RInv' /\ Stands
<1>1. RaceTypeOK'
  BY DEF RInv, RaceTypeOK, TypeOK, vars, Overtakes
<1>2. \A v \in Workers : task'[v] = IF v = w THEN k ELSE task[v]
  BY DEF RInv, RaceTypeOK
<1>3. \A v \in Workers : Fits(task[v])'
  BY <1>2 DEF RInv, Fits, Editing
<1>4. KeepsLines /\ KeepsPayments /\ KeepsTotals
  BY DEF KeepsLines, KeepsPayments, KeepsTotals, vars
<1>5. (\A v \in Workers \ late : Current(task[v]))'
  <2> SUFFICES ASSUME NEW v \in Workers, v \notin late' PROVE Current(task[v])'
    OBVIOUS
  <2>1. CASE v = w
    <3>1. task'[v] = k /\ UNCHANGED item
      BY <1>2, <2>1 DEF vars
    <3>2. Changed(task[v])' = Changed(k)
      BY <3>1 DEF Changed
    <3>3. OrderTotal(Changed(task[v]))' = OrderTotal(Changed(k))
      BY <3>2 DEF OrderTotal
    <3> QED BY <3>1, <3>3 DEF Current
  <2>2. CASE v # w
    BY <1>1, <1>2, <2>2, OthersStayCurrent DEF RaceTypeOK, TypeOK
  <2> QED BY <2>1, <2>2
<1> QED BY <1>1, <1>3, <1>4, <1>5
        DEF RInv, Unpaid, Calm, NoDiscountUndone, Priced, OrderTotal, Stands, vars

LEMMA IdleTyped == Idle \in Task /\ Fits(Idle) /\ Current(Idle)
<1>1. (CHOOSE o \in Orders : TRUE) \in Orders /\ (CHOOSE i \in Items : TRUE) \in Items
  BY RaceAssumption
<1>2. Cardinality(Items) \in Nat /\ 1 \in 1..MaxQuantity /\ NewRow \in OrderRow
  BY PricesAreAmounts, FS_CardinalityType, EmptyRows
<1> QED BY <1>1, <1>2 DEF Idle, Task, Kind, Edits, Fits, Current

LEMMA FetchedStep ==
  ASSUME RInv, NEW w \in Workers, NEW kind \in Kind, NEW o \in Orders, NEW i \in Items,
         NEW q \in 1..MaxQuantity, Fetched(w, kind, o, i, q),
         kind = "save" => duty = "save", kind \in Edits => Editing, Overtakes
  PROVE  RInv' /\ Stands
<1> DEFINE row == Kept(kind, o)
           lines == IF kind = "mark" THEN Cardinality(Lines(item[o])) ELSE 0
           k == [Idle EXCEPT !.phase = "read", !.kind = kind, !.o = o, !.i = i, !.q = q,
                             !.row = row, !.lines = lines]
<1>1. Idle \in Task
  BY IdleTyped
<1>2. row \in OrderRow /\ row.status \notin NotARow
  <2>1. order[o] \in OrderRow /\ order[o].status \notin NotARow
    BY DEF RInv, RaceTypeOK, TypeOK, Fetched, Live, IsRow
  <2>2. [NewRow EXCEPT !.status = order[o].status] \in OrderRow
    BY <2>1, EmptyRows DEF OrderRow
  <2>3. [NewRow EXCEPT !.status = order[o].status].status \notin NotARow
    BY <2>1 DEF NewRow
  <2> QED BY <2>1, <2>2, <2>3 DEF Kept
<1>3. lines \in 0..Cardinality(Items)
  <2>1. Lines(item[o]) \subseteq Items /\ IsFiniteSet(Items)
    BY PricesAreAmounts DEF Lines
  <2>2. /\ IsFiniteSet(Lines(item[o]))
        /\ Cardinality(Lines(item[o])) <= Cardinality(Items)
    BY <2>1, FS_Subset
  <2> QED BY <2>1, <2>2, FS_CardinalityType
<1>7. task' = [task EXCEPT ![w] = k] /\ UNCHANGED <<vars, duty, torn>>
  BY DEF Fetched
<1> HIDE DEF row, lines
<1>4. k \in Task
  BY <1>1, <1>2, <1>3 DEF Task
<1>5. k.phase = "read" /\ k.kind = kind /\ k.row = row /\ k.empty = FALSE /\ k.total = 0
  BY <1>1 DEF Task, Idle
<1>6. Fits(k) /\ Current(k)
  <2> HIDE DEF k
  <2> QED BY <1>2, <1>5, PricesAreAmounts DEF Fits, Current
<1> HIDE DEF k
<1> QED BY <1>4, <1>6, <1>7, TaskStep

LEMMA AbortStep ==
  ASSUME RInv, NEW w \in Workers, Abort(w), Overtakes
  PROVE  RInv' /\ Stands
BY IdleTyped, TaskStep DEF Abort

\* A task that writes stays the task it was, with what it has seen.
Written(k, ready, empty, total) ==
  [k EXCEPT !.phase = "wrote", !.ready = ready, !.empty = empty, !.total = total]

LEMMA WrittenTyped ==
  ASSUME NEW k \in Task, NEW ready \in BOOLEAN, NEW empty \in BOOLEAN, NEW total \in Nat
  PROVE  LET l == Written(k, ready, empty, total)
         IN /\ l \in Task
            /\ l.phase = "wrote" /\ l.kind = k.kind /\ l.empty = empty /\ l.row = k.row
            /\ l.total = total
            /\ l.o = k.o /\ l.i = k.i /\ l.q = k.q
BY DEF Task, Written

LEMMA WriteStep ==
  ASSUME RInv, NEW w \in Workers, Write(w), Overtakes
  PROVE  RInv' /\ Stands
<1> DEFINE k == task[w]
           rows == Changed(k)
           ready == k.kind \in {"mark", "remove"} /\ k.row.status # "READY"
                    /\ (IF k.kind = "mark" THEN k.lines ELSE Cardinality(Lines(rows))) > 0
                    /\ (IF k.kind = "mark" THEN k.lines ELSE Cardinality(Lines(rows)))
                         = Cardinality(Cooked(rows))
           empty == k.kind = "remove" /\ Lines(rows) = {}
           l == Written(k, ready, empty, OrderTotal(rows))
<1>1. k \in Task /\ Fits(k) /\ k.phase # "idle"
      /\ k.kind # "save"
  BY DEF RInv, RaceTypeOK, Write
<1>2. OrderTotal(rows) \in 0..MaxTotal /\ UNCHANGED <<vars, duty, torn>>
  BY DEF Write
<1>3. task' = [task EXCEPT ![w].phase = "wrote", ![w].ready = ready, ![w].empty = empty,
                           ![w].total = OrderTotal(rows)]
  BY DEF Write
<1> HIDE DEF ready, rows
<1>4. ready \in BOOLEAN
  BY DEF ready
<1> HIDE DEF empty
<1>5. empty \in BOOLEAN /\ (empty => k.kind = "remove")
  BY DEF empty
<1>6. task' = [task EXCEPT ![w] = l]
  BY <1>3 DEF RInv, RaceTypeOK, Written
<1>7. OrderTotal(rows) \in Nat /\ OrderTotal(rows) <= MaxTotal
  BY <1>2, PricesAreAmounts
<1> HIDE DEF k
<1>8. /\ l \in Task
      /\ l.phase = "wrote" /\ l.kind = k.kind /\ l.empty = empty /\ l.row = k.row
      /\ l.total = OrderTotal(rows)
      /\ l.o = k.o /\ l.i = k.i /\ l.q = k.q
  BY <1>1, <1>4, <1>5, <1>7, WrittenTyped
<1>10. Current(l)
  <2>1. Changed(l) = rows
    <3> HIDE DEF l
    <3> QED BY <1>8 DEF rows, Changed
  <2> HIDE DEF l
  <2> QED BY <1>8, <2>1 DEF Current
<1>9. Fits(l)
  <2> HIDE DEF l
  <2> QED BY <1>1, <1>5, <1>7, <1>8 DEF Fits
<1> HIDE DEF k, l
<1> QED BY <1>2, <1>6, <1>8, <1>9, <1>10, TaskStep

\* A commit replaces one order: its lines and its bill stay, unless the back office edits;
\* and its bill is torn, or is what the new lines cost.
LEMMA ReplacedStep ==
  ASSUME RInv, NEW w \in Workers, NEW o \in Orders, NEW r \in OrderRow, NEW rows \in [Items -> ItemRow],
         order' = [order EXCEPT ![o] = r], item' = [item EXCEPT ![o] = rows],
         payment' \in [Orders -> PaymentRows], UNCHANGED <<register, table, duty>>, Overtakes,
         task' = [task EXCEPT ![w] = Idle], Unpaid(r),
         torn' \in {torn, torn \ {o}, torn \cup {o}}, Calm => torn' = torn,
         o \in torn' \/ Priced(r, rows) \/ (o \notin torn /\ (Priced(order[o], item[o]) => Priced(r, rows))),
         ~Editing => \A i \in Items : rows[i].quantity = item[o][i].quantity,
         ~Editing /\ duty # "save" => r.total_amount = order[o].total_amount
                                      /\ order[o].status \notin NotARow,
         duty # "save" /\ order[o].is_paid => r.is_paid \/ r.status = "GONE",
         ~Editing /\ duty # "save" => r.is_paid = order[o].is_paid
  PROVE  RInv' /\ Stands
<1>1. /\ \A p \in Orders : order'[p] = IF p = o THEN r ELSE order[p]
      /\ \A p \in Orders : item'[p] = IF p = o THEN rows ELSE item[p]
      /\ \A v \in Workers : task'[v] = IF v = w THEN Idle ELSE task[v]
  BY DEF RInv, RaceTypeOK, TypeOK
<1>2. RaceTypeOK'
  BY IdleTyped DEF RInv, RaceTypeOK, TypeOK, Overtakes
<1>3. (\A p \in Orders : Unpaid(order[p]))'
  BY <1>1 DEF RInv, Unpaid
<1>4. (\A v \in Workers : Fits(task[v]))'
  BY <1>1 DEF RInv, Fits, Idle, Editing
<1>5. (\A v \in Workers \ late : Current(task[v]))'
  <2> SUFFICES ASSUME NEW v \in Workers, v \notin late' PROVE Current(task[v])'
    OBVIOUS
  <2>1. CASE v = w
    BY <1>1, <2>1 DEF Current, Idle
  <2>2. CASE v # w
    BY <1>1, <1>2, <2>2, OthersStayCurrent DEF RaceTypeOK, TypeOK
  <2> QED BY <2>1, <2>2
<1>6. (Calm => torn = {})'
  BY DEF RInv, Calm
<1>7. ASSUME NoDiscountUndone, NEW p \in Orders \ torn' PROVE Priced(order'[p], item'[p])
  <2>1. CASE p = o
    BY <1>1, <1>7, <2>1 DEF RInv
  <2>2. CASE p # o
    BY <1>1, <1>7, <2>2 DEF RInv
  <2> QED BY <2>1, <2>2
<1>8. (NoDiscountUndone => \A p \in Orders \ torn : Priced(order[p], item[p]))'
  BY <1>7 DEF NoDiscountUndone, Priced, OrderTotal
<1>9. ~Editing => KeepsLines
  BY <1>1 DEF KeepsLines
<1>10. duty # "save" => KeepsPayments
  BY <1>1 DEF KeepsPayments
<1>11. ~Editing /\ duty # "save" => KeepsTotals
  BY <1>1 DEF KeepsTotals
<1>12. Stands
  BY <1>9, <1>10, <1>11 DEF Stands, Editing
<1> QED BY <1>2, <1>3, <1>4, <1>5, <1>6, <1>8, <1>12 DEF RInv

LEMMA CommitStep ==
  ASSUME RInv, NEW w \in Workers, Commit(w), Overtakes
  PROVE  RInv' /\ Stands
<1> DEFINE k == task[w]
           o == k.o
           r == Saved(k)
           gone == [NewRow EXCEPT !.status = "GONE"]
<1>1. /\ k \in Task /\ Fits(k) /\ k.phase # "idle" /\ o \in Orders /\ k.i \in Items
      /\ k.q \in 1..MaxQuantity /\ k.total \in Nat
  BY DEF RInv, RaceTypeOK, Commit, Task
<1>2. /\ order[o] \in OrderRow /\ item[o] \in [Items -> ItemRow] /\ payment[o] \in PaymentRows
  BY <1>1 DEF RInv, RaceTypeOK, TypeOK
<1>3. k.kind \in {"mark", "unmark", "update", "remove"}
  BY <1>1 DEF Task, Kind, Edits, Fits, Commit
<1>4. /\ k.kind \in Edits => Editing
      /\ k.empty => k.kind = "remove"
      /\ k.total <= MaxTotal
      /\ Editing => ~Calm
  BY <1>1 DEF Fits, Editing, Calm
<1>t. /\ torn' = IF k.kind \notin Edits THEN torn
                ELSE IF w \in late THEN torn \cup {o} ELSE torn \ {o}
      /\ torn' \in {torn, torn \ {o}, torn \cup {o}} /\ (Calm => torn' = torn)
  BY <1>4 DEF Commit
<1>c. w \notin late /\ k.kind \in Edits => k.total = OrderTotal(Changed(k))
  BY DEF RInv, Current, Commit
<1>5. /\ task' = [task EXCEPT ![w] = Idle]
      /\ UNCHANGED <<register, table, duty>>
      /\ IsRow(o) \/ k.empty
      /\ IF k.empty
         THEN /\ order' = [order EXCEPT ![o] = gone]
              /\ item' = [item EXCEPT ![o] = NoItems]
              /\ payment' = [payment EXCEPT ![o] = NoPayments]
         ELSE /\ order' = [order EXCEPT ![o] = r]
              /\ item' = [item EXCEPT ![o] = Changed(k)]
              /\ UNCHANGED payment
  BY DEF Commit
<1>6. CASE k.empty
  <2>1. gone \in OrderRow /\ NoItems \in [Items -> ItemRow] /\ NoPayments \in PaymentRows
    BY EmptyRows DEF OrderRow, NotARow
  <2>2. Unpaid(gone) /\ gone.status = "GONE"
    BY DEF Unpaid, NewRow
  <2>3. payment' \in [Orders -> PaymentRows] /\ Editing /\ duty # "save"
    BY <1>4, <1>5, <1>6, <2>1 DEF RInv, RaceTypeOK, TypeOK, Editing, Edits
  <2>4. Priced(gone, NoItems)
    BY DEF Priced, NewRow, NotARow
  <2> HIDE DEF k, gone
  <2> QED BY <1>1, <1>5, <1>6, <1>t, <2>1, <2>2, <2>3, <2>4, ReplacedStep
<1>7. CASE ~k.empty
  <2> DEFINE rows == Changed(k)
  <2>1. IsRow(o) /\ payment' \in [Orders -> PaymentRows]
    BY <1>5, <1>7 DEF RInv, RaceTypeOK, TypeOK
  <2>2. /\ rows \in [Items -> ItemRow]
        /\ k.kind \in {"mark", "unmark"} => \A i \in Items : rows[i].quantity = item[o][i].quantity
    <3>1. CASE k.kind = "mark"
      BY <1>1, <1>2, <3>1 DEF Changed, ItemRow
    <3>2. CASE k.kind = "unmark"
      BY <1>1, <1>2, <3>2 DEF Changed, ItemRow
    <3>3. CASE k.kind = "update"
      BY <1>1, <1>2, <3>3, PricesAreAmounts DEF Changed, ItemRow
    <3>4. CASE k.kind = "remove"
      BY <1>1, <1>2, <3>4, EmptyRows DEF Changed
    <3> QED BY <1>3, <3>1, <3>2, <3>3, <3>4
  <2>3. /\ r \in OrderRow /\ r.is_paid = order[o].is_paid /\ r.status \notin NotARow
        /\ r.total_amount = IF k.kind \in Edits THEN k.total ELSE order[o].total_amount
    <3> DEFINE s == IF k.ready THEN [order[o] EXCEPT !.status = "READY", !.ready_at = TRUE]
                    ELSE order[o]
    <3>1. order[o].status \notin NotARow
      BY <2>1 DEF IsRow
    <3>2. /\ s \in OrderRow /\ s.is_paid = order[o].is_paid /\ s.status \notin NotARow
          /\ s.total_amount = order[o].total_amount
      BY <1>2, <3>1 DEF OrderRow, Status, NotARow
    <3>3. CASE k.kind = "mark"
      BY <3>2, <3>3 DEF Saved, Edits
    <3>4. CASE k.kind = "unmark"
      BY <1>2, <3>1, <3>4 DEF Saved, Edits, OrderRow, Status, NotARow
    <3>5. CASE k.kind \in Edits
      <4>1. r = [s EXCEPT !.total_amount = k.total]
        BY <3>5 DEF Saved, Edits
      <4>2. k.total \in 0..MaxTotal
        BY <1>1, <1>4, PricesAreAmounts
      <4> HIDE DEF s, r, k
      <4> QED BY <3>2, <3>5, <4>1, <4>2 DEF OrderRow, Edits
    <3> QED BY <1>3, <3>3, <3>4, <3>5 DEF Edits
  <2>4. Unpaid(r)
    BY <2>3 DEF Unpaid
  <2>5. order[o].status \notin NotARow /\ (~Editing => k.kind \notin Edits)
    BY <1>3, <1>4, <2>1 DEF IsRow
  <2>7. \/ o \in torn' \/ Priced(r, rows)
        \/ o \notin torn /\ (Priced(order[o], item[o]) => Priced(r, rows))
    <3> HIDE DEF k, o, r, rows
    <3>1. CASE k.kind \in Edits
      BY <1>t, <1>c, <2>3, <3>1 DEF Priced, rows
    <3>2. CASE k.kind \notin Edits
      <4>1. OrderTotal(rows) = OrderTotal(item[o])
        BY <1>3, <2>2, <3>2, SameQuantities DEF Edits
      <4> QED BY <1>t, <2>3, <2>5, <3>2, <4>1 DEF Priced
    <3> QED BY <3>1, <3>2
  <2>8. k.kind \notin Edits => k.kind \in {"mark", "unmark"}
    BY <1>3 DEF Edits
  <2> HIDE DEF k, o, r, rows
  <2>6. order' = [order EXCEPT ![o] = r] /\ item' = [item EXCEPT ![o] = rows]
    BY <1>5, <1>7 DEF rows
  <2>9. /\ ~Editing => \A i \in Items : rows[i].quantity = item[o][i].quantity
        /\ ~Editing => r.total_amount = order[o].total_amount
    BY <2>2, <2>3, <2>5, <2>8
  <2> QED BY <1>1, <1>5, <1>t, <2>1, <2>2, <2>3, <2>4, <2>5, <2>6, <2>7, <2>9, ReplacedStep
<1> QED BY <1>6, <1>7

LEMMA CommitSaveStep ==
  ASSUME RInv, NEW w \in Workers, CommitSave(w), Overtakes
  PROVE  RInv' /\ Stands
<1> DEFINE o == task[w].o
           r == task[w].row
<1>1. o \in Orders /\ r \in OrderRow /\ r.status \notin NotARow /\ duty = "save"
  BY DEF RInv, RaceTypeOK, CommitSave, Task, Fits
<1>2. Unpaid(r) /\ item[o] \in [Items -> ItemRow]
  BY <1>1 DEF Unpaid, RInv, RaceTypeOK, TypeOK
<1>3. /\ order' = [order EXCEPT ![o] = r] /\ item' = [item EXCEPT ![o] = item[o]]
      /\ payment' \in [Orders -> PaymentRows] /\ UNCHANGED <<register, table, duty>>
      /\ task' = [task EXCEPT ![w] = Idle]
  BY DEF CommitSave, RInv, RaceTypeOK, TypeOK
<1>4. /\ torn' \in {torn, torn \cup {o}} /\ ~Calm /\ ~Editing
      /\ o \in torn' \/ (o \notin torn /\ r = order[o])
  BY <1>1 DEF CommitSave, Calm, Editing
<1> HIDE DEF o, r
<1> QED BY <1>1, <1>2, <1>3, <1>4, ReplacedStep

-----------------------------------------------------------------------------
(* The theorems.                                                           *)

LEMMA WorkerStep ==
  ASSUME RInv, NEW w \in Workers,
         Kitchen(w) \/ BackOffice(w) \/ Write(w) \/ Commit(w) \/ CommitSave(w) \/ Abort(w),
         Overtakes
  PROVE  RInv' /\ Stands
<1> USE DEF Kind, Edits
<1>0. 1 \in 1..MaxQuantity /\ (CHOOSE i \in Items : TRUE) \in Items
  BY PricesAreAmounts, RaceAssumption
<1>1. ASSUME NEW o \in Orders, NEW i \in Items, ReadMark(w, o, i) \/ ReadUnmark(w, o, i)
      PROVE  RInv' /\ Stands
  BY <1>0, <1>1, FetchedStep DEF ReadMark, ReadUnmark
<1>2. ASSUME NEW o \in Orders, duty = "save", ReadSave(w, o) PROVE RInv' /\ Stands
  BY <1>0, <1>2, FetchedStep DEF ReadSave
<1>3. ASSUME NEW o \in Orders, NEW i \in Items, Editing, ReadRemove(w, o, i)
      PROVE  RInv' /\ Stands
  BY <1>0, <1>3, FetchedStep DEF ReadRemove
<1>4. ASSUME NEW o \in Orders, NEW i \in Items, NEW q \in 1..MaxQuantity, Editing,
             ReadUpdate(w, o, i, q)
      PROVE  RInv' /\ Stands
  BY <1>4, FetchedStep DEF ReadUpdate
<1> QED BY <1>1, <1>2, <1>3, <1>4, WriteStep, CommitStep, CommitSaveStep, AbortStep
        DEF Kitchen, BackOffice

LEMMA RaceStep ==
  ASSUME RInv, [RaceNext /\ Sold]_raceVars
  PROVE  RInv' /\ [Stands]_raceVars
<1>1. CASE RaceNext
  <2>1. ASSUME NEW w \in Crew[duty],
               Kitchen(w) \/ BackOffice(w) \/ Write(w) \/ Commit(w) \/ CommitSave(w) \/ Abort(w)
        PROVE  RInv' /\ Stands
    <3>1. w \in Workers
      BY RaceAssumption DEF RInv, RaceTypeOK
    <3>2. Overtakes
      BY <1>1 DEF RaceNext
    <3> QED BY <2>1, <3>1, <3>2, WorkerStep
  <2> QED BY <1>1, <2>1, LockedStep DEF RaceNext
<1>2. CASE UNCHANGED raceVars
  <2>1. /\ (\A w \in Workers : Fits(task[w]))' /\ RaceTypeOK' /\ (\A o \in Orders : Unpaid(order[o]))'
        /\ (Calm => torn = {})'
        /\ (NoDiscountUndone => \A o \in Orders \ torn : Priced(order[o], item[o]))'
    BY <1>2 DEF raceVars, vars, RInv, RaceTypeOK, TypeOK, Fits, Unpaid, Calm, NoDiscountUndone,
                Priced, OrderTotal, Editing
  <2>2. (\A w \in Workers \ late : Current(task[w]))'
    <3> SUFFICES ASSUME NEW w \in Workers, w \notin late' PROVE Current(task[w])'
      OBVIOUS
    <3>1. w \notin late /\ task'[w] = task[w] /\ ~Rebilled(task[w].o)
      BY <1>2 DEF raceVars, vars, Rebilled
    <3> QED BY <1>2, <3>1, StaysCurrent DEF RInv, RaceTypeOK, TypeOK, raceVars, vars
  <2> QED BY <1>2, <2>1, <2>2 DEF RInv
<1> QED BY <1>1, <1>2

LEMMA RaceInitIsGood == RaceInit => RInv
<1> SUFFICES ASSUME RaceInit PROVE RInv
  OBVIOUS
<1>1. RaceTypeOK
  BY InitIsGood, IdleTyped DEF RaceInit, RaceTypeOK, IInv
<1>2. \A o \in Orders : Unpaid(order[o]) /\ Priced(order[o], item[o])
  BY DEF RaceInit, Init, NewRow, Unpaid, Priced, NotARow
<1>3. \A w \in Workers : Fits(task[w]) /\ Current(task[w])
  BY IdleTyped DEF RaceInit
<1>4. torn = {}
  BY DEF RaceInit
<1> QED BY <1>1, <1>2, <1>3, <1>4 DEF RInv

LEMMA RaceInductive == RaceSpec => []RInv /\ [][Stands]_raceVars
BY RaceInitIsGood, RaceStep, PTL DEF RaceSpec

\* Whatever the unlocked handlers read and write in between, every row keeps its type.
THEOREM RacesTypeCorrect == RaceSpec => []RaceTypeOK
<1>1. RInv => RaceTypeOK
  BY DEF RInv
<1> QED BY <1>1, RaceInductive, PTL

\* The kitchen's marks cost no update of the bill; only the total of an overtaken edit of the
\* back office does, or an outdated object saved over the order, until the lines are next edited.
\* Any other order that is not paid costs what its lines cost.  A discount is given with the
\* payment; only the admin surface takes a payment back, and the discount then stays in
\* the total (mark_as_unpaid), so one of the two must be absent.
THEOREM BillsMatchLines ==
  ASSUME Admins = {} \/ Percents \subseteq {0}
  PROVE  RaceSpec => []BillMatchesLines
<1>1. RInv => BillMatchesLines
  BY DEF RInv, BillMatchesLines, NoDiscountUndone, Priced, IsRow
<1> QED BY <1>1, RaceInductive, PTL

\* Line edits never undo a payment, saving a stale order never changes what a paid order
\* contains, and the kitchen's handlers change neither.
THEOREM PaymentsStand == RaceSpec => PaidOrdersStand
BY RaceInductive, PTL DEF PaidOrdersStand, Stands
=============================================================================

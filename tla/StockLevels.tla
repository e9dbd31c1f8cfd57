----------------------------- MODULE StockLevels -----------------------------
(***************************************************************************)
(* Stock levels: how much of each good lies at each place and how much of  *)
(* it is reserved (StockLevelService). Every stock document moves goods    *)
(* through adjust, reserve and release_reservation; here they are          *)
(* operators on the table of levels, over a quantity per good at one       *)
(* place. They check before they write, so a movement that is refused      *)
(* leaves nothing behind. Quantities are in each good's base unit: the     *)
(* conversion of units, and the toggle that turns the stock system off,    *)
(* are not modelled. The setting is what StockSettings holds; it does not  *)
(* change in a behaviour.                                                  *)
(***************************************************************************)
EXTENDS Integers, FiniteSetsExt, Functions

CONSTANTS
  Goods,      \* stock items
  Places,     \* stock locations
  Opening     \* what lies there at first

ASSUME StockAssumption ==
  /\ Opening \in [Goods \X Places -> Nat]
  /\ IsFiniteSet(Goods) /\ IsFiniteSet(Places)

VARIABLES setting, level

levelVars == <<setting, level>>

Setting ==
  [negative : BOOLEAN,      \* allow_negative_stock
   reserve : BOOLEAN,       \* reserve_on_order_create
   deduct : {"PREPARING", "READY", "PAID"},    \* deduct_on_order_status
   approval : BOOLEAN,      \* require_count_approval
   adjusts : BOOLEAN]       \* auto_deduct_on_sale
Level == [qty : Int, held : Int]

LevelsInit ==
  level = [x \in Goods \X Places |-> [qty |-> Opening[x], held |-> 0]]

-----------------------------------------------------------------------------
(* Quantities of several goods.                                            *)

Quantities == [Goods -> Nat]
Nothing == [g \in Goods |-> 0]
Just(g, n) == [Nothing EXCEPT ![g] = n]
Plus(a, b) == [g \in Goods |-> a[g] + b[g]]
Minus(a, b) == [g \in Goods |-> a[g] - b[g]]

\* adjust with an outgoing movement: refused when the level would go below zero.
CanTake(l, p, q) == setting.negative \/ \A g \in Goods : q[g] = 0 \/ l[<<g, p>>].qty >= q[g]
Put(l, p, q) ==
  [x \in DOMAIN l |-> IF x[2] = p THEN [l[x] EXCEPT !.qty = @ + q[x[1]]] ELSE l[x]]
Take(l, p, q) == Put(l, p, Minus(Nothing, q))

\* reserve and release_reservation.
Available(l, g, p) == l[<<g, p>>].qty - l[<<g, p>>].held
CanHold(l, p, q) == \A g \in Goods : q[g] = 0 \/ Available(l, g, p) >= q[g]
Hold(l, p, q) ==
  [x \in DOMAIN l |-> IF x[2] = p THEN [l[x] EXCEPT !.held = @ + q[x[1]]] ELSE l[x]]
CanRelease(l, p, q) == \A g \in Goods : l[<<g, p>>].held >= q[g]
Release(l, p, q) == Hold(l, p, Minus(Nothing, q))

\* What there is of a good at all places.
Stocked(l, g) == SumFunction([p \in Places |-> l[<<g, p>>].qty])

-----------------------------------------------------------------------------
(***************************************************************************)
(* Batches of the goods that track them (StockBatchService), with          *)
(* track_batches on. A batch is created with a level's increase, drawn     *)
(* from, oldest first, with its decrease, or debited by a transfer that    *)
(* names it; a sale touches levels only. A batch keeps its number and its  *)
(* place for life. Left out: dates of expiry and the other two costing     *)
(* orders; the statuses QUARANTINE, EXPIRED and RESERVED, reserved_quantity*)
(* and the endpoints consume and auto-consume, which no request can reach  *)
(* (batch_views.py passes no movement_type).                               *)
(***************************************************************************)
CONSTANTS
  Tracked,       \* the goods with track_batches
  NumBatches,    \* bound: batches ever created
  FirstBatches   \* the batches of the opening stock, oldest first

Batch == [good : Tracked, place : Places, qty : Nat]
BatchIds == 1 .. NumBatches

ASSUME BatchAssumption ==
  /\ Tracked \subseteq Goods
  /\ NumBatches \in Nat
  /\ \E n \in 0 .. NumBatches : FirstBatches \in [1 .. n -> Batch]

VARIABLE batch    \* the batches, by id

BatchesInit == batch = FirstBatches

\* What a good's batches at a place hold.
Lying(b, g, p) ==
  [i \in DOMAIN b |-> IF b[i].good = g /\ b[i].place = p THEN b[i].qty ELSE 0]
Batched(b, g, p) == SumFunction(Lying(b, g, p))

\* What there is at first of a good with batches lies in them.
ASSUME OpeningAssumption ==
  \A g \in Tracked, p \in Places : Batched(FirstBatches, g, p) = Opening[<<g, p>>]

\* StockBatchService.create: a new batch, when the bound leaves one.
NextBatch(b) == Cardinality(DOMAIN b) + 1
HasRoom(b) == NextBatch(b) \in BatchIds
NewBatch(b, g, p, n) ==
  [i \in DOMAIN b \cup {NextBatch(b)} |->
     IF i \in DOMAIN b THEN b[i] ELSE [good |-> g, place |-> p, qty |-> n]]

\* The batches that take n of a good at a place, oldest first, by auto_consume.
Draw(b, g, p, n) ==
  LET lying == Lying(b, g, p)
      Before(i) == SumFunctionOnSet(lying, {j \in DOMAIN b : j < i})
      From(i) == Min({lying[i], Max({0, n - Before(i)})})
  IN  [i \in DOMAIN b |-> [b[i] EXCEPT !.qty = @ - From(i)]]

\* Every tracked good of q can be drawn; all of them are.
CanDraw(b, p, q) == \A g \in Tracked : Batched(b, g, p) >= q[g]
\* (mutant) consumption passes the batches over
DrawNone(b, p, q) == b
DrawAll(b, p, q) ==
  [i \in DOMAIN b |-> IF b[i].place = p THEN Draw(b, b[i].good, p, q[b[i].good])[i] ELSE b[i]]
=============================================================================

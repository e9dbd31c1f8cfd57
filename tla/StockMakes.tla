----------------------------- MODULE StockMakes -----------------------------
(***************************************************************************)
(* Production orders: ProductionOrderService. An order reserves its        *)
(* ingredients, consumes them and puts its output and by-products in       *)
(* stock. Every handler is one transaction but complete, which reads the   *)
(* status before its transaction: two requests, or one and a cancel, may   *)
(* both have passed the check. The ingredients of one order change status  *)
(* together. Left out: record_actual and the steps of an order, which no   *)
(* view calls, so that an order consumes what it planned.                  *)
(***************************************************************************)
EXTENDS StockLevels

CONSTANTS
  Makes,        \* production orders
  Ingredients,  \* what an order plans to consume, at the workshop
  Output,       \* the good its recipe makes (recipe.output_item)
  Yields,       \* the quantities of it that it may be completed with
  Besides,      \* its by-products
  Workshop,     \* source_location
  Shelf         \* output_location

ASSUME MakeAssumption ==
  /\ Ingredients \in [Makes -> Quantities]
  /\ Output \in [Makes -> Goods]
  /\ Yields \in [Makes -> SUBSET (Nat \ {0})]
  /\ Besides \in [Makes -> Quantities]
  /\ IsFiniteSet(Makes)
  /\ Workshop \in Places /\ Shelf \in Places

VARIABLE make

MakeStatus == {"none", "DRAFT", "PLANNED", "IN_PROGRESS", "ON_HOLD", "COMPLETED", "CANCELED"}
\* checked: the requests to complete it that read the status IN_PROGRESS and have not
\* begun their transaction; made: actual_output_qty, by-products included.
Make == [status : MakeStatus, inputs : {"PENDING", "ALLOCATED", "CONSUMED"},
         started : BOOLEAN, checked : 0 .. 2, made : Quantities]

MakesInit ==
  make = [m \in Makes |-> [status |-> "none", inputs |-> "PENDING", started |-> FALSE,
                           checked |-> 0, made |-> Nothing]]

MakeOnly(m, row) ==
  /\ make' = [make EXCEPT ![m] = row]
  /\ UNCHANGED <<levelVars, batch>>
MakeWith(m, row, l) ==
  /\ make' = [make EXCEPT ![m] = row]
  /\ level' = l
  /\ UNCHANGED <<setting, batch>>

\* create, which may allocate at once; refused as a whole when it cannot.
CreateMake(m, allocate) ==
  /\ make[m].status = "none"
  /\ IF allocate
       THEN /\ CanHold(level, Workshop, Ingredients[m])
            /\ MakeWith(m, [make[m] EXCEPT !.status = "DRAFT", !.inputs = "ALLOCATED"],
                        Hold(level, Workshop, Ingredients[m]))
       ELSE MakeOnly(m, [make[m] EXCEPT !.status = "DRAFT"])

\* plan: the ingredients must be available beside what is reserved, even for this order.
PlanMake(m) ==
  /\ make[m].status = "DRAFT"
  /\ CanHold(level, Workshop, Ingredients[m])
  /\ MakeWith(m, [make[m] EXCEPT !.status = "PLANNED", !.inputs = "ALLOCATED"],
              IF make[m].inputs = "PENDING" THEN Hold(level, Workshop, Ingredients[m]) ELSE level)

StartMake(m) ==
  /\ make[m].status = "PLANNED"
  /\ MakeOnly(m, [make[m] EXCEPT !.status = "IN_PROGRESS", !.started = TRUE])

HoldMake(m) ==
  /\ make[m].status \in {"PLANNED", "IN_PROGRESS"}
  /\ MakeOnly(m, [make[m] EXCEPT !.status = "ON_HOLD"])

ResumeMake(m) ==
  /\ make[m].status = "ON_HOLD"
  /\ MakeOnly(m, [make[m] EXCEPT !.status = IF make[m].started THEN "IN_PROGRESS" ELSE "PLANNED"])

\* cancel releases the reservations of orders that are PLANNED or IN_PROGRESS.
CancelMake(m) ==
  /\ make[m].status \in {"DRAFT", "PLANNED", "IN_PROGRESS", "ON_HOLD"}
  /\ IF make[m].status \in {"PLANNED", "IN_PROGRESS"} /\ make[m].inputs = "ALLOCATED"
       THEN /\ CanRelease(level, Workshop, Ingredients[m])
            /\ MakeWith(m, [make[m] EXCEPT !.status = "CANCELED", !.inputs = "PENDING"],
                        Release(level, Workshop, Ingredients[m]))
       ELSE MakeOnly(m, [make[m] EXCEPT !.status = "CANCELED"])

\* complete reads the status.
CheckMake(m) ==
  /\ make[m].status = "IN_PROGRESS"
  /\ make[m].checked < 2
  /\ MakeOnly(m, [make[m] EXCEPT !.checked = @ + 1])

\* What the transaction of complete does: _consume_ingredients and _create_output.
Freed(m) ==
  IF make[m].inputs = "ALLOCATED" THEN Release(level, Workshop, Ingredients[m]) ELSE level
CanConsume(m) ==
  /\ make[m].inputs = "ALLOCATED" => CanRelease(level, Workshop, Ingredients[m])
  /\ CanTake(level, Workshop, Ingredients[m])
  /\ CanDraw(batch, Workshop, Ingredients[m])
\* The output is a batch when it is tracked; by-products are not.
Stored(b, m, n) == IF Output[m] \in Tracked THEN NewBatch(b, Output[m], Shelf, n) ELSE b

\* The rest of complete, for a request that read IN_PROGRESS: all of it, or nothing.
CompleteMake(m) ==
  /\ make[m].checked > 0
  /\ \/ /\ CanConsume(m)
        /\ Output[m] \in Tracked => HasRoom(batch)
        /\ \E n \in Yields[m] :
             LET out == Plus(Just(Output[m], n), Besides[m]) IN
             /\ make' = [make EXCEPT ![m] =
                          [make[m] EXCEPT !.status = "COMPLETED", !.inputs = "CONSUMED",
                                          !.checked = make[m].checked - 1, !.made = out]]
             /\ level' = Put(Take(Freed(m), Workshop, Ingredients[m]), Shelf, out)
             /\ batch' = Stored(DrawAll(batch, Workshop, Ingredients[m]), m, n)
             /\ UNCHANGED setting
     \/ /\ ~CanConsume(m)
        /\ MakeOnly(m, [make[m] EXCEPT !.checked = @ - 1])

\* What an open order holds.
HeldByMake(m) ==
  IF make[m].inputs = "ALLOCATED" /\ make[m].status # "CANCELED" THEN Ingredients[m] ELSE Nothing
\* What an order made, less what it used.
MadeBy(m) == IF make[m].status = "COMPLETED" THEN Minus(make[m].made, Ingredients[m]) ELSE Nothing
=============================================================================

-------------------------------- MODULE Shifts --------------------------------
(***************************************************************************)
(* Cashier shifts, their drawers and where the cash goes: shift_service    *)
(* (start, end, reconcile), the payments and returns of order_service as   *)
(* far as money is concerned, cashbox expenses, inkassa, the HR cash desk. *)
(*                                                                         *)
(* A timestamp is compared with nothing but shift windows, so it is kept   *)
(* as the shifts it falls into: the ones ACTIVE when it was taken.         *)
(* Handlers are single steps but for two: start_shift, which has no        *)
(* transaction, and on PostgreSQL a payment, whose paid_at is taken before *)
(* it commits.  "OPEN" stands for OPEN, PREPARING and READY.  Accounts are *)
(* module Treasury's; here the SAFE is a sum.                              *)
(***************************************************************************)
EXTENDS Integers, FiniteSetsExt, Functions

CONSTANTS
  Shifts, Users, Orders, Terminals,
  Total,     \* what each order costs
  Worlds,    \* the sets of complications to consider, see Complication
  Counts,    \* amounts a cashier or a manager may enter when counting cash
  MaxSpent,  \* bound: cashbox expenses of a shift
  MaxMoved,  \* bound: cash moved by inkassa, and by the HR cash desk
  Nobody

\* PostgreSQL; a user logged in twice; a cashier paying or cancelling another's
\* order; a cancellation after the shift of the payment; tendered cash given change;
\* the back office paying, unpaying and cancelling; inkassa and the HR cash desk.
Complication ==
  {"server", "two terminals", "shared", "late return", "change", "back office", "cash moves"}

ASSUME ShiftsAssumption ==
  /\ IsFiniteSet(Shifts) /\ IsFiniteSet(Orders)
  /\ Total \in [Orders -> Nat \ {0}]
  /\ Worlds \subseteq SUBSET Complication
  /\ Counts \subseteq Int
  /\ {MaxSpent, MaxMoved} \subseteq Nat
  /\ Nobody \notin Users

VARIABLES
  world,     \* the complications of this behaviour
  shift,     \* the shift row, its figures and its CASH ShiftPaymentTotal
  order,     \* the order row, and its OrderPayment rows: cash as tendered, and the rest
  starting,  \* start_shift calls between their check and their insert
  paying,    \* payments between their paid_at and their commit
  spent,     \* CashboxExpense rows of each shift, summed
  desk,      \* sums: register, SAFE, inkassa rows, HR cash transactions
  physical   \* cash that went through the drawer during each shift

vars == <<world, shift, order, starting, paying, spent, desk, physical>>

NewShift == [status |-> "NEW", user |-> Nobody, taken |-> {},
             expected |-> 0, confirmed |-> 0]
NewOrder == [status |-> "NEW", cashier |-> Nobody, since |-> {}, is_paid |-> FALSE,
             by |-> Nobody, cash |-> 0, tendered |-> 0, noncash |-> 0, at |-> {}]
NotPaying == [by |-> Nobody, cash |-> 0, tendered |-> 0, at |-> {}]

Init ==
  /\ world \in Worlds
  /\ shift = [s \in Shifts |-> NewShift]
  /\ order = [o \in Orders |-> NewOrder]
  /\ starting = {}
  /\ paying = [o \in Orders |-> NotPaying]
  /\ spent = [s \in Shifts |-> 0]
  /\ desk = [register |-> 0, safe |-> 0, inkassa |-> 0, office |-> 0]
  /\ physical = [s \in Shifts |-> 0]

TypeOK ==
  /\ world \in Worlds
  /\ shift \in [Shifts -> [status : {"NEW", "ACTIVE", "ENDED", "COMPLETED"},
                           user : Users \cup {Nobody}, taken : SUBSET Orders,
                           expected : Int, confirmed : Int]]
  /\ order \in [Orders -> [status : {"NEW", "OPEN", "COMPLETED", "CANCELED"},
                           cashier : Users \cup {Nobody}, since : SUBSET Shifts,
                           is_paid : BOOLEAN, by : Users \cup {Nobody}, cash : Nat,
                           tendered : Nat, noncash : Nat, at : SUBSET Shifts]]
  /\ starting \subseteq Users \X Terminals
  /\ paying \in [Orders -> [by : Users \cup {Nobody}, cash : Nat, tendered : Nat,
                            at : SUBSET Shifts]]
  /\ spent \in [Shifts -> Nat]
  /\ desk \in [register : Int, safe : Nat, inkassa : Nat, office : Int]
  /\ physical \in [Shifts -> Int]

Active == {s \in Shifts : shift[s].status = "ACTIVE"}
Of(u) == {s \in Active : shift[s].user = u}
Closed == {s \in Shifts : shift[s].status \in {"ENDED", "COMPLETED"}}
Free(o) == order[o].status # "NEW" /\ paying[o].by = Nobody   \* its row is not locked

AddToRegister(amount) == desk' = [desk EXCEPT !.register = @ + amount]
\* Cash changes hands in the drawer of the shift u works in.
Hands(u, amount) ==
  physical' = [s \in Shifts |-> physical[s] + IF s \in Of(u) THEN amount ELSE 0]

-----------------------------------------------------------------------------
(* Shifts.                                                                 *)

StartShift(u, k) ==
  /\ Of(u) = {}
  /\ k = 1 \/ "two terminals" \in world
  /\ starting' = starting \cup {<<u, k>>}
  /\ UNCHANGED <<world, shift, order, paying, spent, desk, physical>>

CreateShift(u, k, s) ==
  /\ <<u, k>> \in starting /\ shift[s] = NewShift
  /\ starting' = starting \ {<<u, k>>}
  /\ shift' = [shift EXCEPT ![s].status = "ACTIVE", ![s].user = u]
  /\ UNCHANGED <<world, order, paying, spent, desk, physical>>

\* (mutant) attributed by created_at
TakenByCreation(s) ==
  {o \in Orders : /\ order[o].cashier = shift[s].user /\ order[o].is_paid
                  /\ s \in order[o].since /\ order[o].status # "CANCELED"}
\* The orders whose money end_shift credits to shift s.
Taken(s) ==
  {o \in Orders : /\ order[o].cashier = shift[s].user /\ order[o].is_paid
                  /\ s \in order[o].at /\ order[o].status # "CANCELED"}

\* (mutant) cashbox expenses are forgotten
ExpectedGross(s) == SumFunction([o \in Taken(s) |-> order[o].tendered])
\* expected_payment_totals: the CASH row
Expected(s) == SumFunction([o \in Taken(s) |-> order[o].tendered]) - spent[s]

OpenOrders(s) ==
  {o \in Orders : /\ order[o].cashier = shift[s].user /\ s \in order[o].since
                  /\ order[o].status = "OPEN"}

EndShift(s) ==
  /\ s \in Active /\ OpenOrders(s) = {}
  /\ shift' = [shift EXCEPT ![s].status = "ENDED", ![s].taken = Taken(s),
                            ![s].expected = Expected(s)]
  /\ UNCHANGED <<world, order, starting, paying, spent, desk, physical>>

\* (mutant) nobody looks whether the shift has been confirmed
ReconcileAgain(s, amount) ==
  /\ shift[s].status \in {"ENDED", "COMPLETED"}
  /\ desk.safe < 3
  /\ shift' = [shift EXCEPT ![s].status = "COMPLETED", ![s].confirmed = amount]
  /\ desk' = [desk EXCEPT !.safe = @ + Max({0, amount})]
  /\ UNCHANGED <<world, order, starting, paying, spent, physical>>
\* The manager enters an amount or accepts the cashier's; it goes to the SAFE,
\* unless it is not positive.  Both enter what they like, so that the cashier's count,
\* on which nothing else depends, need not be kept.
Reconcile(s, amount) ==
  /\ shift[s].status = "ENDED"
  /\ shift' = [shift EXCEPT ![s].status = "COMPLETED", ![s].confirmed = amount]
  /\ desk' = [desk EXCEPT !.safe = @ + Max({0, amount})]
  /\ UNCHANGED <<world, order, starting, paying, spent, physical>>

CashboxExpense(s) ==
  /\ s \in Active /\ spent[s] < MaxSpent
  /\ spent' = [spent EXCEPT ![s] = @ + 1]
  /\ physical' = [physical EXCEPT ![s] = @ - 1]
  /\ UNCHANGED <<world, shift, order, starting, paying, desk>>

-----------------------------------------------------------------------------
(* Orders, as far as money goes.                                           *)

\* The cashier's own, or a waiter's or a guest's, which belongs to nobody yet.
CreateOrder(o, u) ==
  /\ order[o] = NewOrder
  /\ order' = [order EXCEPT ![o].status = "OPEN", ![o].cashier = u,
                            ![o].since = Active \cup Closed]
  /\ UNCHANGED <<world, shift, starting, paying, spent, desk, physical>>

SetStatus(o, st) ==
  /\ Free(o) /\ order[o].status # "CANCELED"
  /\ order' = [order EXCEPT ![o].status = st]
  /\ UNCHANGED <<world, shift, starting, paying, spent, desk, physical>>

Mine(o, u) == "shared" \in world \/ order[o].cashier \in {u, Nobody}

\* cash is the bill's cash share, tendered what the cash lines say.
Payable(o, u, cash, tendered) ==
  /\ Free(o) /\ Mine(o, u) /\ order[o].status # "CANCELED" /\ ~order[o].is_paid
  /\ tendered = cash \/ ("change" \in world /\ cash > 0 /\ tendered = cash + 1)

\* An order nobody has is credited to who collects; payment rows add up.
Paid(o, p) ==
  [order EXCEPT ![o].is_paid = TRUE, ![o].by = p.by, ![o].cash = p.cash,
                ![o].tendered = @ + p.tendered, ![o].noncash = @ + Total[o] - p.cash,
                ![o].at = p.at,
                ![o].cashier = IF @ = Nobody THEN p.by ELSE @]

MarkAsPaid(o, u, cash, tendered) ==
  LET p == [by |-> u, cash |-> cash, tendered |-> tendered, at |-> Active]
  IN /\ Payable(o, u, cash, tendered)
     /\ order' = Paid(o, p)
     /\ AddToRegister(cash) /\ Hands(u, cash)
     /\ UNCHANGED <<world, shift, starting, paying, spent>>

StampPayment(o, u, cash, tendered) ==
  /\ "server" \in world
  /\ Payable(o, u, cash, tendered)
  /\ paying' = [paying EXCEPT ![o] = [by |-> u, cash |-> cash, tendered |-> tendered,
                                      at |-> Active]]
  /\ Hands(u, cash)
  /\ UNCHANGED <<world, shift, order, starting, spent, desk>>

CommitPayment(o) ==
  /\ paying[o].by # Nobody
  /\ order' = Paid(o, paying[o])
  /\ AddToRegister(paying[o].cash)
  /\ paying' = [paying EXCEPT ![o] = NotPaying]
  /\ UNCHANGED <<world, shift, starting, spent, physical>>

\* Cancelling gives back the bill less what settled elsewhere, or the whole bill of
\* a cash order without payment rows, out of the drawer of who cancels.
IsCash(o) == order[o].cash = Total[o]
HasRows(o) == order[o].tendered + order[o].noncash > 0
CashInDrawer(o) ==
  IF HasRows(o) THEN Max({0, Total[o] - order[o].noncash}) ELSE IF IsCash(o) THEN Total[o] ELSE 0
Cancel(o, u) ==
  /\ Free(o) /\ Mine(o, u) /\ order[o].status # "CANCELED"
  /\ order[o].is_paid => "late return" \in world \/ order[o].at = Active
  /\ order' = [order EXCEPT ![o].status = "CANCELED"]
  /\ IF order[o].is_paid
     THEN AddToRegister(-CashInDrawer(o)) /\ Hands(u, -CashInDrawer(o))
     ELSE UNCHANGED <<desk, physical>>
  /\ UNCHANGED <<world, shift, starting, paying, spent>>

\* admins/: whole bills, no payment rows, nobody credited.
AdminPay(o, cash) ==
  /\ "back office" \in world /\ Free(o) /\ order[o].status # "CANCELED" /\ ~order[o].is_paid
  /\ cash \in {0, Total[o]}
  /\ order' = [order EXCEPT ![o].is_paid = TRUE, ![o].cash = cash, ![o].at = Active]
  /\ AddToRegister(cash)
  /\ UNCHANGED <<world, shift, starting, paying, spent, physical>>
AdminUnpay(o) ==
  /\ "back office" \in world /\ Free(o) /\ order[o].status # "CANCELED" /\ order[o].is_paid
  /\ order[o].tendered + order[o].noncash <= Total[o]   \* bound
  /\ order' = [order EXCEPT ![o].is_paid = FALSE, ![o].by = Nobody, ![o].cash = 0, ![o].at = {}]
  /\ IF IsCash(o) THEN AddToRegister(-Total[o]) ELSE UNCHANGED desk
  /\ UNCHANGED <<world, shift, starting, paying, spent, physical>>
AdminCancel(o) ==
  /\ "back office" \in world /\ Free(o) /\ order[o].status # "CANCELED"
  /\ order' = [order EXCEPT ![o].status = "CANCELED"]
  /\ IF order[o].is_paid /\ IsCash(o) THEN AddToRegister(-Total[o]) ELSE UNCHANGED desk
  /\ UNCHANGED <<world, shift, starting, paying, spent, physical>>

-----------------------------------------------------------------------------
(* The register.                                                           *)

Inkassa(a) ==
  /\ "cash moves" \in world /\ a <= desk.register /\ desk.inkassa + a <= MaxMoved
  /\ desk' = [desk EXCEPT !.register = @ - a, !.safe = @ + a, !.inkassa = @ + a]
  /\ UNCHANGED <<world, shift, order, starting, paying, spent, physical>>

\* HR deposits, withdrawals and pay-outs; only a CASH withdrawal asks for cover.
CashTransaction(a, covered) ==
  /\ "cash moves" \in world
  /\ covered /\ a < 0 => -a <= desk.register
  /\ desk.office + a \in -MaxMoved..MaxMoved
  /\ desk' = [desk EXCEPT !.register = @ + a, !.office = @ + a]
  /\ UNCHANGED <<world, shift, order, starting, paying, spent, physical>>

ShiftWork ==
  \/ \E u \in Users, k \in Terminals :
       StartShift(u, k) \/ \E s \in Shifts : CreateShift(u, k, s)
  \/ \E s \in Shifts :
       \/ CashboxExpense(s)
       \/ EndShift(s)
       \/ \E c \in Counts : Reconcile(s, c)
OrderWork ==
  \E o \in Orders :
    \/ \E u \in Users \cup {Nobody} : CreateOrder(o, u)
    \/ \E st \in {"OPEN", "COMPLETED"} : SetStatus(o, st)
    \/ \E u \in Users, c \in 0..Total[o], d \in 0..1 :
         MarkAsPaid(o, u, c, c + d) \/ StampPayment(o, u, c, c + d)
    \/ CommitPayment(o)
    \/ \E u \in Users : Cancel(o, u)
    \/ \E c \in {0, Total[o]} : AdminPay(o, c)
    \/ AdminUnpay(o) \/ AdminCancel(o)
DeskWork ==
  \/ \E a \in 1..MaxMoved : Inkassa(a)
  \/ \E a \in {-1, 1}, covered \in BOOLEAN : CashTransaction(a, covered)

Next == ShiftWork \/ OrderWork \/ DeskWork

Spec == Init /\ [][Next]_vars

-----------------------------------------------------------------------------
(* Properties.                                                             *)

Without(complications) == world \cap complications = {}

\* However starts, ends and resumes interleave, a user has one open shift at most.
OneActiveShift ==
  Without({"two terminals"}) => \A u \in Users : \A s, t \in Of(u) : s = t

\* What a cashier collects during a shift is in the figures of that shift once it is
\* closed, whoever created the order and whenever, unless the order was cancelled.
CollectedIsCounted ==
  Without({"server", "shared"}) =>
    \A s \in Closed, o \in Orders :
      /\ order[o].is_paid /\ order[o].status # "CANCELED"
      /\ s \in order[o].at /\ order[o].by = shift[s].user
      => o \in shift[s].taken

\* ... and no payment is in the figures of two shifts.
CountedOnce ==
  Without({"two terminals", "back office"}) =>
    \A s, t \in Shifts : s # t => shift[s].taken \cap shift[t].taken = {}

\* Both, of shifts that a user has one at a time: each payment is in one shift.
CountedInOneShift == OneActiveShift /\ CollectedIsCounted /\ CountedOnce

\* The drawer figure frozen at close is the cash that went through the drawer.
ExpectedIsPhysical ==
  Without(Complication \ {"cash moves"}) => \A s \in Closed : shift[s].expected = physical[s]

\* The SAFE holds what managers confirmed and what inkassa moved, each once.
SafeIsSettled ==
  desk.safe = desk.inkassa + SumFunction([s \in Shifts |-> Max({0, shift[s].confirmed})])

\* The register is what paid orders brought, plus HR cash, less inkassa.
RegisterReconciles ==
  Without({"back office"}) =>
    desk.register = desk.office - desk.inkassa
      + SumFunction([o \in Orders |-> IF order[o].status = "CANCELED" THEN 0 ELSE order[o].cash])

\* Both: the money above the drawers is what the desk and the orders say.
MoneyIsSettled == SafeIsSettled /\ RegisterReconciles
=============================================================================

----------------------------- MODULE Shifts_proof -----------------------------
(***************************************************************************)
(* Shifts and their money, for any number of shifts, cashiers, terminals   *)
(* and orders, whatever they cost.                                         *)
(*                                                                         *)
(* A handler changes shifts, or one order and the money that comes with    *)
(* it, or the desk.  So the invariant says what holds of every shift       *)
(* (Rostered), of every order by itself (Billed), of every stamp an order  *)
(* carries (Stamped), and of the sums; BillStep is the step of one order.  *)
(***************************************************************************)
EXTENDS Shifts, Sums, FiniteSetTheorems, TLAPS

ShiftRow == [status : {"NEW", "ACTIVE", "ENDED", "COMPLETED"},
             user : Users \cup {Nobody}, taken : SUBSET Orders,
             expected : Int, confirmed : Int]
OrderRow == [status : {"NEW", "OPEN", "COMPLETED", "CANCELED"},
             cashier : Users \cup {Nobody}, since : SUBSET Shifts,
             is_paid : BOOLEAN, by : Users \cup {Nobody}, cash : Nat,
             tendered : Nat, noncash : Nat, at : SUBSET Shifts]
Payment == [by : Users \cup {Nobody}, cash : Nat, tendered : Nat, at : SUBSET Shifts]
Desk == [register : Int, safe : Nat, inkassa : Nat, office : Int]

\* The complications that properties exclude: no back office; one terminal each; every payment taken by
\* the cashier who has the order, in one step; nothing but cash moves.
FrontOnly == Without({"back office"})
OneSeat == Without({"two terminals"})
Own == Without({"server", "shared"})
Exact == "change" \notin world
Remote == "server" \in world
Plain == Without(Complication \ {"cash moves"})

First(k) == k = 1   \* the terminal of a user who has but one

\* A shift row that is not used is empty, one that is has a user, and nothing is taken or
\* confirmed before its time.
Rostered(x) ==
  /\ x.status = "NEW" => x = NewShift
  /\ x.status # "NEW" => x.user \in Users
  /\ x.status = "ACTIVE" => x.taken = {}
  /\ x.status # "COMPLETED" => x.confirmed = 0

\* With one terminal each, whoever is about to start a shift has none.
Seats ==
  OneSeat =>
    /\ \A u \in Users : \A s, t \in Of(u) : s = t
    /\ \A x \in starting : First(x[2]) /\ Of(x[1]) = {}

\* The stamp of a payment names shifts that have started, no two of one user.
Stamped(at) ==
  /\ \A s \in at : shift[s].status # "NEW"
  /\ OneSeat =>
       \A s, t \in at : shift[s].user = shift[t].user => s = t

\* What the row r of order o, and the payment p under way for it, say of each other.
Billed(o, r, p) ==
  /\ r.status = "NEW" => r = NewOrder
  /\ p.by # Nobody =>
       /\ Remote
       /\ ~r.is_paid /\ r.status \notin {"NEW", "CANCELED"}
       /\ p.cash <= Total[o] /\ p.cash <= p.tendered
       /\ Exact => p.tendered = p.cash
  /\ ~r.is_paid => r.by = Nobody /\ r.cash = 0
  /\ FrontOnly =>
       IF r.is_paid
       THEN /\ r.by # Nobody /\ r.cashier # Nobody
            /\ r.cash <= Total[o] /\ r.noncash = Total[o] - r.cash
            /\ r.cash <= r.tendered
            /\ Exact => r.tendered = r.cash
       ELSE r.tendered = 0 /\ r.noncash = 0
  /\ Own => r.by \in {Nobody, r.cashier}

\* The orders a shift has taken are paid in it, by its user.
TakenStay ==
  FrontOnly =>
    \A s \in Shifts : \A o \in shift[s].taken :
      order[o].is_paid /\ s \in order[o].at /\ order[o].cashier = shift[s].user

\* What order row r adds to the expected cash of shift s.
Share(s, r) ==
  IF /\ r.cashier = shift[s].user /\ r.is_paid
     /\ s \in r.at /\ r.status # "CANCELED"
  THEN r.tendered ELSE 0
Counted(s) == SumFunctionOnSet([o \in Orders |-> Share(s, order[o])], Orders)

\* The drawer of a shift that is not closed yet.
Drawers ==
  Plain =>
    \A s \in Shifts :
      /\ shift[s].status = "NEW" => physical[s] = 0 /\ spent[s] = 0
      /\ s \in Active => Counted(s) - spent[s] = physical[s]

Bills ==
  \A o \in Orders :
    Billed(o, order[o], paying[o]) /\ Stamped(order[o].at) /\ Stamped(paying[o].at)

IInv ==
  /\ TypeOK
  /\ \A s \in Shifts : Rostered(shift[s])
  /\ Seats /\ Bills
  /\ CollectedIsCounted /\ TakenStay
  /\ Drawers /\ ExpectedIsPhysical
  /\ MoneyIsSettled

-----------------------------------------------------------------------------
(* Sums.                                                                   *)

LEMMA MaxOfZero == ASSUME NEW x \in Int PROVE Max({0, x}) = IF x > 0 THEN x ELSE 0
<1>1. \E y \in {0, x} : \A z \in {0, x} : y >= z
  OBVIOUS
<1>2. Max({0, x}) \in {0, x} /\ \A z \in {0, x} : Max({0, x}) >= z
  BY <1>1 DEF Max
<1> QED BY <1>2

\* What end_shift computes is the invariant's sum over all orders.
LEMMA ExpectedIsCounted ==
  ASSUME TypeOK, NEW s \in Shifts
  PROVE  Expected(s) = Counted(s) - spent[s]
<1> DEFINE f == [o \in Orders |-> Share(s, order[o])]
           g == [o \in Taken(s) |-> order[o].tendered]
           none == Orders \ Taken(s)
<1>1. /\ Taken(s) \subseteq Orders
      /\ Orders = Taken(s) \cup none /\ Taken(s) \cap none = {}
      /\ IsFiniteSet(Taken(s)) /\ IsFiniteSet(none)
  <2>1. Taken(s) \subseteq Orders
    BY DEF Taken
  <2> QED BY <2>1, ShiftsAssumption, FS_Subset
<1>2. \A o \in Orders : f[o] = IF o \in Taken(s) THEN order[o].tendered ELSE 0
  BY DEF Share, Taken
<1>3. \A o \in Orders : f[o] \in Int
  BY <1>2 DEF TypeOK
<1>4. \A o \in Taken(s) : g[o] = f[o]
  BY <1>1, <1>2
<1>5. \A o \in none : f[o] = 0
  BY <1>2
<1>6. SumFunction(g) = SumFunctionOnSet(g, Taken(s))
  BY DEF SumFunction
<1> HIDE DEF f, g
<1>7. SumFunctionOnSet(g, Taken(s)) = SumFunctionOnSet(f, Taken(s))
  BY <1>1, <1>4, SumSame
<1>8. SumFunctionOnSet(f, none) = 0
  <2> HIDE DEF none
  <2> QED BY <1>1, <1>5, SumOfZeros
<1>9. SumFunctionOnSet(f, Taken(s)) \in Int
  BY <1>1, <1>3, SumIsInt
<1>10. SumFunctionOnSet(f, Orders) = SumFunctionOnSet(f, Taken(s)) + SumFunctionOnSet(f, none)
  <2>1. \A o \in Taken(s) \cup none : f[o] \in Int
    BY <1>3, <1>1
  <2> HIDE DEF none
  <2>2. SumFunctionOnSet(f, Taken(s) \cup none)
          = SumFunctionOnSet(f, Taken(s)) + SumFunctionOnSet(f, none)
    BY <1>1, <2>1, SumSplits
  <2> QED BY <1>1, <2>2
<1>11. SumFunctionOnSet(f, Orders) = SumFunction(g)
  BY <1>6, <1>7, <1>8, <1>9, <1>10
<1> QED BY <1>11 DEF Expected, Counted, f, g

\* What an order is worth to the register.
Worth(r) == IF r.status = "CANCELED" THEN 0 ELSE r.cash
Confirmed == [s \in Shifts |-> Max({0, shift[s].confirmed})]
Worths == [o \in Orders |-> Worth(order[o])]

LEMMA MoneySums ==
  /\ SafeIsSettled <=> desk.safe = desk.inkassa + SumFunctionOnSet(Confirmed, Shifts)
  /\ RegisterReconciles <=>
       (FrontOnly =>
          desk.register = desk.office - desk.inkassa + SumFunctionOnSet(Worths, Orders))
  /\ SafeIsSettled' <=> desk'.safe = desk'.inkassa + SumFunctionOnSet(Confirmed', Shifts)
  /\ RegisterReconciles' <=>
       (FrontOnly' =>
          desk'.register = desk'.office - desk'.inkassa + SumFunctionOnSet(Worths', Orders))
<1>1. DOMAIN Confirmed = Shifts /\ DOMAIN Confirmed' = Shifts
  BY DEF Confirmed
<1>2. DOMAIN Worths = Orders /\ DOMAIN Worths' = Orders
  BY DEF Worths
<1>3. SumFunction(Confirmed) = SumFunctionOnSet(Confirmed, Shifts)
      /\ SumFunction(Confirmed') = SumFunctionOnSet(Confirmed', Shifts)
  BY <1>1 DEF SumFunction
<1>4. SumFunction(Worths) = SumFunctionOnSet(Worths, Orders)
      /\ SumFunction(Worths') = SumFunctionOnSet(Worths', Orders)
  BY <1>2 DEF SumFunction
<1>5. /\ SafeIsSettled <=> desk.safe = desk.inkassa + SumFunction(Confirmed)
      /\ SafeIsSettled' <=> desk'.safe = desk'.inkassa + SumFunction(Confirmed')
  BY DEF SafeIsSettled, Confirmed
<1>6. /\ RegisterReconciles <=>
           (FrontOnly =>
              desk.register = desk.office - desk.inkassa + SumFunction(Worths))
      /\ RegisterReconciles' <=>
           (FrontOnly' =>
              desk'.register = desk'.office - desk'.inkassa + SumFunction(Worths'))
  BY DEF RegisterReconciles, Worths, Worth, FrontOnly
<1> QED BY <1>3, <1>4, <1>5, <1>6

-----------------------------------------------------------------------------
(* The step of one order.                                                  *)

\* Row o becomes r, the payment under way for it p, and of the desk only the register moves.
Collects(o, r, p) ==
  /\ order' = [order EXCEPT ![o] = r] /\ paying' = [paying EXCEPT ![o] = p]
  /\ desk' \in Desk
  /\ desk'.safe = desk.safe /\ desk'.inkassa = desk.inkassa /\ desk'.office = desk.office
  /\ physical' \in [Shifts -> Int]
  /\ UNCHANGED <<world, shift, starting, spent>>

\* A new stamp meets no closed shift; the other handlers leave the stamp alone.
StampKept(q, r) ==
  Own /\ r.is_paid /\ r.status # "CANCELED" =>
    \/ q.is_paid /\ q.status # "CANCELED" /\ r.at = q.at /\ r.by = q.by
    \/ r.at \cap Closed = {}
PaymentKept(q, r) ==
  FrontOnly /\ q.is_paid => r.is_paid /\ r.at = q.at /\ r.cashier = q.cashier

\* The register and the drawers move by what the order is worth to them.
Banks(q, r) ==
  FrontOnly => desk'.register = desk.register + Worth(r) - Worth(q)
Fills(q, r) ==
  Plain =>
    \A s \in Shifts :
      physical'[s] = physical[s] + IF s \in Active THEN Share(s, r) - Share(s, q) ELSE 0

LEMMA Amounts ==
  ASSUME NEW r \in OrderRow
  PROVE  Worth(r) \in Int /\ \A s \in Shifts : Share(s, r) \in Int
BY DEF OrderRow, Worth, Share

LEMMA Typed ==
  ASSUME TypeOK
  PROVE  /\ order \in [Orders -> OrderRow] /\ paying \in [Orders -> Payment]
         /\ \A s \in Shifts : /\ shift[s] \in ShiftRow
                             /\ physical[s] \in Int /\ spent[s] \in Int
         /\ desk \in Desk
         /\ desk.register \in Int /\ desk.office \in Int
         /\ desk.safe \in Nat /\ desk.inkassa \in Nat
         /\ spent \in [Shifts -> Nat] /\ physical \in [Shifts -> Int]
BY DEF TypeOK, OrderRow, Payment, ShiftRow, Desk

\* One row changes: so do the sums, by what it is worth.
LEMMA SumsMove ==
  ASSUME TypeOK, NEW o \in Orders, NEW r \in OrderRow, order' = [order EXCEPT ![o] = r]
  PROVE  /\ SumFunctionOnSet(Worths, Orders) \in Int
         /\ SumFunctionOnSet(Worths', Orders)
              = SumFunctionOnSet(Worths, Orders) - Worth(order[o]) + Worth(r)
         /\ \A s \in Shifts :
              /\ Counted(s) \in Int
              /\ SumFunctionOnSet([q \in Orders |-> Share(s, order'[q])], Orders)
                   = Counted(s) - Share(s, order[o]) + Share(s, r)
<1>1. /\ \A q \in Orders : order'[q] = IF q = o THEN r ELSE order[q]
      /\ \A q \in Orders : order[q] \in OrderRow /\ order'[q] \in OrderRow
      /\ IsFiniteSet(Orders)
  BY ShiftsAssumption, Typed
<1>2. \A q \in Orders : Worths[q] \in Int /\ Worths'[q] \in Int
  BY <1>1, Amounts DEF Worths
<1>3. (\A q \in Orders \ {o} : Worths[q] = Worths'[q])
      /\ Worths[o] = Worth(order[o]) /\ Worths'[o] = Worth(r)
  BY <1>1 DEF Worths
<1>4. SumFunctionOnSet(Worths', Orders) = SumFunctionOnSet(Worths, Orders) - Worths[o] + Worths'[o]
  BY <1>1, <1>2, <1>3, SumChanges
<1>5. SumFunctionOnSet(Worths, Orders) \in Int
  BY <1>1, <1>2, SumIsInt
<1>6. ASSUME NEW s \in Shifts
      PROVE  /\ Counted(s) \in Int
             /\ SumFunctionOnSet([q \in Orders |-> Share(s, order'[q])], Orders)
                  = Counted(s) - Share(s, order[o]) + Share(s, r)
  <2> DEFINE f == [q \in Orders |-> Share(s, order[q])]
             g == [q \in Orders |-> Share(s, order'[q])]
  <2>1. \A q \in Orders : f[q] \in Int /\ g[q] \in Int
    BY <1>1, Amounts
  <2>2. (\A q \in Orders \ {o} : f[q] = g[q]) /\ f[o] = Share(s, order[o]) /\ g[o] = Share(s, r)
    BY <1>1
  <2>3. Counted(s) = SumFunctionOnSet(f, Orders)
    BY DEF Counted
  <2> HIDE DEF f, g
  <2>4. SumFunctionOnSet(g, Orders) = SumFunctionOnSet(f, Orders) - f[o] + g[o]
    BY <1>1, <2>1, <2>2, SumChanges
  <2>5. SumFunctionOnSet(f, Orders) \in Int
    BY <1>1, <2>1, SumIsInt
  <2>6. SumFunctionOnSet(g, Orders) = Counted(s) - Share(s, order[o]) + Share(s, r)
    BY <2>2, <2>3, <2>4
  <2> QED BY <2>3, <2>5, <2>6 DEF g
<1> QED BY <1>3, <1>4, <1>5, <1>6

LEMMA BillStep ==
  ASSUME IInv, NEW o \in Orders, NEW r \in OrderRow, NEW p \in Payment,
         Collects(o, r, p),
         Billed(o, r, p), Stamped(r.at), Stamped(p.at),
         StampKept(order[o], r), PaymentKept(order[o], r),
         Banks(order[o], r), Fills(order[o], r)
  PROVE  IInv'
<1>1. /\ \A q \in Orders : order'[q] = IF q = o THEN r ELSE order[q]
      /\ \A q \in Orders : paying'[q] = IF q = o THEN p ELSE paying[q]
      /\ \A q \in Orders : order[q] \in OrderRow /\ order'[q] \in OrderRow
      /\ order' = [order EXCEPT ![o] = r]
  BY Typed DEF IInv, Collects
<1>0. UNCHANGED <<world, shift, starting, spent>>
  BY DEF Collects
<1>2. TypeOK'
  BY DEF IInv, TypeOK, OrderRow, Payment, Collects, Desk
<1>3. (\A s \in Shifts : Rostered(shift[s]))' /\ Seats'
  BY <1>0 DEF IInv, Rostered, Seats, Of, Active, OneSeat, Without
<1>4. Bills'
  <2>1. \A q \in Orders : Billed(q, order'[q], paying'[q]) /\ Stamped(order'[q].at)
                          /\ Stamped(paying'[q].at)
    BY <1>1 DEF IInv, Bills
  <2> QED BY <1>0, <2>1 DEF Bills, Billed, Stamped, OneSeat, FrontOnly, Own, Exact, Remote, Without
<1>5. CollectedIsCounted'
  <2>1. ASSUME Own, NEW s \in Closed, NEW q \in Orders,
               order'[q].is_paid, order'[q].status # "CANCELED", s \in order'[q].at,
               order'[q].by = shift[s].user
        PROVE  q \in shift[s].taken
    BY <1>1, <2>1 DEF IInv, CollectedIsCounted, Own, StampKept
  <2> QED BY <1>0, <2>1 DEF CollectedIsCounted, Own, Without, Closed
<1>6. TakenStay'
  <2>1. ASSUME FrontOnly, NEW s \in Shifts, NEW q \in shift[s].taken
        PROVE  order'[q].is_paid /\ s \in order'[q].at /\ order'[q].cashier = shift[s].user
    <3>1. q \in Orders
      BY DEF IInv, TypeOK
    <3> QED BY <1>1, <2>1, <3>1 DEF IInv, TakenStay, PaymentKept
  <2> QED BY <1>0, <2>1 DEF TakenStay, FrontOnly, Without
<1>7. Drawers' /\ ExpectedIsPhysical'
  <2>1. Plain' <=> Plain
    BY <1>0 DEF Plain, Without
  <2> SUFFICES ASSUME Plain
               PROVE  /\ \A s \in Shifts :
                           /\ shift[s].status = "NEW" => physical'[s] = 0 /\ spent[s] = 0
                           /\ s \in Active => Counted(s)' - spent[s] = physical'[s]
                      /\ \A s \in Closed : shift[s].expected = physical'[s]
    BY <1>0, <2>1 DEF Drawers, ExpectedIsPhysical, Plain, Closed, Active
  <2>2. \A s \in Shifts : physical[s] \in Int /\ spent[s] \in Int
    BY Typed DEF IInv
  <2>3. \A s \in Closed : s \in Shifts /\ s \notin Active
    BY DEF Closed, Active
  <2>0. \A s \in Shifts : Share(s, r) \in Int /\ Share(s, order[o]) \in Int
    BY Amounts, <1>1
  <2>4. ASSUME NEW s \in Active PROVE Counted(s)' - spent[s] = physical'[s]
    <3>1. s \in Shifts
      BY DEF Active
    <3>2. Counted(s)' = SumFunctionOnSet([q \in Orders |-> Share(s, order'[q])], Orders)
      BY <1>0 DEF Counted, Share
    <3>3. /\ Counted(s) \in Int
          /\ Counted(s)' = Counted(s) - Share(s, order[o]) + Share(s, r)
      BY <1>1, <3>1, <3>2, SumsMove DEF IInv
    <3>4. Counted(s) - spent[s] = physical[s]
      BY <3>1 DEF IInv, Drawers
    <3>5. physical'[s] = physical[s] + Share(s, r) - Share(s, order[o])
      BY <2>0, <2>2, <3>1 DEF Fills
    <3> QED BY <2>0, <2>2, <3>1, <3>3, <3>4, <3>5
  <2>5. \A s \in Shifts : s \notin Active => physical'[s] = physical[s]
    BY <2>0, <2>2 DEF Fills
  <2>6. \A s \in Shifts : shift[s].status = "NEW" => s \notin Active
    BY DEF Active
  <2> QED BY <2>3, <2>4, <2>5, <2>6 DEF IInv, Drawers, ExpectedIsPhysical, Plain
<1>8. MoneyIsSettled'
  <2>1. SafeIsSettled'
    <3>1. Confirmed' = Confirmed /\ desk'.safe = desk.safe /\ desk'.inkassa = desk.inkassa
      BY DEF Confirmed, Collects
    <3> QED BY <3>1, MoneySums DEF IInv, MoneyIsSettled
  <2>2. RegisterReconciles'
    <3> SUFFICES ASSUME FrontOnly
                 PROVE  desk'.register = desk'.office - desk'.inkassa + SumFunctionOnSet(Worths', Orders)
      BY <1>0, MoneySums DEF FrontOnly, Without
    <3>1. /\ desk'.office = desk.office /\ desk'.inkassa = desk.inkassa
          /\ desk.office \in Int /\ desk.inkassa \in Int /\ desk.register \in Int
      BY Typed DEF IInv, Collects
    <3>2. desk'.register = desk.register + Worth(r) - Worth(order[o])
      BY DEF Banks
    <3>3. Worth(r) \in Int /\ Worth(order[o]) \in Int
      BY <1>1, Amounts
    <3>4. /\ SumFunctionOnSet(Worths, Orders) \in Int
          /\ SumFunctionOnSet(Worths', Orders)
               = SumFunctionOnSet(Worths, Orders) - Worth(order[o]) + Worth(r)
      BY <1>1, SumsMove DEF IInv
    <3>5. desk.register = desk.office - desk.inkassa + SumFunctionOnSet(Worths, Orders)
      BY MoneySums DEF IInv, MoneyIsSettled
    <3> QED BY <3>1, <3>2, <3>3, <3>4, <3>5
  <2> QED BY <2>1, <2>2 DEF MoneyIsSettled
<1> QED BY <1>2, <1>3, <1>4, <1>5, <1>6, <1>7, <1>8 DEF IInv

-----------------------------------------------------------------------------
(* The handlers of orders.                                                 *)

LEMMA Row ==
  ASSUME IInv, NEW o \in Orders
  PROVE  /\ TypeOK
         /\ order[o] \in OrderRow /\ paying[o] \in Payment
         /\ Billed(o, order[o], paying[o])
         /\ Stamped(order[o].at) /\ Stamped(paying[o].at)
         /\ Total[o] \in Nat /\ Total[o] > 0
         /\ paying' = paying => paying' = [paying EXCEPT ![o] = paying[o]]
BY Typed, ShiftsAssumption DEF IInv, Bills

LEMMA ActiveStamp ==
  ASSUME IInv
  PROVE  Stamped(Active) /\ Stamped({}) /\ Active \cap Closed = {} /\ Active \subseteq Shifts
<1>1. \A s \in Shifts : shift[s].status # "NEW" => shift[s].user \in Users
  BY DEF IInv, Rostered
<1>2. Stamped(Active)
  BY <1>1 DEF IInv, Seats, Stamped, Of, Active
<1>3. Stamped({}) /\ Active \cap Closed = {} /\ Active \subseteq Shifts
  BY DEF Stamped, Active, Closed
<1> QED BY <1>2, <1>3

\* A handler that is about something else moves neither the register nor a drawer.
LEMMA NothingMoves ==
  ASSUME TypeOK, NEW q \in OrderRow, NEW r \in OrderRow, Worth(r) = Worth(q),
         \A s \in Shifts : Share(s, r) = Share(s, q),
         UNCHANGED <<desk, physical>>
  PROVE  desk' \in Desk /\ physical' \in [Shifts -> Int] /\ Banks(q, r) /\ Fills(q, r)
<1>1. Worth(r) \in Int /\ \A s \in Shifts : Share(s, r) \in Int
  BY Amounts
<1>2. desk.register \in Int /\ \A s \in Shifts : physical[s] \in Int
  BY Typed
<1>3. Banks(q, r)
  BY <1>1, <1>2 DEF Banks
<1>4. Fills(q, r)
  BY <1>1, <1>2 DEF Fills
<1>5. desk' \in Desk /\ physical' \in [Shifts -> Int]
  BY Typed DEF TypeOK
<1> QED BY <1>3, <1>4, <1>5

LEMMA OnlyPlain ==
  Plain => FrontOnly /\ Own /\ Exact /\ ~Remote /\ "late return" \notin world
           /\ "shared" \notin world /\ "back office" \notin world
<1> DEFINE C == Complication \ {"cash moves"}
<1>1. {"server", "two terminals", "shared", "late return", "change", "back office"} \subseteq C
  BY DEF Complication
<1> HIDE DEF C
<1>2. Plain => world \cap C = {}
  BY DEF Plain, Without, C
<1> QED BY <1>1, <1>2 DEF FrontOnly, Own, Exact, Remote, Without

LEMMA CreateStep ==
  ASSUME IInv, NEW o \in Orders, NEW u \in Users \cup {Nobody}, CreateOrder(o, u)
  PROVE  IInv'
<1> DEFINE q == order[o]
           r == [q EXCEPT !.status = "OPEN", !.cashier = u, !.since = Active \cup Closed]
<1>1. /\ q = NewOrder /\ order' = [order EXCEPT ![o] = r]
      /\ UNCHANGED <<world, shift, starting, paying, spent, desk, physical>>
  BY Row DEF CreateOrder, TypeOK
<1>2. /\ r \in OrderRow /\ r.status = "OPEN" /\ ~r.is_paid /\ r.by = Nobody
      /\ r.cash = 0 /\ r.tendered = 0 /\ r.noncash = 0 /\ r.at = {} /\ q \in OrderRow
  <2>1. Active \cup Closed \subseteq Shifts
    BY DEF Active, Closed
  <2>2. q \in OrderRow
    BY Row
  <2>3. r \in OrderRow /\ r.status = "OPEN" /\ r.is_paid = q.is_paid /\ r.by = q.by
        /\ r.cash = q.cash /\ r.tendered = q.tendered /\ r.noncash = q.noncash /\ r.at = q.at
    BY <2>1, <2>2 DEF OrderRow
  <2> HIDE DEF r
  <2> QED BY <1>1, <2>2, <2>3 DEF NewOrder
<1> HIDE DEF r
<1>3. Worth(q) = 0 /\ Worth(r) = 0 /\ \A s \in Shifts : Share(s, q) = 0 /\ Share(s, r) = 0
  BY <1>1, <1>2 DEF Worth, Share, NewOrder
<1>4. Billed(o, r, paying[o])
  BY <1>1, <1>2, Row DEF Billed, NewOrder
<1>5. StampKept(q, r) /\ PaymentKept(q, r)
  BY <1>1, <1>2 DEF StampKept, PaymentKept, NewOrder
<1>6. Collects(o, r, paying[o]) /\ Banks(q, r) /\ Fills(q, r)
  BY <1>1, <1>2, <1>3, Row, NothingMoves DEF Collects
<1> QED BY <1>2, <1>4, <1>5, <1>6, Row, ActiveStamp, BillStep

LEMMA StatusStep ==
  ASSUME IInv, NEW o \in Orders, NEW st \in {"OPEN", "COMPLETED"}, SetStatus(o, st)
  PROVE  IInv'
<1> DEFINE q == order[o]
           r == [q EXCEPT !.status = st]
<1>1. /\ order' = [order EXCEPT ![o] = r]
      /\ q.status \notin {"NEW", "CANCELED"} /\ paying[o].by = Nobody
      /\ UNCHANGED <<world, shift, starting, paying, spent, desk, physical>>
  BY Row DEF SetStatus, TypeOK, Free
<1>2. /\ q \in OrderRow /\ r \in OrderRow /\ r.status = st /\ r.is_paid = q.is_paid /\ r.by = q.by
      /\ r.cashier = q.cashier /\ r.at = q.at
      /\ r.cash = q.cash /\ r.tendered = q.tendered /\ r.noncash = q.noncash
  BY Row DEF OrderRow
<1> HIDE DEF r
<1>3. Worth(r) = Worth(q) /\ \A s \in Shifts : Share(s, r) = Share(s, q)
  BY <1>1, <1>2 DEF Worth, Share
<1>4. Billed(o, r, paying[o])
  BY <1>1, <1>2, Row DEF Billed
<1>5. StampKept(q, r) /\ PaymentKept(q, r) /\ Stamped(r.at)
  BY <1>1, <1>2, Row DEF StampKept, PaymentKept
<1>6. Collects(o, r, paying[o]) /\ Banks(q, r) /\ Fills(q, r)
  BY <1>1, <1>2, <1>3, Row, NothingMoves DEF Collects
<1> QED BY <1>2, <1>4, <1>5, <1>6, Row, BillStep

LEMMA StampStep ==
  ASSUME IInv, NEW o \in Orders, NEW u \in Users, NEW cash \in 0..Total[o], NEW extra \in 0..1,
         StampPayment(o, u, cash, cash + extra)
  PROVE  IInv'
<1> DEFINE q == order[o]
           p == [by |-> u, cash |-> cash, tendered |-> cash + extra, at |-> Active]
<1>1. /\ Remote /\ Free(o) /\ q.status # "CANCELED" /\ ~q.is_paid
      /\ Exact => extra = 0
      /\ paying' = [paying EXCEPT ![o] = p]
      /\ UNCHANGED <<world, shift, order, starting, spent, desk>>
  BY Row DEF StampPayment, Payable, Exact, Remote
<1>2. physical' \in [Shifts -> Int]
  <2>1. \A s \in Shifts : physical[s] + (IF s \in Of(u) THEN cash ELSE 0) \in Int
    BY Row, Typed
  <2> QED BY <2>1 DEF StampPayment, Hands
<1>3. /\ p \in Payment /\ p.by # Nobody /\ p.cash <= Total[o] /\ p.cash <= p.tendered
      /\ Exact => p.tendered = p.cash
      /\ p.at = Active
  BY <1>1, Row, ActiveStamp, ShiftsAssumption DEF Payment
<1> HIDE DEF p
<1>4. Billed(o, q, p)
  BY <1>1, <1>3, Row DEF Billed, Free
<1>5. StampKept(q, q) /\ PaymentKept(q, q)
  BY DEF StampKept, PaymentKept
<1>6. Worth(q) \in Int /\ desk.register \in Int /\ desk \in Desk
      /\ order = [order EXCEPT ![o] = q]
  BY Row, Amounts, Typed
<1>7. Banks(q, q)
  BY <1>1, <1>6 DEF Banks
<1>8. Fills(q, q)
  <2>1. ~Plain
    BY <1>1, OnlyPlain
  <2> QED BY <2>1 DEF Fills
<1>9. Collects(o, q, p)
  BY <1>1, <1>2, <1>6 DEF Collects
<1> QED BY <1>3, <1>4, <1>5, <1>7, <1>8, <1>9, Row, ActiveStamp, BillStep

\* The row q of order o, paid as p says.
PaidRow(o, q, p) ==
  [q EXCEPT !.is_paid = TRUE, !.by = p.by, !.cash = p.cash,
            !.tendered = @ + p.tendered, !.noncash = @ + Total[o] - p.cash,
            !.at = p.at, !.cashier = IF @ = Nobody THEN p.by ELSE @]

LEMMA PaidRowFields ==
  ASSUME NEW o \in Orders, NEW q \in OrderRow, NEW p \in Payment, p.cash <= Total[o]
  PROVE  LET r == PaidRow(o, q, p)
         IN /\ r \in OrderRow /\ r.is_paid /\ r.status = q.status
            /\ r.by = p.by /\ r.cash = p.cash /\ r.at = p.at
            /\ r.tendered = q.tendered + p.tendered
            /\ r.noncash = q.noncash + Total[o] - p.cash
            /\ r.cashier = IF q.cashier = Nobody THEN p.by ELSE q.cashier
<1> DEFINE t == q.tendered + p.tendered
           n == q.noncash + Total[o] - p.cash
           c == IF q.cashier = Nobody THEN p.by ELSE q.cashier
           r == [q EXCEPT !.is_paid = TRUE, !.by = p.by, !.cash = p.cash, !.tendered = t,
                          !.noncash = n, !.at = p.at, !.cashier = c]
<1>1. t \in Nat /\ n \in Nat /\ c \in Users \cup {Nobody} /\ p.by \in Users \cup {Nobody}
      /\ p.cash \in Nat /\ p.at \in SUBSET Shifts
  BY ShiftsAssumption DEF OrderRow, Payment
<1>2. PaidRow(o, q, p) = r
  BY DEF PaidRow
<1> HIDE DEF t, n, c
<1>3. /\ r \in OrderRow /\ r.is_paid /\ r.status = q.status
      /\ r.by = p.by /\ r.cash = p.cash /\ r.at = p.at
      /\ r.tendered = t /\ r.noncash = n /\ r.cashier = c
  BY <1>1 DEF OrderRow
<1> HIDE DEF r
<1> QED BY <1>2, <1>3 DEF t, n, c

\* p is paid for order o, and none is under way any more (e).
Pays(o, p, e) ==
  /\ order' = [order EXCEPT ![o] = PaidRow(o, order[o], p)]
  /\ paying' = [paying EXCEPT ![o] = e]
  /\ desk' = [desk EXCEPT !.register = @ + p.cash]
  /\ UNCHANGED <<world, shift, starting, spent>>

\* p settles order o, and what it brings lies in the drawer of who took it.
Settles(o, p) ==
  /\ ~order[o].is_paid /\ order[o].status # "NEW" /\ order[o].status # "CANCELED"
  /\ p.by \in Users /\ p.cash <= Total[o] /\ p.cash <= p.tendered
  /\ Exact => p.tendered = p.cash
  /\ Own => order[o].cashier \in {p.by, Nobody} /\ p.at = Active
Drawn(p) ==
  /\ physical' \in [Shifts -> Int]
  /\ Plain => \A s \in Shifts : physical'[s] = physical[s] + IF s \in Of(p.by) THEN p.cash ELSE 0

LEMMA PaidStep ==
  ASSUME IInv, NEW o \in Orders, NEW p \in Payment, NEW e \in Payment, Pays(o, p, e),
         Settles(o, p), Drawn(p), Stamped(p.at), e.by = Nobody, Stamped(e.at)
  PROVE  IInv'
<1> DEFINE q == order[o]
           r == PaidRow(o, q, p)
<1>1. q \in OrderRow
  BY Row
<1>2. /\ r \in OrderRow /\ r.is_paid /\ r.status = q.status
      /\ r.by = p.by /\ r.cash = p.cash /\ r.at = p.at
      /\ r.tendered = q.tendered + p.tendered
      /\ r.noncash = q.noncash + Total[o] - p.cash
      /\ r.cashier = IF q.cashier = Nobody THEN p.by ELSE q.cashier
  BY <1>1, PaidRowFields DEF Settles
<1> HIDE DEF r
<1>3. /\ q.cash = 0
      /\ FrontOnly => q.tendered = 0 /\ q.noncash = 0
      /\ p.cash \in Nat /\ p.tendered \in Nat /\ Total[o] \in Nat
      /\ p.by # Nobody
  BY Row, ShiftsAssumption DEF Billed, Payment, Settles
<1>0. /\ ~q.is_paid /\ q.status # "NEW" /\ q.status # "CANCELED"
      /\ p.cash <= Total[o] /\ p.cash <= p.tendered /\ (Exact => p.tendered = p.cash)
      /\ Own => q.cashier \in {p.by, Nobody} /\ p.at = Active
  BY DEF Settles
<1> HIDE DEF q
<1>4. Billed(o, r, e)
  BY <1>0, <1>2, <1>3 DEF Billed
<1>5. StampKept(q, r) /\ PaymentKept(q, r)
  BY <1>0, <1>2, ActiveStamp DEF StampKept, PaymentKept
<1>6. /\ desk' \in Desk /\ desk'.register = desk.register + p.cash
      /\ desk'.safe = desk.safe /\ desk'.inkassa = desk.inkassa /\ desk'.office = desk.office
  <2>1. desk \in Desk
    BY Row, Typed
  <2> QED BY <1>3, <2>1 DEF Pays, Desk
<1>7. Collects(o, r, e)
  BY <1>6 DEF Collects, Pays, Drawn, r, q
<1>8. Banks(q, r)
  <2>1. Worth(q) = 0 /\ Worth(r) = p.cash
    BY <1>0, <1>2, <1>3 DEF Worth
  <2>2. desk.register \in Int
    BY Row, Typed
  <2> QED BY <1>3, <1>6, <2>1, <2>2 DEF Banks
<1>9. Fills(q, r)
  <2> SUFFICES ASSUME Plain, NEW s \in Shifts
               PROVE  physical'[s] = physical[s] + IF s \in Active THEN Share(s, r) - Share(s, q) ELSE 0
    BY DEF Fills
  <2>1. FrontOnly /\ Own /\ Exact
    BY OnlyPlain
  <2>2. r.tendered = p.cash /\ r.cashier = p.by /\ r.at = Active
    BY <1>0, <1>2, <1>3, <2>1
  <2>3. Share(s, q) = 0 /\ Share(s, r) = IF shift[s].user = p.by /\ s \in Active THEN p.cash ELSE 0
    BY <1>0, <1>2, <2>2 DEF Share
  <2>4. s \in Of(p.by) <=> s \in Active /\ shift[s].user = p.by
    BY DEF Of
  <2>5. physical[s] \in Int
    BY Row, Typed
  <2> QED BY <1>3, <2>3, <2>4, <2>5 DEF Drawn
<1> QED BY <1>2, <1>4, <1>5, <1>7, <1>8, <1>9, BillStep DEF q

LEMMA PaidAsRow ==
  ASSUME TypeOK, NEW o \in Orders, NEW p
  PROVE  Paid(o, p) = [order EXCEPT ![o] = PaidRow(o, order[o], p)]
BY Typed DEF Paid, PaidRow

LEMMA MarkStep ==
  ASSUME IInv, NEW o \in Orders, NEW u \in Users, NEW cash \in 0..Total[o], NEW extra \in 0..1,
         MarkAsPaid(o, u, cash, cash + extra)
  PROVE  IInv'
<1> DEFINE q == order[o]
           p == [by |-> u, cash |-> cash, tendered |-> cash + extra, at |-> Active]
<1>1. /\ q.status # "NEW" /\ q.status # "CANCELED" /\ ~q.is_paid /\ paying[o].by = Nobody
      /\ Own => q.cashier \in {u, Nobody}
      /\ Exact => extra = 0
  BY DEF MarkAsPaid, Payable, Free, Mine, Exact, Own, Without
<1>2. /\ p \in Payment /\ p.by = u /\ p.cash = cash /\ p.cash <= Total[o] /\ p.cash <= p.tendered
      /\ Exact => p.tendered = p.cash
      /\ p.at = Active
  BY <1>1, Row, ActiveStamp, ShiftsAssumption DEF Payment
<1>3. /\ order' = Paid(o, p)
      /\ desk' = [desk EXCEPT !.register = @ + cash]
      /\ physical' = [s \in Shifts |-> physical[s] + IF s \in Of(u) THEN cash ELSE 0]
      /\ UNCHANGED <<world, shift, starting, paying, spent>>
  BY DEF MarkAsPaid, AddToRegister, Hands
<1> HIDE DEF p
<1>4. Pays(o, p, paying[o])
  BY <1>2, <1>3, Row, PaidAsRow DEF Pays
<1>5. physical' \in [Shifts -> Int]
  <2>1. \A s \in Shifts : physical[s] + (IF s \in Of(u) THEN cash ELSE 0) \in Int
    BY Row, Typed
  <2> QED BY <1>3, <2>1
<1>6. \A s \in Shifts : physical'[s] = physical[s] + IF s \in Of(p.by) THEN p.cash ELSE 0
  BY <1>2, <1>3
<1>7. Settles(o, p) /\ Drawn(p)
  BY <1>1, <1>2, <1>5, <1>6 DEF Settles, Drawn
<1> QED BY <1>1, <1>2, <1>4, <1>7, Row, ActiveStamp, PaidStep

LEMMA CommitStep ==
  ASSUME IInv, NEW o \in Orders, CommitPayment(o)
  PROVE  IInv'
<1> DEFINE p == paying[o]
<1>1. /\ p.by # Nobody /\ order' = Paid(o, p)
      /\ desk' = [desk EXCEPT !.register = @ + p.cash]
      /\ paying' = [paying EXCEPT ![o] = NotPaying]
      /\ UNCHANGED <<world, shift, starting, spent, physical>>
  BY DEF CommitPayment, AddToRegister
<1>2. /\ p \in Payment /\ p.by \in Users /\ Stamped(p.at) /\ Remote
      /\ ~order[o].is_paid /\ order[o].status # "NEW" /\ order[o].status # "CANCELED"
      /\ p.cash <= Total[o] /\ p.cash <= p.tendered
      /\ Exact => p.tendered = p.cash
  BY <1>1, Row DEF Billed, Payment
<1>3. NotPaying \in Payment /\ NotPaying.by = Nobody /\ NotPaying.at = {}
  BY DEF NotPaying, Payment
<1> HIDE DEF p
<1>4. Pays(o, p, NotPaying)
  BY <1>1, Row, PaidAsRow DEF Pays
<1>5. ~Own /\ ~Plain
  BY <1>2, OnlyPlain DEF Own, Remote, Without
<1>6. physical' \in [Shifts -> Int]
  BY <1>1, Row DEF TypeOK
<1>7. Settles(o, p) /\ Drawn(p)
  BY <1>2, <1>5, <1>6 DEF Settles, Drawn
<1> QED BY <1>2, <1>3, <1>4, <1>7, ActiveStamp, PaidStep

\* A cancelled order is as it was, and counts nowhere.
LEMMA CanceledRow ==
  ASSUME IInv, NEW o \in Orders, Free(o)
  PROVE  LET q == order[o]
             r == [q EXCEPT !.status = "CANCELED"]
         IN /\ q \in OrderRow /\ r \in OrderRow
            /\ Worth(r) = 0 /\ \A s \in Shifts : Share(s, r) = 0
            /\ Billed(o, r, paying[o]) /\ Stamped(r.at)
            /\ StampKept(q, r) /\ PaymentKept(q, r)
<1> DEFINE q == order[o]
           r == [q EXCEPT !.status = "CANCELED"]
<1>1. q \in OrderRow /\ q.status # "NEW" /\ paying[o].by = Nobody
  BY Row DEF Free
<1>2. /\ r \in OrderRow /\ r.status = "CANCELED" /\ r.is_paid = q.is_paid /\ r.by = q.by
      /\ r.cashier = q.cashier /\ r.at = q.at
      /\ r.cash = q.cash /\ r.tendered = q.tendered /\ r.noncash = q.noncash
  BY <1>1 DEF OrderRow
<1> HIDE DEF r
<1>3. Worth(r) = 0 /\ \A s \in Shifts : Share(s, r) = 0
  BY <1>2 DEF Worth, Share
<1>4. Billed(o, r, paying[o]) /\ Stamped(r.at)
  BY <1>1, <1>2, Row DEF Billed
<1>5. StampKept(q, r) /\ PaymentKept(q, r)
  BY <1>2 DEF StampKept, PaymentKept
<1> QED BY <1>1, <1>2, <1>3, <1>4, <1>5 DEF r

LEMMA CashInDrawerIs ==
  ASSUME IInv, NEW o \in Orders
  PROVE  /\ CashInDrawer(o) \in Int
         /\ FrontOnly /\ order[o].is_paid => CashInDrawer(o) = order[o].cash
<1> DEFINE q == order[o]
<1>1. q \in OrderRow /\ Billed(o, q, paying[o]) /\ Total[o] \in Nat /\ Total[o] > 0
  BY Row
<1>2. q.cash \in Nat /\ q.tendered \in Nat /\ q.noncash \in Nat
  BY <1>1 DEF OrderRow
<1>3. FrontOnly /\ q.is_paid => q.cash <= Total[o] /\ q.noncash = Total[o] - q.cash /\ q.cash <= q.tendered
  BY <1>1 DEF Billed
<1> HIDE DEF q
<1>4. Max({0, Total[o] - q.noncash}) = IF Total[o] - q.noncash > 0 THEN Total[o] - q.noncash ELSE 0
  <2>1. Total[o] - q.noncash \in Int
    BY <1>1, <1>2
  <2> QED BY <2>1, MaxOfZero
<1>5. CashInDrawer(o) = IF q.tendered + q.noncash > 0 THEN Max({0, Total[o] - q.noncash})
                        ELSE IF q.cash = Total[o] THEN Total[o] ELSE 0
  BY DEF CashInDrawer, HasRows, IsCash, q
<1>6. CashInDrawer(o) \in Int
  BY <1>1, <1>2, <1>4, <1>5
<1>7. FrontOnly /\ q.is_paid => CashInDrawer(o) = q.cash
  BY <1>1, <1>2, <1>3, <1>4, <1>5
<1> QED BY <1>6, <1>7 DEF q

LEMMA CancelStep ==
  ASSUME IInv, NEW o \in Orders, NEW u \in Users, Cancel(o, u)
  PROVE  IInv'
<1> DEFINE q == order[o]
           r == [q EXCEPT !.status = "CANCELED"]
           c == CashInDrawer(o)
<1>1. /\ Free(o) /\ q.status # "CANCELED"
      /\ order' = [order EXCEPT ![o] = r]
      /\ UNCHANGED <<world, shift, starting, paying, spent>>
      /\ Plain /\ q.is_paid => q.at = Active /\ q.cashier \in {u, Nobody}
  <2>1. order' = [order EXCEPT ![o] = r]
    BY Row DEF Cancel, TypeOK
  <2>2. Plain => "late return" \notin world /\ "shared" \notin world
    BY OnlyPlain
  <2> QED BY <2>1, <2>2 DEF Cancel, Mine
<1>2. /\ q \in OrderRow /\ r \in OrderRow
      /\ Worth(r) = 0 /\ \A s \in Shifts : Share(s, r) = 0
      /\ Billed(o, r, paying[o]) /\ Stamped(r.at)
      /\ StampKept(q, r) /\ PaymentKept(q, r)
  BY <1>1, CanceledRow
<1> HIDE DEF r
<1>3. /\ desk \in Desk /\ desk.register \in Int /\ \A s \in Shifts : physical[s] \in Int
      /\ paying' = [paying EXCEPT ![o] = paying[o]]
      /\ q.cash \in Nat
  BY <1>1, Row, Typed DEF OrderRow
<1>4. CASE ~q.is_paid
  <2>1. UNCHANGED <<desk, physical>>
    BY <1>4 DEF Cancel
  <2>2. Worth(q) = 0 /\ \A s \in Shifts : Share(s, q) = 0
    BY <1>4, Row DEF Worth, Share, Billed
  <2>3. Collects(o, r, paying[o]) /\ Banks(q, r) /\ Fills(q, r)
    BY <1>1, <1>2, <1>3, <2>1, <2>2, Row, NothingMoves DEF Collects
  <2> QED BY <1>2, <2>3, Row, BillStep
<1>5. CASE q.is_paid
  <2>1. c \in Int /\ (FrontOnly => c = q.cash)
    BY <1>5, CashInDrawerIs
  <2>2. /\ desk' = [desk EXCEPT !.register = @ + (-c)]
        /\ physical' = [s \in Shifts |-> physical[s] + IF s \in Of(u) THEN -c ELSE 0]
    BY <1>5 DEF Cancel, AddToRegister, Hands
  <2> HIDE DEF c
  <2>3. /\ desk' \in Desk /\ desk'.register = desk.register - c
        /\ desk'.safe = desk.safe /\ desk'.inkassa = desk.inkassa /\ desk'.office = desk.office
    BY <1>3, <2>1, <2>2 DEF Desk
  <2>4. physical' \in [Shifts -> Int]
    <3>1. \A s \in Shifts : physical[s] + (IF s \in Of(u) THEN -c ELSE 0) \in Int
      BY <1>3, <2>1
    <3> QED BY <2>2, <3>1
  <2>5. Collects(o, r, paying[o])
    BY <1>1, <1>3, <2>3, <2>4 DEF Collects
  <2>6. Banks(q, r)
    <3>1. Worth(q) = q.cash
      BY <1>1 DEF Worth
    <3> QED BY <1>2, <1>3, <2>1, <2>3, <3>1 DEF Banks
  <2>7. Fills(q, r)
    <3> SUFFICES ASSUME Plain, NEW s \in Shifts
                 PROVE  physical'[s] = physical[s] + IF s \in Active THEN Share(s, r) - Share(s, q) ELSE 0
      BY DEF Fills
    <3>1. FrontOnly /\ Exact
      BY OnlyPlain
    <3>2. q.cashier = u /\ q.at = Active /\ q.tendered = q.cash
      BY <1>1, <1>5, <3>1, Row DEF Billed
    <3>3. Share(s, q) = IF shift[s].user = u /\ s \in Active THEN q.cash ELSE 0
      BY <1>1, <1>5, <3>2 DEF Share
    <3>4. s \in Of(u) <=> s \in Active /\ shift[s].user = u
      BY DEF Of
    <3>5. physical'[s] = physical[s] + (IF s \in Of(u) THEN -c ELSE 0) /\ physical[s] \in Int
      BY <1>3, <2>2
    <3> QED BY <1>2, <1>3, <2>1, <3>1, <3>3, <3>4, <3>5
  <2> QED BY <1>2, <2>5, <2>6, <2>7, Row, BillStep
<1> QED BY <1>4, <1>5

\* Nothing is promised about the register, nor about drawers, where the back office pays.
LEMMA BackOfficeStep ==
  ASSUME IInv, NEW o \in Orders, NEW r \in OrderRow,
         "back office" \in world, order' = [order EXCEPT ![o] = r],
         Billed(o, r, paying[o]), Stamped(r.at), StampKept(order[o], r), desk' \in Desk,
         desk'.safe = desk.safe, desk'.inkassa = desk.inkassa, desk'.office = desk.office,
         UNCHANGED <<world, shift, starting, paying, spent, physical>>
  PROVE  IInv'
<1>1. ~FrontOnly /\ ~Plain
  BY OnlyPlain DEF FrontOnly, Without
<1>2. PaymentKept(order[o], r) /\ Banks(order[o], r) /\ Fills(order[o], r)
  BY <1>1 DEF PaymentKept, Banks, Fills
<1>3. Collects(o, r, paying[o])
  BY Row DEF Collects, TypeOK
<1> QED BY <1>2, <1>3, Row, BillStep

LEMMA RegisterMoves ==
  ASSUME IInv, NEW x \in Int, desk' = [desk EXCEPT !.register = @ + x] \/ UNCHANGED desk
  PROVE  /\ desk' \in Desk /\ desk'.safe = desk.safe
         /\ desk'.inkassa = desk.inkassa /\ desk'.office = desk.office
<1>1. desk \in Desk
  BY Typed DEF IInv
<1> QED BY <1>1 DEF Desk

LEMMA AdminPayStep ==
  ASSUME IInv, NEW o \in Orders, NEW cash \in {0, Total[o]}, AdminPay(o, cash)
  PROVE  IInv'
<1> DEFINE q == order[o]
           r == [q EXCEPT !.is_paid = TRUE, !.cash = cash, !.at = Active]
<1>1. /\ "back office" \in world /\ Free(o) /\ ~q.is_paid
      /\ order' = [order EXCEPT ![o] = r]
      /\ UNCHANGED <<world, shift, starting, paying, spent, physical>>
  BY Row DEF AdminPay, TypeOK
<1>0. cash \in Nat /\ cash \in Int
  BY Row
<1>7. desk' = [desk EXCEPT !.register = @ + cash]
  BY DEF AdminPay, AddToRegister
<1>2. /\ r \in OrderRow /\ r.status = q.status /\ r.is_paid /\ r.by = q.by /\ r.at = Active
  BY <1>0, Row, ActiveStamp DEF OrderRow
<1> HIDE DEF r
<1>3. ~FrontOnly /\ q.status # "NEW" /\ paying[o].by = Nobody /\ q.by = Nobody
  BY <1>1, Row DEF FrontOnly, Without, Free, Billed
<1>4. Billed(o, r, paying[o]) /\ Stamped(r.at)
  BY <1>2, <1>3, Row, ActiveStamp DEF Billed
<1>5. StampKept(q, r)
  BY <1>2, ActiveStamp DEF StampKept
<1>6. /\ desk' \in Desk /\ desk'.safe = desk.safe
      /\ desk'.inkassa = desk.inkassa /\ desk'.office = desk.office
  BY <1>0, <1>7, RegisterMoves
<1> QED BY <1>1, <1>2, <1>4, <1>5, <1>6, BackOfficeStep

LEMMA AdminUnpayStep ==
  ASSUME IInv, NEW o \in Orders, AdminUnpay(o)
  PROVE  IInv'
<1> DEFINE q == order[o]
           r == [q EXCEPT !.is_paid = FALSE, !.by = Nobody, !.cash = 0, !.at = {}]
<1>1. /\ "back office" \in world /\ Free(o) /\ q.status # "CANCELED"
      /\ order' = [order EXCEPT ![o] = r]
      /\ UNCHANGED <<world, shift, starting, paying, spent, physical>>
  BY Row DEF AdminUnpay, TypeOK
<1>0. -Total[o] \in Int
  BY Row
<1>7. desk' = [desk EXCEPT !.register = @ + (-Total[o])] \/ UNCHANGED desk
  BY DEF AdminUnpay, AddToRegister
<1>2. /\ r \in OrderRow /\ r.status = q.status /\ ~r.is_paid /\ r.by = Nobody /\ r.at = {}
      /\ r.cash = 0
  BY Row DEF OrderRow
<1> HIDE DEF r
<1>3. ~FrontOnly /\ q.status # "NEW" /\ paying[o].by = Nobody
  BY <1>1 DEF FrontOnly, Without, Free
<1>4. Billed(o, r, paying[o]) /\ Stamped(r.at)
  BY <1>2, <1>3, ActiveStamp DEF Billed
<1>5. StampKept(q, r)
  BY <1>2 DEF StampKept
<1>6. /\ desk' \in Desk /\ desk'.safe = desk.safe
      /\ desk'.inkassa = desk.inkassa /\ desk'.office = desk.office
  BY <1>0, <1>7, RegisterMoves
<1> QED BY <1>1, <1>2, <1>4, <1>5, <1>6, BackOfficeStep

LEMMA AdminCancelStep ==
  ASSUME IInv, NEW o \in Orders, AdminCancel(o)
  PROVE  IInv'
<1> DEFINE q == order[o]
           r == [q EXCEPT !.status = "CANCELED"]
<1>1. /\ "back office" \in world /\ Free(o)
      /\ order' = [order EXCEPT ![o] = r]
      /\ UNCHANGED <<world, shift, starting, paying, spent, physical>>
  BY Row DEF AdminCancel, TypeOK
<1>0. -Total[o] \in Int
  BY Row
<1>4. desk' = [desk EXCEPT !.register = @ + (-Total[o])] \/ UNCHANGED desk
  BY DEF AdminCancel, AddToRegister
<1>2. r \in OrderRow /\ Billed(o, r, paying[o]) /\ Stamped(r.at) /\ StampKept(q, r)
  BY <1>1, CanceledRow
<1> HIDE DEF r
<1>3. /\ desk' \in Desk /\ desk'.safe = desk.safe
      /\ desk'.inkassa = desk.inkassa /\ desk'.office = desk.office
  BY <1>0, <1>4, RegisterMoves
<1> QED BY <1>1, <1>2, <1>3, BackOfficeStep

-----------------------------------------------------------------------------
(* The handlers of shifts.                                                 *)

\* Row s of the shifts becomes x; a shift keeps its user.
Rewrites(s, x) ==
  /\ shift' = [shift EXCEPT ![s] = x]
  /\ x.status # "NEW" /\ Rostered(x)
  /\ shift[s].status # "NEW" => x.user = shift[s].user
  /\ x.status \in {"ENDED", "COMPLETED"} \/ s \notin Closed
  /\ UNCHANGED <<world, order, paying, spent, physical>>

LEMMA RewriteStep ==
  ASSUME IInv, NEW s \in Shifts, NEW x \in ShiftRow, Rewrites(s, x)
  PROVE  /\ \A t \in Shifts : shift'[t] = IF t = s THEN x ELSE shift[t]
         /\ shift' \in [Shifts -> ShiftRow]
         /\ (\A t \in Shifts : Rostered(shift[t]))'
         /\ Bills'
         /\ \A t \in Shifts : shift[t].status # "NEW" => Counted(t)' = Counted(t)
<1>1. /\ \A t \in Shifts : shift'[t] = IF t = s THEN x ELSE shift[t]
      /\ shift' \in [Shifts -> ShiftRow]
  BY DEF IInv, TypeOK, ShiftRow, Rewrites
<1>2. (\A t \in Shifts : Rostered(shift[t]))'
  <2>1. \A t \in Shifts : Rostered(shift'[t])
    BY <1>1 DEF IInv, Rewrites
  <2> QED BY <2>1 DEF Rostered
<1>3. ASSUME NEW at \in SUBSET Shifts, Stamped(at) PROVE Stamped(at)'
  <2>1. \A t \in at : shift'[t].status # "NEW" /\ shift'[t].user = shift[t].user
    BY <1>1, <1>3 DEF Stamped, Rewrites
  <2> QED BY <1>3, <2>1 DEF Stamped, OneSeat, Without, Rewrites
<1>4. Bills'
  <2>1. \A o \in Orders : order[o].at \in SUBSET Shifts /\ paying[o].at \in SUBSET Shifts
    BY DEF IInv, TypeOK
  <2>2. \A o \in Orders : Stamped(order[o].at)' /\ Stamped(paying[o].at)'
    <3>1. \A at \in SUBSET Shifts : Stamped(at) => Stamped(at)'
      BY <1>3
    <3>2. \A o \in Orders : order'[o].at = order[o].at /\ paying'[o].at = paying[o].at
      BY DEF Rewrites
    <3> QED BY <2>1, <3>1, <3>2 DEF IInv, Bills, Stamped
  <2> QED BY <2>2 DEF IInv, Bills, Billed, FrontOnly, Own, Exact, Remote, Without, Rewrites
<1>5. ASSUME NEW t \in Shifts, shift[t].status # "NEW" PROVE Counted(t)' = Counted(t)
  BY <1>1, <1>5 DEF Counted, Share, Rewrites
<1> QED BY <1>1, <1>2, <1>4, <1>5

LEMMA StartStep ==
  ASSUME IInv, NEW u \in Users, NEW k \in Terminals, StartShift(u, k)
  PROVE  IInv'
<1>1. /\ starting' = starting \cup {<<u, k>>} /\ Of(u) = {}
      /\ OneSeat => First(k)
      /\ UNCHANGED <<world, shift, order, paying, spent, desk, physical>>
  BY DEF StartShift, OneSeat, Without, First
<1>2. TypeOK'
  <2>1. starting' \subseteq Users \X Terminals
    <3>1. starting \subseteq Users \X Terminals
      BY DEF IInv, TypeOK
    <3>2. <<u, k>> \in Users \X Terminals
      OBVIOUS
    <3>3. starting' = starting \cup {<<u, k>>}
      BY <1>1
    <3> QED BY <3>1, <3>2, <3>3
  <2>2. UNCHANGED <<world, shift, order, paying, spent, desk, physical>>
    BY <1>1
  <2> QED BY <2>1, <2>2 DEF IInv, TypeOK
<1>3. Seats'
  <2>1. /\ OneSeat' <=> OneSeat
        /\ \A v : Of(v)' = Of(v)
    BY <1>1 DEF OneSeat, Without, Of, Active
  <2> QED BY <1>1, <2>1 DEF IInv, Seats
<1>4. (\A s \in Shifts : Rostered(shift[s]))' /\ Bills'
  BY <1>1 DEF IInv, Rostered, Bills, Billed, Stamped,
              OneSeat, FrontOnly, Own, Exact, Remote, Without
<1>7. CollectedIsCounted' /\ TakenStay'
  BY <1>1 DEF IInv, CollectedIsCounted, TakenStay, Closed, FrontOnly, Without
<1>5. Drawers' /\ ExpectedIsPhysical'
  BY <1>1 DEF IInv, Drawers, ExpectedIsPhysical, Counted, Share, Active, Closed, Plain, Without
<1>6. MoneyIsSettled'
  BY <1>1 DEF IInv, MoneyIsSettled, SafeIsSettled, RegisterReconciles, Without
<1> QED BY <1>2, <1>3, <1>4, <1>5, <1>6, <1>7 DEF IInv

\* Where drawers are promised to be right, this is what holds of them.
LEMMA DrawersHold ==
  ASSUME IInv, Plain, NEW t \in Shifts
  PROVE  /\ shift[t].status = "NEW" => physical[t] = 0 /\ spent[t] = 0
         /\ shift[t].status = "ACTIVE" => Counted(t) - spent[t] = physical[t]
         /\ t \in Closed => shift[t].expected = physical[t]
BY DEF IInv, Drawers, ExpectedIsPhysical, Plain, Active

\* The desk stays, and so does what managers have confirmed.
LEMMA MoneyStays ==
  ASSUME MoneyIsSettled, Confirmed' = Confirmed, UNCHANGED <<world, order, desk>>
  PROVE  MoneyIsSettled'
<1>1. Worths' = Worths /\ (FrontOnly' <=> FrontOnly)
  BY DEF Worths, Worth, FrontOnly, Without
<1> QED BY <1>1, MoneySums DEF MoneyIsSettled

LEMMA CreateShiftStep ==
  ASSUME IInv, NEW u \in Users, NEW k \in Terminals, NEW s \in Shifts, CreateShift(u, k, s)
  PROVE  IInv'
<1> DEFINE x == [shift[s] EXCEPT !.status = "ACTIVE", !.user = u]
<1>1. /\ <<u, k>> \in starting /\ shift[s] = NewShift
      /\ starting' = starting \ {<<u, k>>}
      /\ shift' = [shift EXCEPT ![s] = x]
      /\ UNCHANGED <<world, order, paying, spent, desk, physical>>
  BY DEF CreateShift, IInv, TypeOK
<1>2. /\ x \in ShiftRow /\ x.status = "ACTIVE" /\ x.user = u
      /\ x.taken = {} /\ x.confirmed = 0 /\ shift[s].status = "NEW" /\ shift[s].confirmed = 0
  <2>1. shift[s] \in ShiftRow
    BY Typed DEF IInv
  <2>2. /\ x \in ShiftRow /\ x.status = "ACTIVE" /\ x.user = u
        /\ x.taken = shift[s].taken /\ x.confirmed = shift[s].confirmed
    BY <2>1 DEF ShiftRow
  <2> QED BY <1>1, <2>2 DEF NewShift
<1> HIDE DEF x
<1>3. Rewrites(s, x)
  BY <1>1, <1>2 DEF Rewrites, Rostered, Closed
<1>4. /\ \A t \in Shifts : shift'[t] = IF t = s THEN x ELSE shift[t]
      /\ shift' \in [Shifts -> ShiftRow]
      /\ (\A t \in Shifts : Rostered(shift[t]))' /\ Bills'
      /\ \A t \in Shifts : shift[t].status # "NEW" => Counted(t)' = Counted(t)
  BY <1>2, <1>3, RewriteStep
<1>5. TypeOK'
  BY <1>1, <1>4 DEF IInv, TypeOK, ShiftRow
<1>6. Seats'
  <2> SUFFICES ASSUME OneSeat
               PROVE  /\ \A v \in Users : \A t, w \in Of(v)' : t = w
                      /\ \A y \in starting' : First(y[2]) /\ Of(y[1])' = {}
    BY <1>1 DEF Seats, OneSeat, Without
  <2>1. /\ First(k) /\ Of(u) = {}
        /\ \A v \in Users : \A t, w \in Of(v) : t = w
        /\ \A y \in starting : First(y[2]) /\ Of(y[1]) = {}
    BY <1>1 DEF IInv, Seats
  <2>2. Of(u)' = Of(u) \cup {s} /\ \A v : v # u => Of(v)' = Of(v)
    BY <1>2, <1>4 DEF Of, Active
  <2>3. ASSUME NEW y \in starting' PROVE y[1] # u
    <3>1. y \in starting /\ y # <<u, k>> /\ y = <<y[1], y[2]>>
      BY <1>1, <2>3 DEF IInv, TypeOK
    <3>2. y[2] = k
      BY <2>1, <3>1 DEF First
    <3> QED BY <3>1, <3>2
  <2> QED BY <1>1, <2>1, <2>2, <2>3
<1>7. CollectedIsCounted' /\ TakenStay'
  <2>1. Closed' = Closed /\ \A t \in Closed : t \in Shifts /\ shift'[t] = shift[t]
    BY <1>2, <1>4 DEF Closed
  <2>2. CollectedIsCounted'
    BY <1>1, <2>1 DEF IInv, CollectedIsCounted, Without
  <2>3. TakenStay'
    BY <1>1, <1>2, <1>4 DEF IInv, TakenStay, FrontOnly, Without
  <2> QED BY <2>2, <2>3
<1>8. Drawers' /\ ExpectedIsPhysical'
  <2> SUFFICES ASSUME Plain
               PROVE  /\ \A t \in Shifts :
                           /\ shift'[t].status = "NEW" => physical[t] = 0 /\ spent[t] = 0
                           /\ shift'[t].status = "ACTIVE" => Counted(t)' - spent[t] = physical[t]
                      /\ \A t \in Closed' : shift'[t].expected = physical[t]
    BY <1>1 DEF Drawers, ExpectedIsPhysical, Plain, Without, Active
  <2>1. physical[s] = 0 /\ spent[s] = 0
    BY <1>2, DrawersHold
  <2>2. Counted(s)' = 0
    <3> DEFINE f == [o \in Orders |-> Share(s, order[o])']
    <3>1. \A o \in Orders : s \notin order[o].at
      BY <1>2 DEF IInv, Bills, Stamped
    <3>2. \A o \in Orders : f[o] = 0
      BY <1>1, <3>1 DEF Share
    <3>3. Counted(s)' = SumFunctionOnSet(f, Orders)
      BY DEF Counted
    <3> HIDE DEF f
    <3> QED BY <3>2, <3>3, SumOfZeros, ShiftsAssumption
  <2>3. /\ Closed' = Closed /\ \A t \in Closed : t \in Shifts /\ t # s
        /\ \A t \in Shifts : shift[t].status = "ACTIVE" => shift[t].status # "NEW"
    BY <1>2, <1>4 DEF Closed
  <2> QED BY <1>2, <1>4, <2>1, <2>2, <2>3, DrawersHold
<1>9. MoneyIsSettled'
  <2>1. Confirmed' = Confirmed
    BY <1>2, <1>4 DEF Confirmed
  <2> QED BY <1>1, <2>1, MoneyStays DEF IInv
<1> QED BY <1>4, <1>5, <1>6, <1>7, <1>8, <1>9 DEF IInv

LEMMA EndStep ==
  ASSUME IInv, NEW s \in Shifts, EndShift(s)
  PROVE  IInv'
<1> DEFINE x == [shift[s] EXCEPT !.status = "ENDED", !.taken = Taken(s), !.expected = Expected(s)]
<1>1. /\ shift[s].status = "ACTIVE"
      /\ shift' = [shift EXCEPT ![s] = x]
      /\ UNCHANGED <<world, order, starting, paying, spent, desk, physical>>
  BY DEF EndShift, Active, IInv, TypeOK
<1>2. /\ shift[s] \in ShiftRow /\ Taken(s) \subseteq Orders
      /\ Counted(s) \in Int /\ spent[s] \in Int
      /\ Expected(s) = Counted(s) - spent[s]
  <2>1. Counted(s) \in Int
    <3> DEFINE f == [o \in Orders |-> Share(s, order[o])]
    <3>1. \A o \in Orders : f[o] \in Int
      BY Row, Amounts
    <3>2. Counted(s) = SumFunctionOnSet(f, Orders)
      BY DEF Counted
    <3> HIDE DEF f
    <3> QED BY <3>1, <3>2, SumIsInt, ShiftsAssumption
  <2> QED BY <2>1, ExpectedIsCounted, Typed DEF Taken, IInv
<1>3. /\ x \in ShiftRow /\ x.status = "ENDED" /\ x.user = shift[s].user
      /\ x.taken = Taken(s) /\ x.expected = Expected(s) /\ x.confirmed = shift[s].confirmed
  <2>1. Expected(s) \in Int
    BY <1>2
  <2> QED BY <1>2, <2>1 DEF ShiftRow
<1> HIDE DEF x
<1>4. shift[s].user \in Users /\ shift[s].confirmed = 0
  BY <1>1 DEF IInv, Rostered
<1>5. Rewrites(s, x)
  BY <1>1, <1>3, <1>4 DEF Rewrites, Rostered
<1>6. /\ \A t \in Shifts : shift'[t] = IF t = s THEN x ELSE shift[t]
      /\ shift' \in [Shifts -> ShiftRow]
      /\ (\A t \in Shifts : Rostered(shift[t]))' /\ Bills'
      /\ \A t \in Shifts : shift[t].status # "NEW" => Counted(t)' = Counted(t)
  BY <1>3, <1>5, RewriteStep
<1>7. TypeOK'
  BY <1>1, <1>6 DEF IInv, TypeOK, ShiftRow
<1>8. Seats'
  <2>1. \A v : Of(v)' \subseteq Of(v)
    BY <1>3, <1>6 DEF Of, Active
  <2> QED BY <1>1, <2>1 DEF IInv, Seats, OneSeat, Without
<1>9. CollectedIsCounted'
  <2> SUFFICES ASSUME Own, NEW t \in Closed', NEW o \in Orders,
                      order[o].is_paid, order[o].status # "CANCELED",
                      t \in order[o].at, order[o].by = shift'[t].user
               PROVE  o \in shift'[t].taken
    BY <1>1 DEF CollectedIsCounted, Own, Without
  <2>1. CASE t = s
    <3>1. order[o].by = order[o].cashier /\ order[o].cashier = shift[s].user
      BY <1>3, <1>4, <1>6, <2>1, Row, ShiftsAssumption DEF Billed
    <3>2. o \in Taken(s)
      BY <2>1, <3>1 DEF Taken
    <3> QED BY <1>3, <1>6, <2>1, <3>2
  <2>2. CASE t # s
    <3>1. t \in Closed /\ shift'[t] = shift[t]
      BY <1>6, <2>2 DEF Closed
    <3> QED BY <3>1 DEF IInv, CollectedIsCounted, Own
  <2> QED BY <2>1, <2>2
<1>10. TakenStay'
  <2> SUFFICES ASSUME FrontOnly, NEW t \in Shifts, NEW o \in shift'[t].taken
               PROVE  order[o].is_paid /\ t \in order[o].at /\ order[o].cashier = shift'[t].user
    BY <1>1 DEF TakenStay, FrontOnly, Without
  <2>1. CASE t = s
    BY <1>3, <1>6, <2>1 DEF Taken
  <2>2. CASE t # s
    BY <1>6, <2>2 DEF IInv, TakenStay
  <2> QED BY <2>1, <2>2
<1>11. Drawers' /\ ExpectedIsPhysical'
  <2> SUFFICES ASSUME Plain
               PROVE  /\ \A t \in Shifts :
                           /\ shift'[t].status = "NEW" => physical[t] = 0 /\ spent[t] = 0
                           /\ shift'[t].status = "ACTIVE" => Counted(t)' - spent[t] = physical[t]
                      /\ \A t \in Closed' : shift'[t].expected = physical[t]
    BY <1>1 DEF Drawers, ExpectedIsPhysical, Plain, Without, Active
  <2>1. Counted(s) - spent[s] = physical[s]
    BY <1>1, DrawersHold
  <2>2. /\ Closed' = Closed \cup {s} /\ \A t \in Closed : t \in Shifts /\ t # s
        /\ \A t \in Shifts : shift[t].status = "ACTIVE" => shift[t].status # "NEW"
    BY <1>1, <1>3, <1>6 DEF Closed
  <2> QED BY <1>2, <1>3, <1>6, <2>1, <2>2, DrawersHold
<1>12. MoneyIsSettled'
  <2>1. Confirmed' = Confirmed
    BY <1>3, <1>6 DEF Confirmed
  <2> QED BY <1>1, <2>1, MoneyStays DEF IInv
<1> QED BY <1>6, <1>7, <1>8, <1>9, <1>10, <1>11, <1>12 DEF IInv

LEMMA ReconcileStep ==
  ASSUME IInv, NEW s \in Shifts, NEW amount \in Counts, Reconcile(s, amount)
  PROVE  IInv'
<1> DEFINE x == [shift[s] EXCEPT !.status = "COMPLETED", !.confirmed = amount]
           m == Max({0, amount})
<1>1. /\ shift[s].status = "ENDED"
      /\ shift' = [shift EXCEPT ![s] = x]
      /\ desk' = [desk EXCEPT !.safe = @ + m]
      /\ UNCHANGED <<world, order, starting, paying, spent, physical>>
  BY DEF Reconcile, IInv, TypeOK
<1>2. /\ shift[s] \in ShiftRow /\ amount \in Int /\ m \in Nat /\ desk \in Desk
      /\ desk.safe \in Nat /\ desk.inkassa \in Int
  <2>1. amount \in Int
    BY ShiftsAssumption
  <2> QED BY <2>1, MaxOfZero, Typed DEF IInv
<1>3. /\ x \in ShiftRow /\ x.status = "COMPLETED" /\ x.user = shift[s].user
      /\ x.taken = shift[s].taken /\ x.expected = shift[s].expected /\ x.confirmed = amount
  BY <1>2 DEF ShiftRow
<1>4. /\ desk' \in Desk /\ desk'.safe = desk.safe + m
      /\ desk'.register = desk.register /\ desk'.inkassa = desk.inkassa /\ desk'.office = desk.office
  <2> HIDE DEF m
  <2> QED BY <1>1, <1>2 DEF Desk
<1> HIDE DEF x
<1>5. shift[s].user \in Users /\ shift[s].confirmed = 0
  BY <1>1 DEF IInv, Rostered
<1>6. Rewrites(s, x)
  BY <1>1, <1>3, <1>5 DEF Rewrites, Rostered
<1>7. /\ \A t \in Shifts : shift'[t] = IF t = s THEN x ELSE shift[t]
      /\ shift' \in [Shifts -> ShiftRow]
      /\ (\A t \in Shifts : Rostered(shift[t]))' /\ Bills'
      /\ \A t \in Shifts : shift[t].status # "NEW" => Counted(t)' = Counted(t)
  BY <1>3, <1>6, RewriteStep
<1>8. TypeOK'
  <2>1. UNCHANGED <<world, order, starting, paying, spent, physical>>
    BY <1>1
  <2> QED BY <1>4, <1>7, <2>1 DEF IInv, TypeOK, ShiftRow, Desk
<1>9. Active' = Active /\ Closed' = Closed /\ \A v : Of(v)' = Of(v)
  BY <1>1, <1>3, <1>7 DEF Active, Closed, Of
<1>10. Seats'
  BY <1>1, <1>9 DEF IInv, Seats, OneSeat, Without
<1>11. CollectedIsCounted' /\ TakenStay'
  <2>1. \A t \in Shifts : shift'[t].taken = shift[t].taken /\ shift'[t].user = shift[t].user
    BY <1>3, <1>7
  <2>2. Closed \subseteq Shifts
    BY DEF Closed
  <2>3. CollectedIsCounted'
    BY <1>1, <1>9, <2>1, <2>2 DEF IInv, CollectedIsCounted, Without
  <2>4. TakenStay'
    BY <1>1, <2>1 DEF IInv, TakenStay, FrontOnly, Without
  <2> QED BY <2>3, <2>4
<1>12. Drawers' /\ ExpectedIsPhysical'
  <2> SUFFICES ASSUME Plain
               PROVE  /\ \A t \in Shifts :
                           /\ shift'[t].status = "NEW" => physical[t] = 0 /\ spent[t] = 0
                           /\ shift'[t].status = "ACTIVE" => Counted(t)' - spent[t] = physical[t]
                      /\ \A t \in Closed' : shift'[t].expected = physical[t]
    BY <1>1 DEF Drawers, ExpectedIsPhysical, Plain, Without, Active
  <2>1. /\ \A t \in Closed : t \in Shifts
        /\ \A t \in Shifts : shift'[t].expected = shift[t].expected
        /\ \A t \in Shifts : t # s => shift'[t].status = shift[t].status
        /\ \A t \in Shifts : shift[t].status = "ACTIVE" => shift[t].status # "NEW"
    BY <1>3, <1>7 DEF Closed
  <2> QED BY <1>3, <1>7, <1>9, <2>1, DrawersHold
<1>13. MoneyIsSettled'
  <2>1. /\ \A t \in Shifts : Confirmed[t] \in Int /\ Confirmed'[t] \in Int
        /\ \A t \in Shifts \ {s} : Confirmed[t] = Confirmed'[t]
        /\ Confirmed[s] = 0 /\ Confirmed'[s] = m
    <3>1. \A t \in Shifts : shift[t].confirmed \in Int /\ shift'[t].confirmed \in Int
      BY <1>7, Typed DEF IInv, ShiftRow
    <3>2. \A t \in Shifts : Max({0, shift[t].confirmed}) \in Int /\ Max({0, shift'[t].confirmed}) \in Int
      <4>1. \A z \in Int : Max({0, z}) \in Int
        BY MaxOfZero
      <4> QED BY <3>1, <4>1
    <3>3. Max({0, 0}) = 0
      BY MaxOfZero
    <3> QED BY <1>3, <1>5, <1>7, <3>2, <3>3 DEF Confirmed
  <2> HIDE DEF m
  <2>2. SumFunctionOnSet(Confirmed', Shifts) = SumFunctionOnSet(Confirmed, Shifts) - 0 + m
    BY <2>1, SumChanges, ShiftsAssumption
  <2>3. SumFunctionOnSet(Confirmed, Shifts) \in Int
    BY <2>1, SumIsInt, ShiftsAssumption
  <2>4. SafeIsSettled'
    <3>1. desk.safe = desk.inkassa + SumFunctionOnSet(Confirmed, Shifts)
      BY MoneySums DEF IInv, MoneyIsSettled
    <3>2. desk'.safe = desk'.inkassa + SumFunctionOnSet(Confirmed', Shifts)
      BY <1>2, <1>4, <2>2, <2>3, <3>1
    <3> QED BY <3>2, MoneySums
  <2>5. RegisterReconciles'
    <3>1. Worths' = Worths /\ (FrontOnly' <=> FrontOnly)
      BY <1>1 DEF Worths, Worth, FrontOnly, Without
    <3> QED BY <1>4, <3>1, MoneySums DEF IInv, MoneyIsSettled
  <2> QED BY <2>4, <2>5 DEF MoneyIsSettled
<1> QED BY <1>7, <1>8, <1>10, <1>11, <1>12, <1>13 DEF IInv

LEMMA ExpenseStep ==
  ASSUME IInv, NEW s \in Shifts, CashboxExpense(s)
  PROVE  IInv'
<1>1. /\ shift[s].status = "ACTIVE"
      /\ spent' = [spent EXCEPT ![s] = @ + 1]
      /\ physical' = [physical EXCEPT ![s] = @ - 1]
      /\ UNCHANGED <<world, shift, order, starting, paying, desk>>
  BY DEF CashboxExpense, Active
<1>2. /\ spent[s] \in Int /\ physical[s] \in Int
      /\ spent'[s] = spent[s] + 1 /\ physical'[s] = physical[s] - 1
      /\ \A t \in Shifts : t # s => spent'[t] = spent[t] /\ physical'[t] = physical[t]
      /\ spent' \in [Shifts -> Nat] /\ physical' \in [Shifts -> Int]
  <2>1. spent \in [Shifts -> Nat] /\ physical \in [Shifts -> Int]
    BY Typed DEF IInv
  <2>2. /\ spent' = [spent EXCEPT ![s] = @ + 1]
        /\ physical' = [physical EXCEPT ![s] = @ - 1]
    BY <1>1
  <2> QED BY <2>1, <2>2
<1>3. TypeOK'
  BY <1>1, <1>2 DEF IInv, TypeOK
<1>4. (\A t \in Shifts : Rostered(shift[t]))' /\ Bills'
  BY <1>1 DEF IInv, Rostered, Bills, Billed, Stamped,
              OneSeat, FrontOnly, Own, Exact, Remote, Without
<1>5. Seats' /\ CollectedIsCounted' /\ TakenStay'
  <2>1. Seats'
    BY <1>1 DEF IInv, Seats, Active, Of, OneSeat, Without
  <2>2. CollectedIsCounted' /\ TakenStay'
    BY <1>1 DEF IInv, CollectedIsCounted, TakenStay, Closed, FrontOnly, Without
  <2> QED BY <2>1, <2>2
<1>6. Drawers' /\ ExpectedIsPhysical'
  <2> SUFFICES ASSUME Plain
               PROVE  /\ \A t \in Shifts :
                           /\ shift[t].status = "NEW" => physical'[t] = 0 /\ spent'[t] = 0
                           /\ shift[t].status = "ACTIVE" => Counted(t)' - spent'[t] = physical'[t]
                      /\ \A t \in Closed : shift[t].expected = physical'[t]
    BY <1>1 DEF Drawers, ExpectedIsPhysical, Plain, Without, Active, Closed
  <2>1. \A t \in Shifts : Counted(t)' = Counted(t)
    BY <1>1 DEF Counted, Share
  <2>2. \A t \in Shifts : Counted(t) \in Int
    <3> SUFFICES ASSUME NEW t \in Shifts PROVE Counted(t) \in Int
      OBVIOUS
    <3> DEFINE f == [o \in Orders |-> Share(t, order[o])]
    <3>1. \A o \in Orders : f[o] \in Int
      BY Row, Amounts
    <3>2. Counted(t) = SumFunctionOnSet(f, Orders)
      BY DEF Counted
    <3> HIDE DEF f
    <3> QED BY <3>1, <3>2, SumIsInt, ShiftsAssumption
  <2>3. \A t \in Closed : t \in Shifts /\ t # s
    BY <1>1 DEF Closed
  <2>4. \A t \in Shifts : shift[t].status = "NEW" => t # s
    BY <1>1
  <2>5. ASSUME NEW t \in Shifts, shift[t].status = "ACTIVE"
        PROVE  Counted(t)' - spent'[t] = physical'[t]
    <3>1. Counted(t) - spent[t] = physical[t] /\ Counted(t) \in Int /\ Counted(t)' = Counted(t)
      BY <2>1, <2>2, <2>5, DrawersHold
    <3>2. CASE t = s
      BY <1>2, <3>1, <3>2
    <3>3. CASE t # s
      BY <1>2, <3>1, <3>3
    <3> QED BY <3>2, <3>3
  <2> QED BY <1>2, <2>3, <2>4, <2>5, DrawersHold
<1>7. MoneyIsSettled'
  <2>1. Confirmed' = Confirmed
    BY <1>1 DEF Confirmed
  <2> QED BY <1>1, <2>1, MoneyStays DEF IInv
<1> QED BY <1>3, <1>4, <1>5, <1>6, <1>7 DEF IInv

-----------------------------------------------------------------------------
(* The handlers of the desk.                                               *)

\* Whatever moves between register, safe and office keeps the books.
LEMMA DeskStep ==
  ASSUME IInv, desk' \in Desk,
         desk'.safe - desk'.inkassa = desk.safe - desk.inkassa,
         desk'.register - desk'.office + desk'.inkassa = desk.register - desk.office + desk.inkassa,
         UNCHANGED <<world, shift, order, starting, paying, spent, physical>>
  PROVE  IInv'
<1>1. TypeOK'
  BY DEF IInv, TypeOK, Desk
<1>2. (\A t \in Shifts : Rostered(shift[t]))' /\ Bills'
  BY DEF IInv, Rostered, Bills, Billed, Stamped,
         OneSeat, FrontOnly, Own, Exact, Remote, Without
<1>3. Seats' /\ CollectedIsCounted' /\ TakenStay'
  <2>1. Seats'
    BY DEF IInv, Seats, Active, Of, OneSeat, Without
  <2>2. CollectedIsCounted' /\ TakenStay'
    BY DEF IInv, CollectedIsCounted, TakenStay, Closed, FrontOnly, Without
  <2> QED BY <2>1, <2>2
<1>4. Drawers' /\ ExpectedIsPhysical'
  BY DEF IInv, Drawers, ExpectedIsPhysical, Counted, Share, Active, Closed, Plain, Without
<1>5. MoneyIsSettled'
  <2>1. Confirmed' = Confirmed /\ Worths' = Worths /\ (FrontOnly' <=> FrontOnly)
    BY DEF Confirmed, Worths, Worth, FrontOnly, Without
  <2>2. /\ desk.safe \in Int /\ desk.inkassa \in Int /\ desk.register \in Int /\ desk.office \in Int
        /\ desk'.safe \in Int /\ desk'.inkassa \in Int /\ desk'.register \in Int /\ desk'.office \in Int
    BY Typed DEF IInv, Desk
  <2>3. SumFunctionOnSet(Confirmed, Shifts) \in Int /\ SumFunctionOnSet(Worths, Orders) \in Int
    <3>1. \A t \in Shifts : Confirmed[t] \in Int
      <4>1. \A t \in Shifts : shift[t].confirmed \in Int
        BY DEF IInv, TypeOK
      <4>2. \A z \in Int : Max({0, z}) \in Int
        BY MaxOfZero
      <4> QED BY <4>1, <4>2 DEF Confirmed
    <3>2. \A o \in Orders : Worths[o] \in Int
      BY Row, Amounts DEF Worths
    <3> QED BY <3>1, <3>2, SumIsInt, ShiftsAssumption
  <2>4. SafeIsSettled'
    <3>1. desk.safe = desk.inkassa + SumFunctionOnSet(Confirmed, Shifts)
      BY MoneySums DEF IInv, MoneyIsSettled
    <3>2. desk'.safe = desk'.inkassa + SumFunctionOnSet(Confirmed, Shifts)
      BY <2>2, <2>3, <3>1
    <3> QED BY <2>1, <3>2, MoneySums
  <2>5. RegisterReconciles'
    <3> SUFFICES ASSUME FrontOnly
                 PROVE  desk'.register = desk'.office - desk'.inkassa + SumFunctionOnSet(Worths, Orders)
      BY <2>1, MoneySums
    <3>1. desk.register = desk.office - desk.inkassa + SumFunctionOnSet(Worths, Orders)
      BY MoneySums DEF IInv, MoneyIsSettled
    <3> QED BY <2>2, <2>3, <3>1
  <2> QED BY <2>4, <2>5 DEF MoneyIsSettled
<1> QED BY <1>1, <1>2, <1>3, <1>4, <1>5 DEF IInv

LEMMA InkassaStep ==
  ASSUME IInv, NEW a \in 1..MaxMoved, Inkassa(a)
  PROVE  IInv'
<1> DEFINE r == desk.register - a
           f == desk.safe + a
           i == desk.inkassa + a
<1>1. /\ desk' = [desk EXCEPT !.register = r, !.safe = f, !.inkassa = i]
      /\ UNCHANGED <<world, shift, order, starting, paying, spent, physical>>
  BY DEF Inkassa
<1>2. desk \in Desk /\ a \in Nat
  BY Typed, ShiftsAssumption DEF IInv
<1>3. /\ desk' \in Desk /\ desk'.register = desk.register - a /\ desk'.safe = desk.safe + a
      /\ desk'.inkassa = desk.inkassa + a /\ desk'.office = desk.office
  <2>1. r \in Int /\ f \in Nat /\ i \in Nat
    BY <1>2 DEF Desk
  <2> HIDE DEF r, f, i
  <2>2. desk' \in Desk /\ desk'.register = r /\ desk'.safe = f /\ desk'.inkassa = i
        /\ desk'.office = desk.office
    BY <1>1, <1>2, <2>1 DEF Desk
  <2> QED BY <2>2 DEF r, f, i
<1>4. /\ desk.safe \in Int /\ desk.inkassa \in Int /\ desk.register \in Int /\ desk.office \in Int
  BY <1>2 DEF Desk
<1>5. /\ desk'.safe - desk'.inkassa = desk.safe - desk.inkassa
      /\ desk'.register - desk'.office + desk'.inkassa = desk.register - desk.office + desk.inkassa
  BY <1>2, <1>3, <1>4
<1> QED BY <1>1, <1>3, <1>5, DeskStep

LEMMA TransactionStep ==
  ASSUME IInv, NEW a \in {-1, 1}, NEW covered \in BOOLEAN, CashTransaction(a, covered)
  PROVE  IInv'
<1> DEFINE r == desk.register + a
           f == desk.office + a
<1>1. /\ desk' = [desk EXCEPT !.register = r, !.office = f]
      /\ UNCHANGED <<world, shift, order, starting, paying, spent, physical>>
  BY DEF CashTransaction
<1>2. desk \in Desk /\ a \in Int
  BY Typed DEF IInv
<1>3. /\ desk' \in Desk /\ desk'.register = desk.register + a /\ desk'.safe = desk.safe
      /\ desk'.inkassa = desk.inkassa /\ desk'.office = desk.office + a
  <2>1. r \in Int /\ f \in Int
    BY <1>2 DEF Desk
  <2> HIDE DEF r, f
  <2>2. desk' \in Desk /\ desk'.register = r /\ desk'.office = f
        /\ desk'.safe = desk.safe /\ desk'.inkassa = desk.inkassa
    BY <1>1, <1>2, <2>1 DEF Desk
  <2> QED BY <2>2 DEF r, f
<1>4. /\ desk.safe \in Int /\ desk.inkassa \in Int /\ desk.register \in Int /\ desk.office \in Int
  BY <1>2 DEF Desk
<1>5. /\ desk'.safe - desk'.inkassa = desk.safe - desk.inkassa
      /\ desk'.register - desk'.office + desk'.inkassa = desk.register - desk.office + desk.inkassa
  BY <1>2, <1>3, <1>4
<1> QED BY <1>1, <1>3, <1>5, DeskStep

-----------------------------------------------------------------------------
(* The invariant, and what follows from it.                                *)

LEMMA Holds == Spec => []IInv
<1>1. Init => IInv
  <2> SUFFICES ASSUME Init PROVE IInv
    OBVIOUS
  <2>1. TypeOK
    BY DEF Init, TypeOK, NewShift, NewOrder, NotPaying
  <2>2. Active = {} /\ Closed = {} /\ \A u : Of(u) = {}
    BY DEF Init, Active, Closed, Of, NewShift
  <2>3. \A s \in Shifts : Rostered(shift[s])
    BY DEF Init, Rostered, NewShift
  <2>4. Bills
    BY DEF Init, Bills, Billed, Stamped, NewOrder, NotPaying
  <2>5. Seats /\ CollectedIsCounted /\ TakenStay /\ ExpectedIsPhysical
    BY <2>2 DEF Init, Seats, CollectedIsCounted, TakenStay, ExpectedIsPhysical, NewShift
  <2>6. Drawers
    BY <2>2 DEF Init, Drawers
  <2>7. MoneyIsSettled
    <3>1. \A s \in Shifts : Confirmed[s] = 0
      <4>1. Max({0, 0}) = 0
        BY MaxOfZero
      <4> QED BY <4>1 DEF Init, NewShift, Confirmed
    <3>2. \A o \in Orders : Worths[o] = 0
      BY DEF Init, NewOrder, Worths, Worth
    <3>3. SumFunctionOnSet(Confirmed, Shifts) = 0 /\ SumFunctionOnSet(Worths, Orders) = 0
      BY <3>1, <3>2, SumOfZeros, ShiftsAssumption
    <3>4. desk.register = 0 /\ desk.safe = 0 /\ desk.inkassa = 0 /\ desk.office = 0
      BY DEF Init
    <3> QED BY <3>3, <3>4, MoneySums DEF MoneyIsSettled
  <2> QED BY <2>1, <2>3, <2>4, <2>5, <2>6, <2>7 DEF IInv
<1>2. IInv /\ [Next]_vars => IInv'
  <2> SUFFICES ASSUME IInv, [Next]_vars PROVE IInv'
    OBVIOUS
  <2>1. CASE ShiftWork
    BY <2>1, StartStep, CreateShiftStep, ExpenseStep, EndStep, ReconcileStep DEF ShiftWork
  <2>2. CASE OrderWork
    BY <2>2, CreateStep, StatusStep, MarkStep, StampStep, CommitStep, CancelStep,
       AdminPayStep, AdminUnpayStep, AdminCancelStep DEF OrderWork
  <2>3. CASE DeskWork
    BY <2>3, InkassaStep, TransactionStep DEF DeskWork
  <2>4. CASE UNCHANGED vars
    BY <2>4, Typed, DeskStep DEF vars, IInv
  <2> QED BY <2>1, <2>2, <2>3, <2>4 DEF Next
<1> QED BY <1>1, <1>2, PTL DEF Spec

\* Every row of shifts, orders and payments stays what its table can hold.
THEOREM ShiftsTypeCorrect == Spec => []TypeOK
<1>1. IInv => TypeOK
  BY DEF IInv
<1> QED BY <1>1, Holds, PTL

\* A cashier has one open shift, closing it takes the orders the cashier was paid in it, and
\* no order is taken twice: start_shift's check, end_shift's attribution by paid_at.
THEOREM PaymentsCountedOnce == Spec => []CountedInOneShift
<1>1. IInv => CountedInOneShift
  <2> SUFFICES ASSUME IInv PROVE CountedInOneShift
    OBVIOUS
  <2>1. OneActiveShift /\ CollectedIsCounted
    BY DEF IInv, OneActiveShift, Seats, OneSeat
  <2>2. CountedOnce
    <3> SUFFICES ASSUME Without({"two terminals", "back office"}), NEW s \in Shifts, NEW t \in Shifts,
                        s # t, NEW o \in shift[s].taken \cap shift[t].taken
                 PROVE  FALSE
      BY DEF CountedOnce
    <3>1. FrontOnly /\ OneSeat
      BY DEF FrontOnly, OneSeat, Without
    <3>2. o \in Orders
      BY DEF IInv, TypeOK
    <3>3. s \in order[o].at /\ t \in order[o].at /\ shift[s].user = shift[t].user
      BY <3>1 DEF IInv, TakenStay
    <3> QED BY <3>1, <3>2, <3>3 DEF IInv, Bills, Stamped
  <2> QED BY <2>1, <2>2 DEF CountedInOneShift
<1> QED BY <1>1, Holds, PTL

\* What end_shift expects in the drawer is the cash that went through it, where every payment
\* is taken by the cashier who has the order, exactly, in one step, and nothing is returned late.
THEOREM DrawersAreTrue == Spec => []ExpectedIsPhysical
<1>1. IInv => ExpectedIsPhysical
  BY DEF IInv
<1> QED BY <1>1, Holds, PTL

\* The safe holds what reconciliations confirmed and inkassa brought; the register, what paid
\* orders left in it (the back office aside).
THEOREM MoneyStaysSettled == Spec => []MoneyIsSettled
<1>1. IInv => MoneyIsSettled
  BY DEF IInv
<1> QED BY <1>1, Holds, PTL
=============================================================================

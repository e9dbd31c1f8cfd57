------------------------------ MODULE Discounts ------------------------------
(***************************************************************************)
(* Discounts: DiscountService, DiscountTypeService and the recalculation   *)
(* of a bill whose lines change. A request to apply a code validates it    *)
(* without a lock, then locks bill and discount and checks some of it      *)
(* again. The form that edits a discount saves the row it read.            *)
(***************************************************************************)
EXTENDS Integers, FiniteSets, FiniteSetsExt, Functions

CONSTANTS
  Codes,      \* discounts, by code
  Kinds,      \* discount types
  TypesOfDiscount,  \* what a discount type may be
  Bills, Guests, Dishes,
  Price,      \* of each dish
  Baskets,    \* the lines a bill may have: quantities of products
  Printed,    \* the discounts there are at first: the terms of each, all of one type
  FirstKind,
  Offers,     \* the terms each discount may be given
  LastDay,    \* bound: days that pass
  MaxAsks,    \* bound: codes asked for
  MaxChanges  \* bound: changes of discounts, of their types and of the lines of bills, and days

\* What a row of Discount may say; update checks no sign of an amount.
TermRow ==
  [value : Int, cap : Int, least : Int, buy : Nat, get : Nat, free : SUBSET Dishes,
   targets : SUBSET Dishes, limit : Nat, each : Nat, stackable : BOOLEAN, days : SUBSET Nat]

ASSUME DiscountAssumption ==
  /\ IsFiniteSet(Codes) /\ IsFiniteSet(Bills) /\ IsFiniteSet(Dishes)
  /\ FirstKind \in Kinds /\ \A c \in DOMAIN Printed : Printed[c] \in TermRow
  /\ \A c \in Codes : Offers[c] \subseteq TermRow
  /\ Price \in [Dishes -> Nat] /\ Baskets \subseteq [Dishes -> Nat]
  /\ LastDay \in Nat /\ MaxAsks \in Nat /\ MaxChanges \in Nat

VARIABLES
  kind,       \* the discount types
  discount,   \* the discounts
  bill,       \* what a bill has to do with discounts
  given,      \* OrderDiscount: the amount a bill is given for a code, or NotGiven
  uses,       \* DiscountUsage rows: who used which code on which bill
  asked,      \* the code a guest asked for and the bill, once validated
  form,       \* the discount row an edit form was filled from
  outdated,   \* codes saved from a form whose usage count was no longer right
  today,
  asks,       \* how many codes were asked for
  changes     \* how much was changed

discountVars == <<kind, discount, bill, given, uses, asked, form, outdated, today, asks, changes>>

Change == changes < MaxChanges /\ changes' = changes + 1

Nobody == <<>>
NotGiven == -1
Basket0 == [p \in Dishes |-> 0]
NoBill == [lines |-> Basket0, off |-> 0, due |-> 0, paid |-> FALSE, status |-> "none"]

NewKind(method) == [is |-> "live", method |-> method]
Usage(g, c, b) == <<g, c, b>>
NewDiscount(k, terms) == [is |-> "live", active |-> TRUE, kind |-> k, terms |-> terms, used |-> 0]

DiscountsInit ==
  /\ kind = [k \in Kinds |-> IF k = FirstKind THEN NewKind("PERCENTAGE")
                             ELSE [is |-> "none"]]
  /\ discount = [c \in Codes |-> IF c \in DOMAIN Printed THEN NewDiscount(FirstKind, Printed[c])
                                 ELSE [is |-> "none"]]
  /\ bill = [b \in Bills |-> NoBill]
  /\ given = [b \in Bills |-> [c \in Codes |-> NotGiven]]
  /\ uses = {} /\ outdated = {}
  /\ asked = [g \in Guests |-> Nobody]
  /\ form = Nobody
  /\ today = 1 /\ asks = 0 /\ changes = 0

-----------------------------------------------------------------------------
(* What a discount is worth: calculate_discount                            *)

Smaller(x, y) == IF x < y THEN x ELSE y
Larger(x, y) == IF x > y THEN x ELSE y
Worth(lines) == SumFunction([p \in Dishes |-> Price[p] * lines[p]])
Pieces(lines) == SumFunction(lines)
Aimed(terms, lines) == [p \in Dishes |-> IF p \in terms.targets THEN lines[p] ELSE 0]
Capped(terms, x) == IF terms.cap = 0 THEN x ELSE Smaller(x, terms.cap)
Percent(terms, lines) == Capped(terms, (Worth(lines) * terms.value) \div 100)

\* The n cheapest pieces of the lines.
CheapestOf(lines, n) ==
  Min({Worth(f) : f \in {f \in [Dishes -> 0 .. n] :
                            /\ \A p \in Dishes : f[p] <= lines[p]
                            /\ Pieces(f) = n}})
FreePieces(terms, lines) ==
  IF terms.buy > 0 /\ Pieces(lines) >= terms.buy
    THEN (Pieces(lines) \div (terms.buy + terms.get)) * terms.get ELSE 0

RuleGives(method, terms, lines) ==
  LET aimed == Aimed(terms, lines)
  IN CASE method \in {"PERCENTAGE", "CUSTOM"} -> Percent(terms, aimed)
       [] method = "FIXED_AMOUNT" -> Smaller(terms.value, Worth(aimed))
       [] method = "BUY_X_GET_Y" -> CheapestOf(aimed, FreePieces(terms, aimed))
       [] method = "FREE_ITEM" ->
            SumFunction([p \in terms.free |-> IF lines[p] > 0 THEN Price[p] ELSE 0])
       [] method = "SECRET_WORD" ->
            IF terms.value \in 1 .. 100 THEN Percent(terms, aimed)
            ELSE Smaller(terms.value, Worth(aimed))
       [] OTHER -> 0

\* Never more than the lines it aims at, nor than what is left of the bill, and never less
\* than nothing.
AmountOff(c, lines, already) ==
  Smaller(Larger(0, Smaller(RuleGives(kind[discount[c].kind].method, discount[c].terms, lines),
                            Worth(Aimed(discount[c].terms, lines)))),
          Larger(0, Worth(lines) - already))

-----------------------------------------------------------------------------
(* The rows of the back office                                             *)

Live(c) == discount[c].is = "live"

CreateKind(k, method) ==
  /\ kind[k].is = "none"
  /\ kind' = [kind EXCEPT ![k] = NewKind(method)]
  /\ Change
  /\ UNCHANGED <<discount, bill, given, uses, asked, form, outdated, today, asks>>

UpdateKind(k, method) ==
  /\ kind[k].is = "live" /\ kind[k].method # method
  /\ kind' = [kind EXCEPT ![k].method = method]
  /\ Change
  /\ UNCHANGED <<discount, bill, given, uses, asked, form, outdated, today, asks>>

DeleteKind(k) ==
  /\ kind[k].is = "live"
  /\ \A c \in Codes : Live(c) => discount[c].kind # k
  /\ kind' = [kind EXCEPT ![k].is = "deleted"]
  /\ UNCHANGED <<discount, bill, given, uses, asked, form, outdated, today, asks, changes>>

CreateDiscount(c, k, terms) ==
  /\ discount[c].is = "none" /\ kind[k].is = "live"
  /\ discount' = [discount EXCEPT ![c] = NewDiscount(k, terms)]
  /\ Change
  /\ UNCHANGED <<kind, bill, given, uses, asked, form, outdated, today, asks>>

\* update: the row is read, the fields of the request are set, all of it is saved.
FillForm(c) ==
  /\ form = Nobody /\ Live(c)
  /\ form' = <<c, discount[c]>>
  /\ UNCHANGED <<kind, discount, bill, given, uses, asked, outdated, today, asks, changes>>
SaveForm(terms, active) ==
  /\ discount' = [discount EXCEPT ![form[1]] =
       [form[2] EXCEPT !.terms = terms, !.active = active]]
  /\ outdated' = IF discount[form[1]].used # form[2].used THEN outdated \cup {form[1]} ELSE outdated
  /\ form' = Nobody
  /\ Change
  /\ UNCHANGED <<kind, bill, given, uses, asked, today, asks>>

Toggle(c) ==
  /\ Live(c)
  /\ discount' = [discount EXCEPT ![c].active = ~@]
  /\ Change
  /\ UNCHANGED <<kind, bill, given, uses, asked, form, outdated, today, asks>>

DeleteDiscount(c) ==
  /\ Live(c)
  /\ discount' = [discount EXCEPT ![c].is = "deleted"]
  /\ Change
  /\ UNCHANGED <<kind, bill, given, uses, asked, form, outdated, today, asks>>

-----------------------------------------------------------------------------
(* Discounts of a bill                                                     *)

On(b) == {c \in Codes : given[b][c] # NotGiven}
Off(amounts) == SumFunction([c \in Codes |-> Larger(0, amounts[c])])
Used(c) == discount[c].terms.limit > 0 /\ discount[c].used >= discount[c].terms.limit
UsedBy(g, c) ==
  /\ discount[c].terms.each > 0
  /\ Cardinality({u \in uses : u[1] = g /\ u[2] = c}) >= discount[c].terms.each

\* validate_code, and validate_secret_word, which finds the code by its word: no lock. The bill
\* is not looked at: a code with a least amount is refused, since the amount passed is 0.
Validate(g, b, c) ==
  /\ asked[g] = Nobody /\ asks < MaxAsks
  /\ Live(c) /\ discount[c].active
  /\ today \in discount[c].terms.days
  /\ ~Used(c) /\ ~UsedBy(g, c) /\ discount[c].terms.least = 0
  /\ asked' = [asked EXCEPT ![g] = <<b, c>>]
  /\ asks' = asks + 1
  /\ UNCHANGED <<kind, discount, bill, given, uses, form, outdated, today, changes>>

\* (mutant) the limits are those that validate_code saw
MayApplyUnchecked(g, b, c) ==
  /\ bill[b].status = "open" /\ ~bill[b].paid
  /\ Live(c) /\ c \notin On(b)
  /\ AmountOff(c, bill[b].lines, Off(given[b])) > 0
\* The conditions that apply_to_order checks under the locks of bill and discount.
MayApply(g, b, c) ==
  /\ bill[b].status = "open" /\ ~bill[b].paid
  /\ Live(c) /\ ~Used(c) /\ ~UsedBy(g, c)
  /\ Worth(bill[b].lines) >= discount[c].terms.least
  /\ c \notin On(b)
  /\ discount[c].terms.stackable \/ On(b) = {}
  /\ \A d \in On(b) : discount[d].terms.stackable
  /\ AmountOff(c, bill[b].lines, Off(given[b])) > 0

\* (mutant) removing a discount leaves the total as it was
SettleStale(b, amounts) == [bill[b] EXCEPT !.off = Off(amounts)]
\* The bill's discount is what its rows sum to, its total what is left.
Settle(b, amounts) ==
  [bill[b] EXCEPT !.off = Off(amounts), !.due = Larger(0, Worth(bill[b].lines) - Off(amounts))]

Counted(c, n) == [discount EXCEPT ![c].used = Larger(0, @ + n)]

ApplyToOrder(g) ==
  /\ asked[g] # Nobody
  /\ LET b == asked[g][1]  c == asked[g][2]
         amounts == [given[b] EXCEPT ![c] = AmountOff(c, bill[b].lines, Off(given[b]))]
     IN /\ MayApply(g, b, c)
        /\ given' = [given EXCEPT ![b] = amounts]
        /\ uses' = uses \cup {Usage(g, c, b)}
        /\ discount' = Counted(c, 1)
        /\ bill' = [bill EXCEPT ![b] = Settle(b, amounts)]
  /\ asked' = [asked EXCEPT ![g] = Nobody]
  /\ UNCHANGED <<kind, form, outdated, today, asks, changes>>

RefuseToApply(g) ==
  /\ asked[g] # Nobody
  /\ ~MayApply(g, asked[g][1], asked[g][2])
  /\ asked' = [asked EXCEPT ![g] = Nobody]
  /\ UNCHANGED <<kind, discount, bill, given, uses, form, outdated, today, asks, changes>>

RemoveFromOrder(b, c) ==
  /\ ~bill[b].paid /\ c \in On(b)
  /\ LET amounts == [given[b] EXCEPT ![c] = NotGiven]
     IN /\ given' = [given EXCEPT ![b] = amounts]
        /\ bill' = [bill EXCEPT ![b] = Settle(b, amounts)]
  /\ uses' = {u \in uses : ~(u[2] = c /\ u[3] = b)}
  /\ discount' = Counted(c, -1)
  /\ UNCHANGED <<kind, asked, form, outdated, today, asks, changes>>

-----------------------------------------------------------------------------
(* The bill                                                                *)

OpenBill(b, lines) ==
  /\ bill[b].status = "none"
  /\ bill' = [bill EXCEPT ![b] =
       [NoBill EXCEPT !.status = "open", !.lines = lines, !.due = Worth(lines)]]
  /\ UNCHANGED <<kind, discount, given, uses, asked, form, outdated, today, asks, changes>>

\* _recalculate_total: every discount of the bill is worked out again for its lines of now.
Reworked(b, lines) ==
  [c \in Codes |-> IF c \in On(b) THEN AmountOff(c, lines, 0) ELSE NotGiven]
ChangeLines(b, lines) ==
  /\ bill[b].status = "open" /\ ~bill[b].paid
  /\ lines # bill[b].lines
  /\ LET off == Smaller(Off(Reworked(b, lines)), Worth(lines))
     IN bill' = [bill EXCEPT ![b] = [@ EXCEPT
          !.lines = lines, !.off = off,
          !.due = Larger(0, Worth(lines) - off)]]
  /\ given' = [given EXCEPT ![b] = Reworked(b, lines)]
  /\ Change
  /\ UNCHANGED <<kind, discount, uses, asked, form, outdated, today, asks>>

\* Paid, or cancelled; a cancelled bill keeps its discounts and they stay used.
EndBill(b, paid) ==
  /\ bill[b].status = "open" /\ ~bill[b].paid
  /\ bill' = [bill EXCEPT ![b] =
       IF paid THEN [@ EXCEPT !.paid = TRUE] ELSE [@ EXCEPT !.status = "canceled"]]
  /\ UNCHANGED <<kind, discount, given, uses, asked, form, outdated, today, asks, changes>>

NextDay ==
  /\ today < LastDay
  /\ today' = today + 1
  /\ Change
  /\ UNCHANGED <<kind, discount, bill, given, uses, asked, form, outdated, asks>>

DiscountsNext ==
  \/ \E k \in Kinds, m \in TypesOfDiscount : CreateKind(k, m) \/ UpdateKind(k, m)
  \/ \E k \in Kinds : DeleteKind(k)
  \/ \E c \in Codes, k \in Kinds : \E terms \in Offers[c] : CreateDiscount(c, k, terms)
  \/ \E c \in Codes : FillForm(c) \/ Toggle(c) \/ DeleteDiscount(c)
  \/ \E active \in BOOLEAN : form # Nobody /\ \E terms \in Offers[form[1]] : SaveForm(terms, active)
  \/ \E g \in Guests, b \in Bills, c \in Codes : Validate(g, b, c)
  \/ \E g \in Guests : ApplyToOrder(g) \/ RefuseToApply(g)
  \/ \E b \in Bills, c \in Codes : RemoveFromOrder(b, c)
  \/ \E b \in Bills, lines \in Baskets : OpenBill(b, lines) \/ ChangeLines(b, lines)
  \/ \E b \in Bills, paid \in BOOLEAN : EndBill(b, paid)
  \/ NextDay

-----------------------------------------------------------------------------
(* Properties                                                              *)

\* A discount has been used as often as it stands on bills, each time by one guest, and never
\* more often than its limit of then: its counter (discount_service.py:505 and :571) is a
\* number beside the rows, moved by apply and remove, that no edit form overwrote.
CodesAreCounted ==
  \A c \in Codes : (discount[c].is # "none" /\ c \notin outdated) =>
    /\ discount[c].used = Cardinality({b \in Bills : c \in On(b)})
    /\ discount[c].used = Cardinality({u \in uses : u[2] = c})

\* What a bill asks for is the worth of its lines less the discounts on it, whatever was
\* applied, removed or changed in which order, and each of them still fits those lines.
BillsAddUp ==
  \A b \in Bills :
    /\ bill[b].due = Larger(0, Worth(bill[b].lines) - Off(given[b]))
    /\ \A c \in On(b) : given[b][c] <= Worth(bill[b].lines)

\* Both: the counters beside the codes and the totals beside the bills.
DiscountsAddUp == CodesAreCounted /\ BillsAddUp

\* A code that comes onto a bill is within its limits, and stands beside what may be stacked.
LimitsAreKept ==
  \A c \in Codes, b \in Bills : (given[b][c] = NotGiven /\ given'[b][c] # NotGiven) =>
    LET terms == discount[c].terms
    IN /\ terms.limit = 0 \/ discount'[c].used <= terms.limit
       /\ terms.each = 0 \/ \A g \in Guests :
            Cardinality({u \in uses' : u[1] = g /\ u[2] = c}) <= Larger(terms.each,
            Cardinality({u \in uses : u[1] = g /\ u[2] = c}))
       /\ On(b) # {} => \A d \in On(b) \cup {c} : discount[d].terms.stackable

\* Applying a code never takes it past its limit, all guests together or one of them, and
\* never puts it beside one that must stand alone (discount_service.py:435-468).
LimitsHold == [][LimitsAreKept]_discountVars
=============================================================================

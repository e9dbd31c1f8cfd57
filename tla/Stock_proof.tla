---------------------------- MODULE Stock_proof ----------------------------
(***************************************************************************)
(* Proofs about Stock: the levels, what is reserved of them and the batches *)
(* agree with every document that moved goods, whatever the goods, places,  *)
(* documents and scenes.                                                   *)
(***************************************************************************)
EXTENDS Stock, Sums

-----------------------------------------------------------------------------
(* What the constants are.                                                 *)

LEMMA GivenGoods ==
  /\ IsFiniteSet(Goods) /\ IsFiniteSet(Places) /\ IsFiniteSet(Orders) /\ IsFiniteSet(Products)
  /\ IsFiniteSet(Makes) /\ IsFiniteSet(Moves)
  /\ Opening \in [Goods \X Places -> Nat] /\ Tracked \subseteq Goods
BY StockAssumption, BatchAssumption, OrderStockAssumption, MakeAssumption, MoveAssumption
LEMMA GivenBatches ==
  /\ NumBatches \in Nat
  /\ \E n \in 0 .. NumBatches : FirstBatches \in [1 .. n -> Batch]
  /\ \A g \in Tracked, p \in Places : Batched(FirstBatches, g, p) = Opening[<<g, p>>]
BY BatchAssumption, OpeningAssumption
LEMMA GivenOrders ==
  /\ Uses \in [Products -> Quantities] /\ Baskets \subseteq [Products -> Nat]
  /\ Counter \in Places /\ MaxEdits \in Nat /\ MaxSold \in Nat
BY OrderStockAssumption
LEMMA GivenMakes ==
  /\ Ingredients \in [Makes -> Quantities] /\ Output \in [Makes -> Goods]
  /\ Yields \in [Makes -> SUBSET (Nat \ {0})] /\ Besides \in [Makes -> Quantities]
  /\ Workshop \in Places /\ Shelf \in Places
BY MakeAssumption
LEMMA GivenMoves == MaxAsked \in Nat
BY MoveAssumption
LEMMA GivenBuys ==
  /\ Bought \in Goods /\ Dock \in Places /\ NoLot \notin Lots
  /\ MaxOrdered \in Nat /\ MaxPaid \in Nat
BY BuyAssumption
LEMMA GivenCounts ==
  /\ Scopes \subseteq SUBSET Goods /\ Goods \cap BatchIds = {}
  /\ Handled \subseteq Goods \ Tracked /\ MaxLost \in Nat
BY CountAssumption
LEMMA GivenScenes ==
  /\ DOMAIN Scenes \subseteq SUBSET (Document \cup Complication)
  /\ Scenes \in [DOMAIN Scenes -> SUBSET Setting]
BY SceneAssumption

-----------------------------------------------------------------------------
(* Quantities and the table of levels.                                     *)

Amount == [Goods -> Int]
Table == [Goods \X Places -> Level]

LEMMA NothingIsNothing == Nothing \in Quantities /\ \A g \in Goods : Nothing[g] = 0
BY DEF Nothing, Quantities
LEMMA JustIs ==
  ASSUME NEW g \in Goods, NEW n \in Nat
  PROVE  /\ Just(g, n) \in Quantities
         /\ \A h \in Goods : Just(g, n)[h] = IF h = g THEN n ELSE 0
BY DEF Just, Nothing, Quantities
LEMMA PlusIs ==
  ASSUME NEW a \in Quantities, NEW b \in Quantities
  PROVE  /\ Plus(a, b) \in Quantities
         /\ \A g \in Goods : Plus(a, b)[g] = a[g] + b[g]
BY DEF Plus, Quantities
LEMMA MinusIs ==
  ASSUME NEW a \in Amount, NEW b \in Amount
  PROVE  /\ Minus(a, b) \in Amount
         /\ \A g \in Goods : Minus(a, b)[g] = a[g] - b[g]
BY DEF Minus, Amount
LEMMA QuantitiesAreAmounts == Quantities \subseteq Amount
BY DEF Quantities, Amount
LEMMA SameAmount ==
  ASSUME NEW a \in Amount, NEW b \in Amount, \A g \in Goods : a[g] = b[g]
  PROVE  a = b
BY DEF Amount
LEMMA SameQuantities ==
  ASSUME NEW a \in Quantities, NEW b \in Quantities, \A g \in Goods : a[g] = b[g]
  PROVE  a = b
BY DEF Quantities

\* adjust moves the quantities of one place, and reserves nothing.
LEMMA PutIs ==
  ASSUME NEW l \in Table, NEW p \in Places, NEW q \in Amount
  PROVE  /\ Put(l, p, q) \in Table
         /\ \A g \in Goods, r \in Places :
              /\ Put(l, p, q)[<<g, r>>].qty = l[<<g, r>>].qty + (IF r = p THEN q[g] ELSE 0)
              /\ Put(l, p, q)[<<g, r>>].held = l[<<g, r>>].held
<1>1. ASSUME NEW x \in Goods \X Places
      PROVE  /\ x[1] \in Goods /\ l[x] \in Level /\ q[x[1]] \in Int
             /\ l[x] = [qty |-> l[x].qty, held |-> l[x].held]
             /\ l[x].qty \in Int /\ l[x].held \in Int
  BY DEF Table, Level, Amount
<1>2. DOMAIN l = Goods \X Places
  BY DEF Table
<1>3. Put(l, p, q) = [x \in Goods \X Places |->
                        IF x[2] = p THEN [qty |-> l[x].qty + q[x[1]], held |-> l[x].held]
                        ELSE l[x]]
  BY <1>1, <1>2 DEF Put
<1>4. Put(l, p, q) \in Table
  BY <1>1, <1>3 DEF Table, Level
<1>5. ASSUME NEW g \in Goods, NEW r \in Places
      PROVE  /\ Put(l, p, q)[<<g, r>>].qty = l[<<g, r>>].qty + (IF r = p THEN q[g] ELSE 0)
             /\ Put(l, p, q)[<<g, r>>].held = l[<<g, r>>].held
  <2>1. <<g, r>> \in Goods \X Places /\ <<g, r>>[1] = g /\ <<g, r>>[2] = r
    OBVIOUS
  <2>2. l[<<g, r>>].qty \in Int
    BY <1>1, <2>1
  <2> QED BY <1>3, <2>1, <2>2
<1> QED BY <1>4, <1>5
LEMMA TakeIs ==
  ASSUME NEW l \in Table, NEW p \in Places, NEW q \in Amount
  PROVE  /\ Take(l, p, q) \in Table
         /\ \A g \in Goods, r \in Places :
              /\ Take(l, p, q)[<<g, r>>].qty = l[<<g, r>>].qty - (IF r = p THEN q[g] ELSE 0)
              /\ Take(l, p, q)[<<g, r>>].held = l[<<g, r>>].held
<1> DEFINE m == Minus(Nothing, q)
<1>1. m \in Amount /\ \A g \in Goods : m[g] = -q[g]
  BY MinusIs, NothingIsNothing, QuantitiesAreAmounts DEF Amount
<1>2. Take(l, p, q) = Put(l, p, m)
  BY DEF Take
<1>3. \A g \in Goods, r \in Places : l[<<g, r>>].qty \in Int /\ q[g] \in Int
  BY DEF Table, Level, Amount
<1> HIDE DEF m
<1> QED BY <1>1, <1>2, <1>3, PutIs

\* reserve and release change what is reserved at one place, and no quantity.
LEMMA HoldIs ==
  ASSUME NEW l \in Table, NEW p \in Places, NEW q \in Amount
  PROVE  /\ Hold(l, p, q) \in Table
         /\ \A g \in Goods, r \in Places :
              /\ Hold(l, p, q)[<<g, r>>].held = l[<<g, r>>].held + (IF r = p THEN q[g] ELSE 0)
              /\ Hold(l, p, q)[<<g, r>>].qty = l[<<g, r>>].qty
<1>1. ASSUME NEW x \in Goods \X Places
      PROVE  /\ x[1] \in Goods /\ l[x] \in Level /\ q[x[1]] \in Int
             /\ l[x] = [qty |-> l[x].qty, held |-> l[x].held]
             /\ l[x].qty \in Int /\ l[x].held \in Int
  BY DEF Table, Level, Amount
<1>2. DOMAIN l = Goods \X Places
  BY DEF Table
<1>3. Hold(l, p, q) = [x \in Goods \X Places |->
                        IF x[2] = p THEN [qty |-> l[x].qty, held |-> l[x].held + q[x[1]]]
                        ELSE l[x]]
  BY <1>1, <1>2 DEF Hold
<1>4. Hold(l, p, q) \in Table
  BY <1>1, <1>3 DEF Table, Level
<1>5. ASSUME NEW g \in Goods, NEW r \in Places
      PROVE  /\ Hold(l, p, q)[<<g, r>>].held = l[<<g, r>>].held + (IF r = p THEN q[g] ELSE 0)
             /\ Hold(l, p, q)[<<g, r>>].qty = l[<<g, r>>].qty
  <2>1. <<g, r>> \in Goods \X Places /\ <<g, r>>[1] = g /\ <<g, r>>[2] = r
    OBVIOUS
  <2>2. l[<<g, r>>].held \in Int
    BY <1>1, <2>1
  <2> QED BY <1>3, <2>1, <2>2
<1> QED BY <1>4, <1>5
LEMMA ReleaseIs ==
  ASSUME NEW l \in Table, NEW p \in Places, NEW q \in Amount
  PROVE  /\ Release(l, p, q) \in Table
         /\ \A g \in Goods, r \in Places :
              /\ Release(l, p, q)[<<g, r>>].held = l[<<g, r>>].held - (IF r = p THEN q[g] ELSE 0)
              /\ Release(l, p, q)[<<g, r>>].qty = l[<<g, r>>].qty
<1> DEFINE m == Minus(Nothing, q)
<1>1. m \in Amount /\ \A g \in Goods : m[g] = -q[g]
  BY MinusIs, NothingIsNothing, QuantitiesAreAmounts DEF Amount
<1>2. Release(l, p, q) = Hold(l, p, m)
  BY DEF Release
<1>3. \A g \in Goods, r \in Places : l[<<g, r>>].held \in Int /\ q[g] \in Int
  BY DEF Table, Level, Amount
<1> HIDE DEF m
<1> QED BY <1>1, <1>2, <1>3, HoldIs

\* What there is of a good at all places, when one place or none changes.
LEMMA StockedMoves ==
  ASSUME NEW l \in Table, NEW m \in Table, NEW g \in Goods, NEW p \in Places, NEW n \in Int,
         \A r \in Places : m[<<g, r>>].qty = l[<<g, r>>].qty + (IF r = p THEN n ELSE 0)
  PROVE  Stocked(m, g) = Stocked(l, g) + n /\ Stocked(l, g) \in Int
<1> DEFINE f == [r \in Places |-> l[<<g, r>>].qty]
           h == [r \in Places |-> m[<<g, r>>].qty]
<1>1. \A r \in Places : f[r] \in Int /\ h[r] = f[r] + (IF r = p THEN n ELSE 0)
  BY DEF Table, Level
<1>2. /\ Stocked(l, g) = SumFunctionOnSet(f, Places)
      /\ Stocked(m, g) = SumFunctionOnSet(h, Places)
  BY DEF Stocked, SumFunction
<1> HIDE DEF f, h
<1>3. \A r \in Places : f[r] \in Int /\ h[r] \in Int
  BY <1>1
<1>4. SumFunctionOnSet(h, Places) = SumFunctionOnSet(f, Places) - f[p] + h[p]
  BY <1>1, <1>3, GivenGoods, SumChanges
<1>5. SumFunctionOnSet(f, Places) \in Int
  BY <1>1, GivenGoods, SumIsInt
<1> QED BY <1>1, <1>2, <1>4, <1>5

-----------------------------------------------------------------------------
(* What the stock's handlers do for an order: the levels follow its book.   *)

Pair == [level : Table, book : Book]
\* What a book has taken and not returned, and what it has reserved.
TakenIn(b) == Minus(b.sold, b.back)
HeldIn(b) == IF b.released THEN Nothing ELSE b.held

LEMMA BookIs ==
  ASSUME NEW b \in Book
  PROVE  /\ b.sold \in Quantities /\ b.back \in Quantities /\ b.held \in Quantities
         /\ b.reversed \in BOOLEAN /\ b.released \in BOOLEAN
         /\ HeldIn(b) \in Quantities /\ TakenIn(b) \in Amount
         /\ \A g \in Goods : TakenIn(b)[g] = b.sold[g] - b.back[g]
<1>1. /\ b.sold \in Quantities /\ b.back \in Quantities /\ b.held \in Quantities
      /\ b.reversed \in BOOLEAN /\ b.released \in BOOLEAN
  BY DEF Book
<1>2. HeldIn(b) \in Quantities
  BY <1>1, NothingIsNothing DEF HeldIn
<1> QED BY <1>1, <1>2, MinusIs, QuantitiesAreAmounts DEF TakenIn

\* Only the counter changes; there a level and what the book took add up to the same, and
\* what is reserved changes by what the book reserved.
Follows(s, r) ==
  /\ \A g \in Goods, p \in Places \ {Counter} :
       r.level[<<g, p>>].qty = s.level[<<g, p>>].qty /\ r.level[<<g, p>>].held = s.level[<<g, p>>].held
  /\ \A g \in Goods :
       r.level[<<g, Counter>>].qty + TakenIn(r.book)[g] = s.level[<<g, Counter>>].qty + TakenIn(s.book)[g]
  /\ \A g \in Goods :
       r.level[<<g, Counter>>].held - HeldIn(r.book)[g] = s.level[<<g, Counter>>].held - HeldIn(s.book)[g]

LEMMA FollowsItself == ASSUME NEW s PROVE Follows(s, s)
BY DEF Follows
LEMMA FollowsOn ==
  ASSUME NEW s, NEW r, NEW t, Follows(s, r), Follows(r, t)
  PROVE  Follows(s, t)
BY DEF Follows

LEMMA PairIs ==
  ASSUME NEW s \in Pair
  PROVE  /\ s.level \in Table /\ s.book \in Book
         /\ \A g \in Goods, p \in Places :
              s.level[<<g, p>>].qty \in Int /\ s.level[<<g, p>>].held \in Int
<1>1. s.level \in Table /\ s.book \in Book
  BY DEF Pair
<1>2. \A x \in Goods \X Places : s.level[x] \in Level
  BY <1>1 DEF Table
<1> QED BY <1>1, <1>2 DEF Level

\* Books that differ in one field.
LEMMA BookSold ==
  ASSUME NEW b \in Book, NEW q \in Quantities
  PROVE  /\ [b EXCEPT !.sold = q] \in Book
         /\ [b EXCEPT !.sold = q].sold = q /\ [b EXCEPT !.sold = q].back = b.back
         /\ [b EXCEPT !.sold = q].held = b.held
         /\ [b EXCEPT !.sold = q].reversed = b.reversed /\ [b EXCEPT !.sold = q].released = b.released
BY DEF Book
LEMMA BookBack ==
  ASSUME NEW b \in Book, NEW q \in Quantities
  PROVE  /\ [b EXCEPT !.back = q] \in Book
         /\ [b EXCEPT !.back = q].sold = b.sold /\ [b EXCEPT !.back = q].back = q
         /\ [b EXCEPT !.back = q].held = b.held
         /\ [b EXCEPT !.back = q].reversed = b.reversed /\ [b EXCEPT !.back = q].released = b.released
BY DEF Book
LEMMA BookHeld ==
  ASSUME NEW b \in Book, NEW q \in Quantities
  PROVE  /\ [b EXCEPT !.held = q] \in Book
         /\ [b EXCEPT !.held = q].sold = b.sold /\ [b EXCEPT !.held = q].back = b.back
         /\ [b EXCEPT !.held = q].held = q
         /\ [b EXCEPT !.held = q].reversed = b.reversed /\ [b EXCEPT !.held = q].released = b.released
BY DEF Book
LEMMA BookReversed ==
  ASSUME NEW b \in Book, NEW x \in BOOLEAN
  PROVE  /\ [b EXCEPT !.reversed = x] \in Book
         /\ [b EXCEPT !.reversed = x].sold = b.sold /\ [b EXCEPT !.reversed = x].back = b.back
         /\ [b EXCEPT !.reversed = x].held = b.held
         /\ [b EXCEPT !.reversed = x].reversed = x /\ [b EXCEPT !.reversed = x].released = b.released
BY DEF Book
LEMMA BookReleased ==
  ASSUME NEW b \in Book, NEW x \in BOOLEAN
  PROVE  /\ [b EXCEPT !.released = x] \in Book
         /\ [b EXCEPT !.released = x].sold = b.sold /\ [b EXCEPT !.released = x].back = b.back
         /\ [b EXCEPT !.released = x].held = b.held
         /\ [b EXCEPT !.released = x].reversed = b.reversed /\ [b EXCEPT !.released = x].released = x
BY DEF Book

LEMMA ReserveFollows ==
  ASSUME NEW s \in Pair, NEW need \in Quantities, ~s.book.released
  PROVE  LET r == ReserveForOrder(s, need)
         IN  /\ r \in Pair /\ Follows(s, r)
             /\ r.book.sold = s.book.sold /\ r.book.back = s.book.back
             /\ r.book.reversed = s.book.reversed /\ r.book.released = s.book.released
             /\ ~setting.reserve => r.book.held = s.book.held
<1> DEFINE l == Hold(s.level, Counter, need)
           q == Plus(s.book.held, need)
           b == [s.book EXCEPT !.held = q]
           r == [level |-> l, book |-> b]
<1>1. s.level \in Table /\ s.book \in Book
  BY PairIs
<1>2. q \in Quantities /\ \A g \in Goods : q[g] = s.book.held[g] + need[g]
  BY <1>1, BookIs, PlusIs
<1>3. /\ l \in Table
      /\ \A g \in Goods, p \in Places :
           /\ l[<<g, p>>].held = s.level[<<g, p>>].held + (IF p = Counter THEN need[g] ELSE 0)
           /\ l[<<g, p>>].qty = s.level[<<g, p>>].qty
  BY <1>1, HoldIs, GivenOrders, QuantitiesAreAmounts
<1>4. setting.reserve /\ CanHold(s.level, Counter, need) => ReserveForOrder(s, need) = r
  BY DEF ReserveForOrder
<1>5. ~(setting.reserve /\ CanHold(s.level, Counter, need)) => ReserveForOrder(s, need) = s
  BY DEF ReserveForOrder
<1> HIDE DEF q, l
<1>6. /\ b \in Book /\ b.sold = s.book.sold /\ b.back = s.book.back /\ b.held = q
      /\ b.reversed = s.book.reversed /\ b.released = s.book.released
  BY <1>1, <1>2, BookHeld
<1> HIDE DEF b
<1>7. r \in Pair /\ r.level = l /\ r.book = b
  BY <1>3, <1>6 DEF Pair
<1> HIDE DEF r
<1>8. Follows(s, r)
  <2>1. \A g \in Goods : TakenIn(r.book)[g] = TakenIn(s.book)[g]
    BY <1>1, <1>6, <1>7 DEF TakenIn
  <2>2. \A g \in Goods : HeldIn(r.book)[g] = HeldIn(s.book)[g] + need[g]
    BY <1>2, <1>6, <1>7 DEF HeldIn
  <2>3. \A g \in Goods : HeldIn(s.book)[g] \in Int /\ need[g] \in Int /\ TakenIn(s.book)[g] \in Int
    BY <1>1, BookIs DEF Quantities, Amount
  <2> QED BY <1>3, <1>7, <2>1, <2>2, <2>3, PairIs, GivenOrders DEF Follows
<1> QED BY <1>4, <1>5, <1>6, <1>7, <1>8, FollowsItself

LEMMA ReleaseFollows ==
  ASSUME NEW s \in Pair
  PROVE  LET r == ReleaseReservation(s)
         IN  /\ r \in Pair /\ Follows(s, r)
             /\ r.book.sold = s.book.sold /\ r.book.back = s.book.back
             /\ r.book.held = s.book.held /\ r.book.reversed = s.book.reversed
             /\ r.level = s.level \/ r.book.released \/ s.book.held = Nothing
             /\ CanRelease(s.level, Counter, HeldIn(s.book)) => HeldIn(r.book) = Nothing
<1> DEFINE l == Release(s.level, Counter, s.book.held)
           x == s.book.held # Nothing
           b == [s.book EXCEPT !.released = x]
           r == [level |-> l, book |-> b]
           stays == s.book.released \/ ~CanRelease(s.level, Counter, s.book.held)
<1>1. s.level \in Table /\ s.book \in Book /\ s.book.held \in Quantities
  BY PairIs, BookIs
<1>3. /\ l \in Table
      /\ \A g \in Goods, p \in Places :
           /\ l[<<g, p>>].held = s.level[<<g, p>>].held - (IF p = Counter THEN s.book.held[g] ELSE 0)
           /\ l[<<g, p>>].qty = s.level[<<g, p>>].qty
  BY <1>1, ReleaseIs, GivenOrders, QuantitiesAreAmounts
<1>4. ~stays => ReleaseReservation(s) = r
  BY DEF ReleaseReservation
<1>5. stays => ReleaseReservation(s) = s
  BY DEF ReleaseReservation
<1> HIDE DEF l
<1>6. /\ b \in Book /\ b.sold = s.book.sold /\ b.back = s.book.back /\ b.held = s.book.held
      /\ b.reversed = s.book.reversed /\ (b.released <=> x)
  BY <1>1, BookReleased
<1> HIDE DEF b
<1>7. r \in Pair /\ r.level = l /\ r.book = b
  BY <1>3, <1>6 DEF Pair
<1> HIDE DEF r
<1>8. HeldIn(r.book) = Nothing
  BY <1>6, <1>7 DEF HeldIn
<1>9. ~stays => Follows(s, r)
  <2>1. \A g \in Goods : TakenIn(r.book)[g] = TakenIn(s.book)[g]
    BY <1>6, <1>7 DEF TakenIn
  <2>2. ~stays => HeldIn(s.book) = s.book.held
    BY DEF HeldIn
  <2>3. \A g \in Goods : s.book.held[g] \in Int /\ Nothing[g] = 0
    BY <1>1, NothingIsNothing DEF Quantities
  <2> HIDE DEF stays
  <2> QED BY <1>3, <1>7, <1>8, <2>1, <2>2, <2>3, PairIs, GivenOrders DEF Follows
<1>10. CanRelease(s.level, Counter, HeldIn(s.book)) /\ stays => HeldIn(s.book) = Nothing
  BY DEF HeldIn
<1>11. ~stays => r.book.released \/ s.book.held = Nothing
  BY <1>6, <1>7
<1> HIDE DEF stays
<1> QED BY <1>4, <1>5, <1>6, <1>7, <1>8, <1>9, <1>10, <1>11, FollowsItself

LEMMA DeductFollows ==
  ASSUME NEW s \in Pair, NEW need \in Quantities
  PROVE  LET r == DeductForOrder(s, need)
         IN  /\ r \in Pair /\ Follows(s, r)
             /\ r.book.back = s.book.back /\ r.book.held = s.book.held
             /\ r.book.reversed = s.book.reversed /\ r.book.released = s.book.released
             /\ r.book.sold = s.book.sold \/ r.book.sold = Plus(s.book.sold, need)
             /\ setting.negative => r.book.sold = Plus(s.book.sold, need)
             /\ HeldIn(r.book) = HeldIn(s.book)
<1> DEFINE l == Take(s.level, Counter, need)
           q == Plus(s.book.sold, need)
           b == [s.book EXCEPT !.sold = q]
           r == [level |-> l, book |-> b]
<1>1. s.level \in Table /\ s.book \in Book
  BY PairIs
<1>2. q \in Quantities /\ \A g \in Goods : q[g] = s.book.sold[g] + need[g]
  BY <1>1, BookIs, PlusIs
<1>3. /\ l \in Table
      /\ \A g \in Goods, p \in Places :
           /\ l[<<g, p>>].qty = s.level[<<g, p>>].qty - (IF p = Counter THEN need[g] ELSE 0)
           /\ l[<<g, p>>].held = s.level[<<g, p>>].held
  BY <1>1, TakeIs, GivenOrders, QuantitiesAreAmounts
<1>4. CanTake(s.level, Counter, need) => DeductForOrder(s, need) = r
  BY DEF DeductForOrder, Deducted
<1>5. ~CanTake(s.level, Counter, need) => DeductForOrder(s, need) = s
  BY DEF DeductForOrder
<1>6. setting.negative => CanTake(s.level, Counter, need)
  BY DEF CanTake
<1> HIDE DEF q, l
<1>7. /\ b \in Book /\ b.sold = q /\ b.back = s.book.back /\ b.held = s.book.held
      /\ b.reversed = s.book.reversed /\ b.released = s.book.released
  BY <1>1, <1>2, BookSold
<1> HIDE DEF b
<1>8. r \in Pair /\ r.level = l /\ r.book = b
  BY <1>3, <1>7 DEF Pair
<1> HIDE DEF r
<1>9. HeldIn(r.book) = HeldIn(s.book)
  BY <1>7, <1>8 DEF HeldIn
<1>10. Follows(s, r)
  <2>1. \A g \in Goods : TakenIn(r.book)[g] = TakenIn(s.book)[g] + need[g]
    <3>1. r.book \in Book
      BY <1>8 DEF Pair
    <3>2. \A g \in Goods : s.book.sold[g] \in Int /\ s.book.back[g] \in Int /\ need[g] \in Int
      BY <1>1, BookIs DEF Quantities
    <3> QED BY <1>1, <1>2, <1>7, <1>8, <3>1, <3>2, BookIs
  <2>2. \A g \in Goods : HeldIn(s.book)[g] \in Int /\ need[g] \in Int /\ TakenIn(s.book)[g] \in Int
    BY <1>1, BookIs DEF Quantities, Amount
  <2> QED BY <1>3, <1>8, <1>9, <2>1, <2>2, PairIs, GivenOrders DEF Follows
<1> QED BY <1>4, <1>5, <1>6, <1>7, <1>8, <1>9, <1>10, FollowsItself DEF q

LEMMA ReverseFollows ==
  ASSUME NEW s \in Pair
  PROVE  LET r == ReverseDeduction(s)
         IN  /\ r \in Pair /\ Follows(s, r)
             /\ r.book.sold = s.book.sold /\ r.book.held = s.book.held
             /\ r.book.released = s.book.released
             /\ HeldIn(r.book) = HeldIn(s.book)
             /\ IF s.book.reversed \/ s.book.sold = Nothing
                  THEN r.book.back = s.book.back /\ r.book.reversed = s.book.reversed
                  ELSE r.book.back = Plus(s.book.back, s.book.sold) /\ r.book.reversed
<1> DEFINE l == Put(s.level, Counter, s.book.sold)
           q == Plus(s.book.back, s.book.sold)
           b1 == [s.book EXCEPT !.back = q]
           b == [b1 EXCEPT !.reversed = TRUE]
           r == [level |-> l, book |-> b]
           stays == s.book.reversed \/ s.book.sold = Nothing
<1>1. s.level \in Table /\ s.book \in Book /\ s.book.sold \in Quantities
  BY PairIs, BookIs
<1>2. q \in Quantities /\ \A g \in Goods : q[g] = s.book.back[g] + s.book.sold[g]
  BY <1>1, BookIs, PlusIs
<1>3. /\ l \in Table
      /\ \A g \in Goods, p \in Places :
           /\ l[<<g, p>>].qty = s.level[<<g, p>>].qty + (IF p = Counter THEN s.book.sold[g] ELSE 0)
           /\ l[<<g, p>>].held = s.level[<<g, p>>].held
  BY <1>1, PutIs, GivenOrders, QuantitiesAreAmounts
<1>4. ~stays => ReverseDeduction(s) = r
  <2>1. [s.book EXCEPT !.back = Plus(@, s.book.sold), !.reversed = TRUE] = b
    BY <1>1 DEF Book
  <2> QED BY <2>1 DEF ReverseDeduction
<1>5. stays => ReverseDeduction(s) = s
  BY DEF ReverseDeduction
<1> HIDE DEF l, q
<1>6. /\ b1 \in Book /\ b1.back = q /\ b1.sold = s.book.sold /\ b1.held = s.book.held
      /\ b1.released = s.book.released
  BY <1>1, <1>2, BookBack
<1> HIDE DEF b1
<1>7. /\ b \in Book /\ b.back = q /\ b.sold = s.book.sold /\ b.held = s.book.held
      /\ b.released = s.book.released /\ b.reversed
  BY <1>6, BookReversed
<1> HIDE DEF b
<1>8. r \in Pair /\ r.level = l /\ r.book = b
  BY <1>3, <1>7 DEF Pair
<1> HIDE DEF r
<1>9. HeldIn(r.book) = HeldIn(s.book)
  BY <1>7, <1>8 DEF HeldIn
<1>10. Follows(s, r)
  <2>1. \A g \in Goods : TakenIn(r.book)[g] = TakenIn(s.book)[g] - s.book.sold[g]
    <3>1. r.book \in Book
      BY <1>8 DEF Pair
    <3>2. \A g \in Goods : s.book.sold[g] \in Int /\ s.book.back[g] \in Int
      BY <1>1, BookIs DEF Quantities
    <3> QED BY <1>1, <1>2, <1>7, <1>8, <3>1, <3>2, BookIs
  <2>2. \A g \in Goods : HeldIn(s.book)[g] \in Int /\ s.book.sold[g] \in Int /\ TakenIn(s.book)[g] \in Int
    BY <1>1, BookIs DEF Quantities, Amount
  <2> QED BY <1>3, <1>8, <1>9, <2>1, <2>2, PairIs, GivenOrders DEF Follows
<1> HIDE DEF stays
<1>11. stays => ReverseDeduction(s) = s
  BY <1>5
<1>12. CASE stays
  BY <1>11, <1>12, FollowsItself DEF stays
<1>13. CASE ~stays
  BY <1>4, <1>7, <1>8, <1>9, <1>10, <1>13 DEF stays, q
<1> QED BY <1>12, <1>13

LEMMA Times ==
  /\ \A a \in Nat, b \in Nat : a * b \in Nat
  /\ \A a \in Int, b \in Int : a * b \in Int
  /\ \A a \in Int, b \in Int, c \in Int : (a - b) * c = a * c - b * c
OBVIOUS

\* What an edit of one line moves.
Moved(product, delta) == [g \in Goods |-> (IF delta > 0 THEN delta ELSE -delta) * Uses[product][g]]
LEMMA MovedIs ==
  ASSUME NEW product \in Products, NEW delta \in Int
  PROVE  /\ Moved(product, delta) \in Quantities
         /\ \A g \in Goods : /\ Uses[product][g] \in Nat
                             /\ delta > 0 => Moved(product, delta)[g] = delta * Uses[product][g]
                             /\ ~(delta > 0) => Moved(product, delta)[g] = -(delta * Uses[product][g])
<1>1. \A g \in Goods : Uses[product][g] \in Nat
  BY GivenOrders DEF Quantities
<1>2. (IF delta > 0 THEN delta ELSE -delta) \in Nat
  OBVIOUS
<1>3. \A g \in Goods : (IF delta > 0 THEN delta ELSE -delta) * Uses[product][g] \in Nat
  BY <1>1, <1>2, Times
<1>4. \A x \in Nat : (-delta) * x = -(delta * x)
  OBVIOUS
<1> QED BY <1>1, <1>3, <1>4 DEF Moved, Quantities

LEMMA AdjustFollows ==
  ASSUME NEW s \in Pair, NEW product \in Products, NEW delta \in Int
  PROVE  LET r == AdjustForItemChange(s, product, delta)
         IN  /\ r \in Pair /\ Follows(s, r)
             /\ r.book.held = s.book.held /\ r.book.released = s.book.released
             /\ r.book.reversed = s.book.reversed
             /\ HeldIn(r.book) = HeldIn(s.book)
             /\ ~setting.adjusts \/ s.book.sold = Nothing => r = s
             /\ setting.adjusts /\ s.book.sold # Nothing =>
                  \E got \in Quantities :
                    /\ \A g \in Goods : got[g] \in {0, Moved(product, delta)[g]}
                    /\ setting.negative \/ ~(delta > 0) => got = Moved(product, delta)
                    /\ delta > 0 => r.book.sold = Plus(s.book.sold, got) /\ r.book.back = s.book.back
                    /\ ~(delta > 0) => r.book.back = Plus(s.book.back, got) /\ r.book.sold = s.book.sold
<1> DEFINE moved == Moved(product, delta)
           got == [g \in Goods |-> IF CanTake(s.level, Counter, Just(g, moved[g]))
                                     THEN moved[g] ELSE 0]
           l == Put(s.level, Counter, moved)
           q == Plus(s.book.back, moved)
           b == [s.book EXCEPT !.back = q]
           r == [level |-> l, book |-> b]
           r0 == AdjustForItemChange(s, product, delta)
<1>1. /\ s.level \in Table /\ s.book \in Book
      /\ \A g \in Goods : s.book.sold[g] \in Int /\ s.book.back[g] \in Int
  BY PairIs, BookIs DEF Quantities
<1>2. moved \in Quantities
  BY MovedIs
<1>3. ~setting.adjusts \/ s.book.sold = Nothing => r0 = s
  BY DEF AdjustForItemChange
<1>4. setting.adjusts /\ s.book.sold # Nothing /\ delta > 0 => r0 = Deducted(s, got)
  BY DEF AdjustForItemChange, Moved
<1>5. setting.adjusts /\ s.book.sold # Nothing /\ ~(delta > 0) => r0 = r
  BY DEF AdjustForItemChange, Moved
<1> HIDE DEF r0, moved
<1>6. /\ got \in Quantities /\ \A g \in Goods : got[g] \in {0, moved[g]}
      /\ setting.negative => got = moved
  <2>1. setting.negative => \A g \in Goods : got[g] = moved[g]
    BY DEF CanTake
  <2> QED BY <1>2, <2>1 DEF Quantities
<1> HIDE DEF got
<1>7. CASE ~setting.adjusts \/ s.book.sold = Nothing
  BY <1>3, <1>7, FollowsItself DEF r0
<1>8. CASE setting.adjusts /\ s.book.sold # Nothing /\ delta > 0
  <2> DEFINE m == Take(s.level, Counter, got)
             k == Plus(s.book.sold, got)
             c == [s.book EXCEPT !.sold = k]
             t == [level |-> m, book |-> c]
  <2>1. k \in Quantities /\ \A g \in Goods : k[g] = s.book.sold[g] + got[g]
    BY <1>1, <1>6, BookIs, PlusIs
  <2>2. /\ m \in Table
        /\ \A g \in Goods, p \in Places :
             /\ m[<<g, p>>].qty = s.level[<<g, p>>].qty - (IF p = Counter THEN got[g] ELSE 0)
             /\ m[<<g, p>>].held = s.level[<<g, p>>].held
    BY <1>1, <1>6, TakeIs, GivenOrders, QuantitiesAreAmounts
  <2>3. r0 = t
    BY <1>4, <1>8 DEF Deducted
  <2> HIDE DEF m, k
  <2>4. /\ c \in Book /\ c.sold = k /\ c.back = s.book.back /\ c.held = s.book.held
        /\ c.reversed = s.book.reversed /\ c.released = s.book.released
    BY <1>1, <2>1, BookSold
  <2> HIDE DEF c
  <2>5. t \in Pair /\ t.level = m /\ t.book = c
    BY <2>2, <2>4 DEF Pair
  <2> HIDE DEF t
  <2>6. HeldIn(t.book) = HeldIn(s.book)
    BY <2>4, <2>5 DEF HeldIn
  <2>7. Follows(s, t)
    <3>1. \A g \in Goods : TakenIn(t.book)[g] = TakenIn(s.book)[g] + got[g]
      <4>1. t.book \in Book
        BY <2>5 DEF Pair
      <4>2. \A g \in Goods : got[g] \in Int
        BY <1>6 DEF Quantities
      <4> QED BY <1>1, <2>1, <2>4, <2>5, <4>1, <4>2, BookIs
    <3>2. \A g \in Goods : HeldIn(s.book)[g] \in Int /\ got[g] \in Int /\ TakenIn(s.book)[g] \in Int
      BY <1>1, <1>6, BookIs DEF Quantities, Amount
    <3> QED BY <2>2, <2>5, <2>6, <3>1, <3>2, PairIs, GivenOrders DEF Follows
  <2>8. r0.book.sold = Plus(s.book.sold, got) /\ r0.book.back = s.book.back
    BY <2>3, <2>4, <2>5 DEF k
  <2>9. \E y \in Quantities :
          /\ \A g \in Goods : y[g] \in {0, moved[g]}
          /\ setting.negative \/ ~(delta > 0) => y = moved
          /\ delta > 0 => r0.book.sold = Plus(s.book.sold, y) /\ r0.book.back = s.book.back
          /\ ~(delta > 0) => r0.book.back = Plus(s.book.back, y) /\ r0.book.sold = s.book.sold
    BY <1>6, <1>8, <2>8
  <2>10. /\ r0 \in Pair /\ Follows(s, r0) /\ r0.book.held = s.book.held
         /\ r0.book.released = s.book.released /\ r0.book.reversed = s.book.reversed
         /\ HeldIn(r0.book) = HeldIn(s.book)
    BY <2>3, <2>4, <2>5, <2>6, <2>7
  <2> QED BY <1>8, <2>9, <2>10 DEF r0, moved
<1>9. CASE setting.adjusts /\ s.book.sold # Nothing /\ ~(delta > 0)
  <2>1. q \in Quantities /\ \A g \in Goods : q[g] = s.book.back[g] + moved[g]
    BY <1>1, <1>2, BookIs, PlusIs
  <2>2. /\ l \in Table
        /\ \A g \in Goods, p \in Places :
             /\ l[<<g, p>>].qty = s.level[<<g, p>>].qty + (IF p = Counter THEN moved[g] ELSE 0)
             /\ l[<<g, p>>].held = s.level[<<g, p>>].held
    BY <1>1, <1>2, PutIs, GivenOrders, QuantitiesAreAmounts
  <2>3. r0 = r
    BY <1>5, <1>9
  <2> HIDE DEF l, q
  <2>4. /\ b \in Book /\ b.back = q /\ b.sold = s.book.sold /\ b.held = s.book.held
        /\ b.reversed = s.book.reversed /\ b.released = s.book.released
    BY <1>1, <2>1, BookBack
  <2> HIDE DEF b
  <2>5. r \in Pair /\ r.level = l /\ r.book = b
    BY <2>2, <2>4 DEF Pair
  <2> HIDE DEF r
  <2>6. HeldIn(r.book) = HeldIn(s.book)
    BY <2>4, <2>5 DEF HeldIn
  <2>7. Follows(s, r)
    <3>1. \A g \in Goods : TakenIn(r.book)[g] = TakenIn(s.book)[g] - moved[g]
      <4>1. r.book \in Book
        BY <2>5 DEF Pair
      <4>2. \A g \in Goods : moved[g] \in Int
        BY <1>2 DEF Quantities
      <4> QED BY <1>1, <2>1, <2>4, <2>5, <4>1, <4>2, BookIs
    <3>2. \A g \in Goods : HeldIn(s.book)[g] \in Int /\ moved[g] \in Int /\ TakenIn(s.book)[g] \in Int
      BY <1>1, <1>2, BookIs DEF Quantities, Amount
    <3> QED BY <2>2, <2>5, <2>6, <3>1, <3>2, PairIs, GivenOrders DEF Follows
  <2>8. r0.book.back = Plus(s.book.back, moved) /\ r0.book.sold = s.book.sold
    BY <2>3, <2>4, <2>5 DEF q
  <2>9. \E y \in Quantities :
          /\ \A g \in Goods : y[g] \in {0, moved[g]}
          /\ setting.negative \/ ~(delta > 0) => y = moved
          /\ delta > 0 => r0.book.sold = Plus(s.book.sold, y) /\ r0.book.back = s.book.back
          /\ ~(delta > 0) => r0.book.back = Plus(s.book.back, y) /\ r0.book.sold = s.book.sold
    BY <1>2, <1>9, <2>8
  <2>10. /\ r0 \in Pair /\ Follows(s, r0) /\ r0.book.held = s.book.held
         /\ r0.book.released = s.book.released /\ r0.book.reversed = s.book.reversed
         /\ HeldIn(r0.book) = HeldIn(s.book)
    BY <2>3, <2>4, <2>5, <2>6, <2>7
  <2> QED BY <1>9, <2>9, <2>10 DEF r0, moved
<1> QED BY <1>7, <1>8, <1>9

LEMMA NeedsIs ==
  ASSUME NEW lines \in [Products -> Nat]
  PROVE  /\ Needs(lines) \in Quantities
         /\ \A g \in Goods : (\A p \in Products : Uses[p][g] = 0) => Needs(lines)[g] = 0
<1>1. ASSUME NEW g \in Goods
      PROVE  /\ Needs(lines)[g] \in Nat
             /\ (\A p \in Products : Uses[p][g] = 0) => Needs(lines)[g] = 0
  <2> DEFINE f == [p \in Products |-> lines[p] * Uses[p][g]]
  <2>1. \A p \in Products : lines[p] \in Nat /\ Uses[p][g] \in Nat
    BY GivenOrders DEF Quantities
  <2>2. \A p \in Products : f[p] \in Nat
    BY <2>1, Times
  <2>3. (\A p \in Products : Uses[p][g] = 0) => \A p \in Products : f[p] = 0
    BY <2>1
  <2>4. Needs(lines)[g] = SumFunctionOnSet(f, Products)
    BY DEF Needs, SumFunction
  <2> HIDE DEF f
  <2>5. SumFunctionOnSet(f, Products) \in Nat
    BY <2>2, SumIsNat, GivenGoods
  <2>6. (\A p \in Products : f[p] = 0) => SumFunctionOnSet(f, Products) = 0
    BY SumOfZeros, GivenGoods
  <2> QED BY <2>3, <2>4, <2>5, <2>6
<1>2. Needs(lines) = [g \in Goods |-> Needs(lines)[g]]
  BY DEF Needs
<1>3. Needs(lines) \in Quantities
  BY <1>1, <1>2 DEF Quantities
<1> QED BY <1>1, <1>3

\* An edit of one line changes the needs by what it moves.
LEMMA NeedsChange ==
  ASSUME NEW lines \in [Products -> Nat], NEW product \in Products, NEW n \in Nat, NEW g \in Goods
  PROVE  Needs([lines EXCEPT ![product] = n])[g]
           = Needs(lines)[g] + (n - lines[product]) * Uses[product][g]
<1> DEFINE more == [lines EXCEPT ![product] = n]
           f == [p \in Products |-> lines[p] * Uses[p][g]]
           h == [p \in Products |-> more[p] * Uses[p][g]]
<1>1. \A p \in Products : lines[p] \in Nat /\ more[p] \in Nat /\ Uses[p][g] \in Nat
  BY GivenOrders DEF Quantities
<1>2. \A p \in Products \ {product} : f[p] = h[p]
  OBVIOUS
<1>3. f[product] = lines[product] * Uses[product][g] /\ h[product] = n * Uses[product][g]
  OBVIOUS
<1>4. \A p \in Products : f[p] \in Int /\ h[p] \in Int
  <2> HIDE DEF more
  <2>1. \A p \in Products : lines[p] * Uses[p][g] \in Nat /\ more[p] * Uses[p][g] \in Nat
    BY <1>1, Times
  <2> QED BY <2>1
<1>5. /\ Needs(lines)[g] = SumFunctionOnSet(f, Products)
      /\ Needs(more)[g] = SumFunctionOnSet(h, Products)
  BY DEF Needs, SumFunction
<1> HIDE DEF f, h, more
<1>6. SumFunctionOnSet(h, Products) = SumFunctionOnSet(f, Products) - f[product] + h[product]
  BY <1>2, <1>4, SumChanges, GivenGoods
<1>7. SumFunctionOnSet(f, Products) \in Int
  BY <1>4, SumIsInt, GivenGoods
<1>8. (n - lines[product]) * Uses[product][g] = n * Uses[product][g] - lines[product] * Uses[product][g]
  <2> DEFINE a == lines[product]
             u == Uses[product][g]
  <2>1. a \in Int /\ u \in Int /\ n \in Int
    BY <1>1
  <2> HIDE DEF a, u
  <2>2. (n - a) * u = n * u - a * u
    BY <2>1, Times
  <2> QED BY <2>2 DEF a, u
<1>9. f[product] \in Int /\ h[product] \in Int
  BY <1>4
<1> QED BY <1>3, <1>5, <1>6, <1>7, <1>8, <1>9 DEF more

LEMMA SettingIs ==
  ASSUME scene \in DOMAIN Scenes, setting \in Scenes[scene]
  PROVE  /\ setting \in Setting /\ setting.deduct \in {"PREPARING", "READY", "PAID"}
         /\ setting.reserve \in BOOLEAN /\ setting.negative \in BOOLEAN
         /\ setting.adjusts \in BOOLEAN
BY GivenScenes DEF Setting

\* A change of status, by what the new one is.
LEMMA StatusFollows ==
  ASSUME NEW s \in Pair, NEW old, NEW new, NEW need \in Quantities,
         old = "none" => ~s.book.released, setting \in Setting
  PROVE  LET r == OnStatusChange(s, old, new, need)
         IN  /\ r \in Pair /\ Follows(s, r)
             /\ ~setting.reserve => r.book.held = s.book.held
             /\ new # setting.deduct => r.book.sold = s.book.sold
             /\ new = setting.deduct => r.book.sold \in {s.book.sold, Plus(s.book.sold, need)}
             /\ new = setting.deduct /\ setting.negative => r.book.sold = Plus(s.book.sold, need)
             /\ (new # "CANCELED" \/ s.book.sold = Nothing \/ s.book.reversed)
                  => r.book.back = s.book.back /\ r.book.reversed = s.book.reversed
             /\ ~(new # "CANCELED" \/ s.book.sold = Nothing \/ s.book.reversed)
                  => r.book.back = Plus(s.book.back, s.book.sold)
             /\ (/\ new = "CANCELED" /\ old # "none" /\ setting.reserve
                 /\ CanRelease(s.level, Counter, HeldIn(s.book)))
                  => HeldIn(r.book) = Nothing
<1> DEFINE s1 == IF old = "none" THEN ReserveForOrder(s, need) ELSE s
           d0 == IF setting.reserve THEN ReleaseReservation(s1) ELSE s1
           s2 == IF new = setting.deduct THEN DeductForOrder(d0, need) ELSE s1
           c0 == IF setting.reserve THEN ReleaseReservation(s2) ELSE s2
           r == IF new = "CANCELED" THEN ReverseDeduction(c0) ELSE s2
<1>1. OnStatusChange(s, old, new, need) = r
  BY DEF OnStatusChange
<1>2. setting.deduct # "CANCELED"
  BY DEF Setting
<1>3. /\ s1 \in Pair /\ Follows(s, s1)
      /\ s1.book.sold = s.book.sold /\ s1.book.back = s.book.back
      /\ s1.book.reversed = s.book.reversed
      /\ ~setting.reserve => s1.book.held = s.book.held
      /\ old # "none" => s1 = s
  <2>1. CASE old = "none"
    <3> DEFINE y == ReserveForOrder(s, need)
    <3>1. /\ y \in Pair /\ Follows(s, y) /\ y.book.sold = s.book.sold /\ y.book.back = s.book.back
          /\ y.book.reversed = s.book.reversed /\ (~setting.reserve => y.book.held = s.book.held)
      BY <2>1, ReserveFollows
    <3> HIDE DEF y
    <3>2. s1 = y
      BY <2>1 DEF y
    <3> QED BY <2>1, <3>1, <3>2
  <2>2. CASE old # "none"
    BY <2>2, FollowsItself
  <2> QED BY <2>1, <2>2
<1> HIDE DEF s1
<1>4. /\ d0 \in Pair /\ Follows(s1, d0)
      /\ d0.book.sold = s1.book.sold /\ d0.book.back = s1.book.back
      /\ d0.book.held = s1.book.held /\ d0.book.reversed = s1.book.reversed
  <2>1. CASE setting.reserve
    <3> DEFINE y == ReleaseReservation(s1)
    <3>1. /\ y \in Pair /\ Follows(s1, y) /\ y.book.sold = s1.book.sold /\ y.book.back = s1.book.back
          /\ y.book.held = s1.book.held /\ y.book.reversed = s1.book.reversed
      BY <1>3, ReleaseFollows
    <3> HIDE DEF y
    <3>2. d0 = y
      BY <2>1 DEF y
    <3> QED BY <3>1, <3>2
  <2>2. CASE ~setting.reserve
    BY <1>3, <2>2, FollowsItself
  <2> QED BY <2>1, <2>2
<1> HIDE DEF d0
<1>5. /\ s2 \in Pair /\ Follows(s, s2)
      /\ s2.book.back = s.book.back /\ s2.book.reversed = s.book.reversed
      /\ s2.book.held = s1.book.held
      /\ new # setting.deduct => s2 = s1
      /\ new = setting.deduct => s2.book.sold \in {s.book.sold, Plus(s.book.sold, need)}
      /\ new = setting.deduct /\ setting.negative => s2.book.sold = Plus(s.book.sold, need)
  <2>1. CASE new = setting.deduct
    <3> DEFINE y == DeductForOrder(d0, need)
    <3>1. /\ y \in Pair /\ Follows(d0, y) /\ y.book.back = d0.book.back
          /\ y.book.held = d0.book.held /\ y.book.reversed = d0.book.reversed
          /\ y.book.sold \in {d0.book.sold, Plus(d0.book.sold, need)}
          /\ setting.negative => y.book.sold = Plus(d0.book.sold, need)
      BY <1>4, DeductFollows
    <3> HIDE DEF y
    <3>2. s2 = y
      BY <2>1 DEF y
    <3>3. Follows(s, y)
      BY <1>3, <1>4, <3>1, FollowsOn
    <3> QED BY <1>3, <1>4, <2>1, <3>1, <3>2, <3>3
  <2>2. CASE new # setting.deduct
    BY <1>3, <2>2
  <2> QED BY <2>1, <2>2
<1> HIDE DEF s2
<1>6. /\ c0 \in Pair /\ Follows(s2, c0)
      /\ c0.book.sold = s2.book.sold /\ c0.book.back = s2.book.back
      /\ c0.book.held = s2.book.held /\ c0.book.reversed = s2.book.reversed
      /\ setting.reserve /\ CanRelease(s2.level, Counter, HeldIn(s2.book)) => HeldIn(c0.book) = Nothing
  <2>1. CASE setting.reserve
    <3> DEFINE y == ReleaseReservation(s2)
    <3>1. /\ y \in Pair /\ Follows(s2, y) /\ y.book.sold = s2.book.sold /\ y.book.back = s2.book.back
          /\ y.book.held = s2.book.held /\ y.book.reversed = s2.book.reversed
          /\ CanRelease(s2.level, Counter, HeldIn(s2.book)) => HeldIn(y.book) = Nothing
      BY <1>5, ReleaseFollows
    <3> HIDE DEF y
    <3>2. c0 = y
      BY <2>1 DEF y
    <3> QED BY <3>1, <3>2
  <2>2. CASE ~setting.reserve
    BY <1>5, <2>2, FollowsItself
  <2> QED BY <2>1, <2>2
<1> HIDE DEF c0
<1>7. CASE new # "CANCELED"
  <2>1. r = s2
    BY <1>7
  <2> HIDE DEF r
  <2> QED BY <1>1, <1>3, <1>5, <1>7, <2>1
<1>8. CASE new = "CANCELED"
  <2> DEFINE y == ReverseDeduction(c0)
  <2>1. /\ y \in Pair /\ Follows(c0, y) /\ y.book.sold = c0.book.sold /\ y.book.held = c0.book.held
        /\ HeldIn(y.book) = HeldIn(c0.book)
        /\ (c0.book.reversed \/ c0.book.sold = Nothing)
             => y.book.back = c0.book.back /\ y.book.reversed = c0.book.reversed
        /\ ~(c0.book.reversed \/ c0.book.sold = Nothing)
             => y.book.back = Plus(c0.book.back, c0.book.sold)
    BY <1>6, ReverseFollows
  <2> HIDE DEF y
  <2>2. r = y
    BY <1>8 DEF y
  <2>3. Follows(s, y)
    BY <1>5, <1>6, <2>1, FollowsOn
  <2>4. s2 = s1 /\ new # setting.deduct
    BY <1>2, <1>5, <1>8
  <2>5. old # "none" => s2 = s
    BY <1>3, <2>4
  <2> HIDE DEF r
  <2> QED BY <1>1, <1>3, <1>5, <1>6, <1>8, <2>1, <2>2, <2>3, <2>4, <2>5
<1> QED BY <1>7, <1>8

LEMMA PlusNothing ==
  ASSUME NEW q \in Quantities
  PROVE  Plus(Nothing, q) = q /\ Minus(q, Nothing) = q /\ Minus(Nothing, Nothing) = Nothing
         /\ Minus(q, q) = Nothing
<1>1. Nothing \in Quantities /\ \A g \in Goods : Nothing[g] = 0 /\ q[g] \in Nat
  BY NothingIsNothing DEF Quantities
<1>2. Plus(Nothing, q) = q
  BY <1>1 DEF Plus, Quantities
<1>3. Minus(q, Nothing) = q
  BY <1>1 DEF Minus, Quantities
<1>4. Minus(Nothing, Nothing) = Nothing
  BY <1>1 DEF Minus, Nothing
<1>5. Minus(q, q) = Nothing
  BY <1>1 DEF Minus, Nothing
<1> QED BY <1>2, <1>3, <1>4, <1>5

-----------------------------------------------------------------------------
(* The orders' part of the invariant.                                      *)

\* An order that is not a row has booked nothing; what no product takes, no order takes.
NoBook == [sold |-> Nothing, back |-> Nothing, held |-> Nothing,
           reversed |-> FALSE, released |-> FALSE]
Unsold == {g \in Goods : \A product \in Products : Uses[product][g] = 0}
Ordered(t, b) ==
  /\ t.status = "none" => b = NoBook
  /\ ~setting.reserve => b.held = Nothing
  /\ \A g \in Unsold : b.sold[g] = 0 /\ b.back[g] = 0
  /\ t.edits > 0 => With("edit")
AllOrdered == \A o \in Orders : Ordered(ticket[o], book[o])

\* An order took what its lines need, or nothing, ...
Serves(t, b) ==
  /\ b.sold = Nothing => b.back = Nothing
  /\ b.sold # Nothing => Minus(b.sold, b.back) = Needs(t.lines)
\* ... and only once.
Exact == setting.negative /\ setting.adjusts
Orderly == scene \cap {"reopen", "repay"} = {}
Served(t, b) ==
  /\ t.status # "CANCELED" => ~b.reversed
  /\ t.status # "CANCELED" /\ setting.deduct = "PAID" /\ ~t.paid => b.sold = Nothing
  /\ t.status # "CANCELED" /\ t.edits = 0 => b.back = Nothing /\ Serves(t, b)
  /\ t.status # "CANCELED" /\ Exact => Serves(t, b)
  /\ t.status = "CANCELED" /\ ~With("edit_cancel") => b.sold = b.back
AllServed == Orderly => \A o \in Orders : Served(ticket[o], book[o])

\* What a step of an order leaves behind.
OrderKeeps(o, t, s) ==
  /\ t \in Ticket /\ t.status # "none" /\ ticket[o].status # "CANCELED"
  /\ s \in Pair /\ Follows(Books(o), s)
  /\ Ordered(t, s.book)
  /\ Orderly => Served(t, s.book)
  /\ (t.status = "CANCELED" /\ setting.reserve /\ CanRelease(level, Counter, HeldBy(o)))
       => HeldIn(s.book) = Nothing

LEMMA NoBookIs ==
  /\ NoBook \in Book /\ ~NoBook.released /\ ~NoBook.reversed
  /\ NoBook.sold = Nothing /\ NoBook.back = Nothing /\ NoBook.held = Nothing
BY NothingIsNothing DEF NoBook, Book

LEMMA OrderIs ==
  ASSUME TypeOK, NEW o \in Orders
  PROVE  /\ ticket[o] \in Ticket /\ book[o] \in Book
         /\ Books(o) \in Pair /\ Books(o).level = level /\ Books(o).book = book[o]
         /\ HeldBy(o) = HeldIn(book[o])
         /\ setting \in Setting
         /\ setting.deduct \in {"PREPARING", "READY", "PAID"} /\ setting.deduct # "CANCELED"
<1>1. level \in Table /\ ticket[o] \in Ticket /\ book[o] \in Book
  BY DEF TypeOK, Table
<1>2. Books(o) \in Pair /\ Books(o).level = level /\ Books(o).book = book[o]
  BY <1>1 DEF Books, Pair
<1>3. setting \in Setting /\ setting.deduct \in {"PREPARING", "READY", "PAID"}
  BY SettingIs DEF TypeOK
<1> QED BY <1>1, <1>2, <1>3 DEF HeldBy, HeldIn

LEMMA TicketIs ==
  ASSUME NEW t \in Ticket
  PROVE  /\ t.paid \in BOOLEAN /\ t.lines \in [Products -> Nat] /\ t.edits \in Nat
         /\ Needs(t.lines) \in Quantities
         /\ \A g \in Unsold : Needs(t.lines)[g] = 0
         /\ t = [status |-> t.status, paid |-> t.paid, lines |-> t.lines, edits |-> t.edits]
BY NeedsIs DEF Ticket, Unsold

\* Nothing is sold of what no product takes.
LEMMA UnsoldStays ==
  ASSUME NEW a \in Quantities, NEW b \in Quantities, NEW g \in Unsold, a[g] = 0, b[g] = 0
  PROVE  Plus(a, b)[g] = 0
<1>1. g \in Goods
  BY DEF Unsold
<1> QED BY <1>1, PlusIs

LEMMA CreateKeeps ==
  ASSUME TypeOK, AllOrdered, AllServed, NEW o \in Orders, NEW basket \in Baskets, NEW status,
         StockCreate(o, basket, status)
  PROVE  \E t, s : Becomes(o, t, s) /\ OrderKeeps(o, t, s)
<1> DEFINE t == [ticket[o] EXCEPT !.status = status, !.lines = basket]
           need == Needs(basket)
           b == book[o]
           s == OnStatusChange(Books(o), "none", "PREPARING", need)
<1>1. /\ ticket[o].status = "none" /\ status \in {"PREPARING", "READY"}
      /\ Becomes(o, t, s)
  BY DEF StockCreate
<1>2. /\ ticket[o] \in Ticket /\ b \in Book /\ Books(o) \in Pair /\ Books(o).level = level
      /\ Books(o).book = b /\ setting \in Setting /\ setting.deduct # "CANCELED"
  BY OrderIs
<1>3. basket \in [Products -> Nat] /\ need \in Quantities /\ \A g \in Unsold : need[g] = 0
  BY GivenOrders, NeedsIs DEF Unsold
<1>4. /\ t \in Ticket /\ t.status = status /\ t.lines = basket
      /\ t.paid = ticket[o].paid /\ t.edits = ticket[o].edits
  BY <1>1, <1>2, <1>3 DEF Ticket
<1>5. /\ Ordered(ticket[o], b) /\ b = NoBook
  BY <1>1 DEF AllOrdered, Ordered
<1>6. /\ s \in Pair /\ Follows(Books(o), s)
      /\ ~setting.reserve => s.book.held = b.held
      /\ "PREPARING" # setting.deduct => s.book.sold = b.sold
      /\ "PREPARING" = setting.deduct => s.book.sold \in {b.sold, Plus(b.sold, need)}
      /\ s.book.back = b.back /\ s.book.reversed = b.reversed
  <2> HIDE DEF need, b
  <2>1. ~Books(o).book.released
    BY <1>2, <1>5, NoBookIs
  <2> QED BY <1>2, <1>3, <2>1, StatusFollows
<1> HIDE DEF t, s, need, b
<1>7. s.book.sold \in {Nothing, need} /\ s.book.back = Nothing /\ ~s.book.reversed
  BY <1>3, <1>5, <1>6, NoBookIs, PlusNothing
<1>8. Ordered(t, s.book)
  <2>1. \A g \in Unsold : s.book.sold[g] = 0 /\ s.book.back[g] = 0
    BY <1>3, <1>7, NothingIsNothing DEF Unsold
  <2> QED BY <1>1, <1>4, <1>5, <1>6, <2>1, NoBookIs DEF Ordered
<1>9. Served(t, s.book)
  <2>1. Serves(t, s.book)
    BY <1>3, <1>4, <1>7, PlusNothing DEF Serves, need
  <2>2. setting.deduct = "PAID" => s.book.sold = Nothing
    BY <1>5, <1>6, NoBookIs
  <2>3. t.status # "CANCELED"
    BY <1>1, <1>4
  <2> QED BY <1>7, <2>1, <2>2, <2>3 DEF Served
<1>10. OrderKeeps(o, t, s)
  BY <1>1, <1>4, <1>6, <1>8, <1>9 DEF OrderKeeps
<1> QED BY <1>1, <1>10

LEMMA CookedKeeps ==
  ASSUME TypeOK, AllOrdered, AllServed, NEW o \in Orders, StockCooked(o)
  PROVE  \E t, s : Becomes(o, t, s) /\ OrderKeeps(o, t, s)
<1> DEFINE t == [ticket[o] EXCEPT !.status = "READY"]
           b == book[o]
           s == Books(o)
<1>1. ticket[o].status = "PREPARING" /\ Becomes(o, t, s)
  BY DEF StockCooked
<1>2. /\ ticket[o] \in Ticket /\ b \in Book /\ s \in Pair /\ s.book = b
  BY OrderIs
<1>4. /\ t \in Ticket /\ t.status = "READY" /\ t.lines = ticket[o].lines
      /\ t.paid = ticket[o].paid /\ t.edits = ticket[o].edits
  BY <1>1, <1>2 DEF Ticket
<1>5. Ordered(ticket[o], b) /\ (Orderly => Served(ticket[o], b))
  BY DEF AllOrdered, AllServed
<1>6. Follows(Books(o), s)
  BY FollowsItself
<1> HIDE DEF t, s, b
<1>8. Ordered(t, s.book)
  BY <1>2, <1>4, <1>5 DEF Ordered
<1>9. Orderly => Served(t, s.book)
  BY <1>1, <1>2, <1>4, <1>5 DEF Served, Serves
<1>10. OrderKeeps(o, t, s)
  BY <1>1, <1>2, <1>4, <1>6, <1>8, <1>9 DEF OrderKeeps
<1> QED BY <1>1, <1>10

LEMMA SetStatusKeeps ==
  ASSUME TypeOK, AllOrdered, AllServed, NEW o \in Orders, NEW status,
         Only("reopen", status = setting.deduct /\ book[o].sold # Nothing),
         Only("edit_cancel", status = "CANCELED" /\ ticket[o].edits > 0),
         StockSetStatus(o, status)
  PROVE  \E t, s : Becomes(o, t, s) /\ OrderKeeps(o, t, s)
<1> DEFINE t == [ticket[o] EXCEPT !.status = status]
           old == ticket[o].status
           need == Needs(ticket[o].lines)
           b == book[o]
           s == OnStatusChange(Books(o), old, status, need)
<1>1. /\ old \in {"PREPARING", "READY"} /\ status \in {"PREPARING", "READY", "CANCELED"}
      /\ Becomes(o, t, s)
  BY DEF StockSetStatus
<1>2. /\ ticket[o] \in Ticket /\ b \in Book /\ Books(o) \in Pair /\ Books(o).level = level
      /\ Books(o).book = b /\ HeldBy(o) = HeldIn(b)
      /\ setting \in Setting /\ setting.deduct # "CANCELED"
      /\ setting.deduct \in {"PREPARING", "READY", "PAID"}
  BY OrderIs
<1>3. need \in Quantities /\ (\A g \in Unsold : need[g] = 0) /\ ticket[o].edits \in Nat
  BY <1>2, TicketIs
<1>4. /\ t \in Ticket /\ t.status = status /\ t.lines = ticket[o].lines
      /\ t.paid = ticket[o].paid /\ t.edits = ticket[o].edits
  BY <1>1, <1>2 DEF Ticket
<1>5. Ordered(ticket[o], b) /\ (Orderly => Served(ticket[o], b))
  BY DEF AllOrdered, AllServed
<1>6. /\ s \in Pair /\ Follows(Books(o), s)
      /\ ~setting.reserve => s.book.held = b.held
      /\ status # setting.deduct => s.book.sold = b.sold
      /\ status = setting.deduct => s.book.sold \in {b.sold, Plus(b.sold, need)}
      /\ status = setting.deduct /\ setting.negative => s.book.sold = Plus(b.sold, need)
      /\ (status # "CANCELED" \/ b.sold = Nothing \/ b.reversed)
                  => s.book.back = b.back /\ s.book.reversed = b.reversed
      /\ ~(status # "CANCELED" \/ b.sold = Nothing \/ b.reversed)
                  => s.book.back = Plus(b.back, b.sold)
      /\ status = "CANCELED" /\ setting.reserve /\ CanRelease(level, Counter, HeldIn(b))
                  => HeldIn(s.book) = Nothing
  <2> HIDE DEF need, b
  <2>1. old # "none"
    BY <1>1
  <2> QED BY <1>2, <1>3, <2>1, StatusFollows
<1>7. b.sold \in Quantities /\ b.back \in Quantities
  BY <1>2, BookIs
<1>8. /\ Orderly /\ status = setting.deduct => b.sold = Nothing
      /\ status = "CANCELED" /\ ~With("edit_cancel") => ticket[o].edits = 0
  BY <1>3 DEF Only, With, Orderly
<1> HIDE DEF t, s, need, b, old
<1>9. Ordered(t, s.book)
  <2>1. ASSUME NEW g \in Unsold PROVE s.book.sold[g] = 0 /\ s.book.back[g] = 0
    <3>1. need[g] = 0 /\ b.sold[g] = 0 /\ b.back[g] = 0
      BY <1>3, <1>5 DEF Ordered
    <3>2. Plus(b.sold, need)[g] = 0 /\ Plus(b.back, b.sold)[g] = 0
      BY <1>3, <1>7, <3>1, UnsoldStays
    <3>3. s.book.sold \in {b.sold, Plus(b.sold, need)} /\ s.book.back \in {b.back, Plus(b.back, b.sold)}
      BY <1>6
    <3> QED BY <3>1, <3>2, <3>3
  <2> QED BY <1>1, <1>4, <1>5, <1>6, <2>1 DEF Ordered
<1>10. ASSUME Orderly PROVE Served(t, s.book)
  <2>1. Served(ticket[o], b) /\ ~b.reversed
    BY <1>1, <1>5, <1>10 DEF Served, old
  <2>2. CASE status = "CANCELED"
    <3>1. ~With("edit_cancel") => b.back = Nothing
      BY <1>1, <1>8, <2>1, <2>2 DEF Served, old
    <3>2. ~With("edit_cancel") => s.book.sold = s.book.back
      BY <1>2, <1>6, <1>7, <2>1, <2>2, <3>1, PlusNothing
    <3> QED BY <1>4, <2>2, <3>2 DEF Served
  <2>3. CASE status # "CANCELED"
    <3>1. s.book.back = b.back /\ ~s.book.reversed
      BY <1>6, <2>1, <2>3
    <3>2. status = setting.deduct => b.sold = Nothing /\ s.book.sold \in {Nothing, need}
      BY <1>3, <1>6, <1>8, <1>10, PlusNothing
    <3>3. ticket[o].edits = 0 \/ Exact => Serves(ticket[o], b)
      BY <1>1, <2>1 DEF Served, old
    <3>4. ticket[o].edits = 0 => b.back = Nothing
      BY <1>1, <2>1 DEF Served, old
    <3>5. ticket[o].edits = 0 \/ Exact => Serves(t, s.book)
      <4>1. CASE status = setting.deduct
        <5>1. ticket[o].edits = 0 \/ Exact => s.book.back = Nothing
          BY <3>1, <3>2, <3>3, <4>1 DEF Serves
        <5>2. s.book.sold # Nothing => s.book.sold = need /\ Minus(need, Nothing) = need
          BY <1>3, <3>2, <4>1, PlusNothing
        <5> QED BY <1>4, <5>1, <5>2 DEF Serves, need
      <4>2. CASE status # setting.deduct
        BY <1>4, <1>6, <3>1, <3>3, <4>2 DEF Serves
      <4> QED BY <4>1, <4>2
    <3>6. setting.deduct = "PAID" /\ ~t.paid => s.book.sold = Nothing
      BY <1>1, <1>4, <1>6, <2>1 DEF Served, old
    <3> QED BY <1>4, <2>3, <3>1, <3>4, <3>5, <3>6 DEF Served
  <2> QED BY <2>2, <2>3
<1>11. OrderKeeps(o, t, s)
  BY <1>1, <1>2, <1>4, <1>6, <1>9, <1>10 DEF OrderKeeps, old
<1> QED BY <1>1, <1>11

LEMMA PayKeeps ==
  ASSUME TypeOK, AllOrdered, AllServed, NEW o \in Orders, StockPay(o)
  PROVE  \E t, s : Becomes(o, t, s) /\ OrderKeeps(o, t, s)
<1> DEFINE t == [ticket[o] EXCEPT !.paid = TRUE]
           old == ticket[o].status
           need == Needs(ticket[o].lines)
           b == book[o]
           r == OnStatusChange(Books(o), old, "PAID", need)
           s == IF setting.deduct = "PAID" THEN r ELSE Books(o)
<1>1. old \in {"PREPARING", "READY"} /\ ~ticket[o].paid /\ Becomes(o, t, s)
  BY DEF StockPay
<1>2. /\ ticket[o] \in Ticket /\ b \in Book /\ Books(o) \in Pair /\ Books(o).level = level
      /\ Books(o).book = b /\ setting \in Setting
  BY OrderIs
<1>3. need \in Quantities /\ (\A g \in Unsold : need[g] = 0) /\ ticket[o].edits \in Nat
  BY <1>2, TicketIs
<1>4. /\ t \in Ticket /\ t.status = old /\ t.lines = ticket[o].lines
      /\ t.paid /\ t.edits = ticket[o].edits
  BY <1>1, <1>2 DEF Ticket
<1>5. Ordered(ticket[o], b) /\ (Orderly => Served(ticket[o], b))
  BY DEF AllOrdered, AllServed
<1>6. /\ s \in Pair /\ Follows(Books(o), s)
      /\ ~setting.reserve => s.book.held = b.held
      /\ setting.deduct # "PAID" => s.book.sold = b.sold
      /\ setting.deduct = "PAID" => s.book.sold \in {b.sold, Plus(b.sold, need)}
      /\ s.book.back = b.back /\ s.book.reversed = b.reversed
  <2>1. CASE setting.deduct # "PAID"
    BY <1>2, <2>1, FollowsItself
  <2>2. CASE setting.deduct = "PAID"
    <3>1. s = r
      BY <2>2
    <3> HIDE DEF need, b, s
    <3>2. old # "none"
      BY <1>1
    <3>3. /\ r \in Pair /\ Follows(Books(o), r)
          /\ ~setting.reserve => r.book.held = b.held
          /\ "PAID" = setting.deduct => r.book.sold \in {b.sold, Plus(b.sold, need)}
          /\ r.book.back = b.back /\ r.book.reversed = b.reversed
      BY <1>2, <1>3, <3>2, StatusFollows
    <3> QED BY <2>2, <3>1, <3>3
  <2> QED BY <2>1, <2>2
<1>7. b.sold \in Quantities /\ b.back \in Quantities
  BY <1>2, BookIs
<1>8. Orderly /\ setting.deduct = "PAID" => b.sold = Nothing
  BY <1>1, <1>5 DEF Served
<1> HIDE DEF t, s, need, b, old, r
<1>9. Ordered(t, s.book)
  <2>1. ASSUME NEW g \in Unsold PROVE s.book.sold[g] = 0 /\ s.book.back[g] = 0
    <3>1. need[g] = 0 /\ b.sold[g] = 0 /\ b.back[g] = 0
      BY <1>3, <1>5 DEF Ordered
    <3>2. Plus(b.sold, need)[g] = 0
      BY <1>3, <1>7, <3>1, UnsoldStays
    <3>3. s.book.sold \in {b.sold, Plus(b.sold, need)} /\ s.book.back = b.back
      BY <1>6
    <3> QED BY <3>1, <3>2, <3>3
  <2> QED BY <1>1, <1>4, <1>5, <1>6, <2>1 DEF Ordered
<1>10. ASSUME Orderly PROVE Served(t, s.book)
  <2>1. Served(ticket[o], b) /\ ~b.reversed /\ ticket[o].status # "CANCELED" /\ t.status # "CANCELED"
    BY <1>1, <1>4, <1>5, <1>10 DEF Served, old
  <2>2. s.book.back = b.back /\ ~s.book.reversed
    BY <1>6, <2>1
  <2>3. setting.deduct = "PAID" => b.sold = Nothing /\ s.book.sold \in {Nothing, need}
    BY <1>3, <1>6, <1>8, <1>10, PlusNothing
  <2>4. /\ ticket[o].edits = 0 \/ Exact => Serves(ticket[o], b)
        /\ ticket[o].edits = 0 => b.back = Nothing
    BY <2>1 DEF Served
  <2>5. ticket[o].edits = 0 \/ Exact => Serves(t, s.book)
    <3>1. CASE setting.deduct = "PAID"
      <4>1. ticket[o].edits = 0 \/ Exact => s.book.back = Nothing
        BY <2>2, <2>3, <2>4, <3>1 DEF Serves
      <4>2. s.book.sold # Nothing => s.book.sold = need /\ Minus(need, Nothing) = need
        BY <1>3, <2>3, <3>1, PlusNothing
      <4> QED BY <1>4, <4>1, <4>2 DEF Serves, need
    <3>2. CASE setting.deduct # "PAID"
      BY <1>4, <1>6, <2>2, <2>4, <3>2 DEF Serves
    <3> QED BY <3>1, <3>2
  <2> QED BY <1>4, <2>1, <2>2, <2>4, <2>5 DEF Served
<1>11. OrderKeeps(o, t, s)
  BY <1>1, <1>4, <1>6, <1>9, <1>10 DEF OrderKeeps, old
<1> QED BY <1>1, <1>11

LEMMA UnpayKeeps ==
  ASSUME TypeOK, AllOrdered, NEW o \in Orders, With("repay"), StockUnpay(o)
  PROVE  \E t, s : Becomes(o, t, s) /\ OrderKeeps(o, t, s)
<1> DEFINE t == [ticket[o] EXCEPT !.paid = FALSE]
           b == book[o]
           r == ReverseDeduction(Books(o))
           s == IF setting.deduct = "PAID" THEN r ELSE Books(o)
<1>1. ticket[o].status \in {"PREPARING", "READY"} /\ Becomes(o, t, s)
  BY DEF StockUnpay
<1>2. /\ ticket[o] \in Ticket /\ b \in Book /\ Books(o) \in Pair /\ Books(o).level = level
      /\ Books(o).book = b
  BY OrderIs
<1>4. /\ t \in Ticket /\ t.status = ticket[o].status /\ t.edits = ticket[o].edits
  BY <1>1, <1>2 DEF Ticket
<1>5. Ordered(ticket[o], b)
  BY DEF AllOrdered
<1>6. /\ s \in Pair /\ Follows(Books(o), s) /\ s.book.held = b.held /\ s.book.sold = b.sold
      /\ s.book.back \in {b.back, Plus(b.back, b.sold)}
  <2>1. CASE setting.deduct # "PAID"
    BY <1>2, <2>1, FollowsItself
  <2>2. CASE setting.deduct = "PAID"
    <3>1. s = r
      BY <2>2
    <3> HIDE DEF b, s
    <3>3. /\ r \in Pair /\ Follows(Books(o), r) /\ r.book.held = b.held /\ r.book.sold = b.sold
          /\ r.book.back \in {b.back, Plus(b.back, b.sold)}
      BY <1>2, ReverseFollows
    <3> QED BY <3>1, <3>3
  <2> QED BY <2>1, <2>2
<1>7. b.sold \in Quantities /\ b.back \in Quantities
  BY <1>2, BookIs
<1> HIDE DEF t, s, b, r
<1>9. Ordered(t, s.book)
  <2>1. ASSUME NEW g \in Unsold PROVE s.book.sold[g] = 0 /\ s.book.back[g] = 0
    <3>1. b.sold[g] = 0 /\ b.back[g] = 0
      BY <1>5 DEF Ordered
    <3>2. Plus(b.back, b.sold)[g] = 0
      BY <1>7, <3>1, UnsoldStays
    <3> QED BY <1>6, <3>1, <3>2
  <2> QED BY <1>1, <1>4, <1>5, <1>6, <2>1 DEF Ordered
<1>10. ~Orderly
  BY DEF Orderly, With
<1>11. OrderKeeps(o, t, s)
  BY <1>1, <1>4, <1>6, <1>9, <1>10 DEF OrderKeeps
<1> QED BY <1>1, <1>11

\* What an order that serves its lines takes when one of them is edited.
LEMMA EditServes ==
  ASSUME NEW t \in Ticket, NEW b \in Book, NEW c \in Book, NEW u \in Ticket,
         NEW product \in Products, NEW n \in Nat,
         u.lines = [t.lines EXCEPT ![product] = n],
         Serves(t, b), b.sold # Nothing,
         LET delta == n - t.lines[product] IN
           IF delta > 0 THEN c.sold = Plus(b.sold, Moved(product, delta)) /\ c.back = b.back
                        ELSE c.back = Plus(b.back, Moved(product, delta)) /\ c.sold = b.sold
  PROVE  Serves(u, c)
<1> DEFINE delta == n - t.lines[product]
           need == Needs(t.lines)
           more == Needs(u.lines)
           m == Moved(product, delta)
<1>1. t.lines \in [Products -> Nat] /\ u.lines \in [Products -> Nat] /\ delta \in Int
  BY TicketIs
<1>2. /\ need \in Quantities /\ more \in Quantities
      /\ b.sold \in Quantities /\ b.back \in Quantities /\ c.sold \in Quantities /\ c.back \in Quantities
  BY TicketIs, BookIs
<1>3. /\ m \in Quantities
      /\ \A g \in Goods : /\ Uses[product][g] \in Nat
                          /\ delta > 0 => m[g] = delta * Uses[product][g]
                          /\ ~(delta > 0) => m[g] = -(delta * Uses[product][g])
  BY <1>1, MovedIs
<1>4. \A g \in Goods : more[g] = need[g] + delta * Uses[product][g]
  BY <1>1, NeedsChange
<1>5. /\ delta > 0 => c.sold = Plus(b.sold, m) /\ c.back = b.back
      /\ ~(delta > 0) => c.back = Plus(b.back, m) /\ c.sold = b.sold
  OBVIOUS
<1>6. Minus(b.sold, b.back) = need
  BY DEF Serves
<1> HIDE DEF delta, need, more, m
<1>7. ASSUME NEW g \in Goods
      PROVE  c.sold[g] - c.back[g] = more[g] /\ c.sold[g] >= b.sold[g]
  <2>1. /\ need[g] \in Int /\ more[g] \in Int /\ b.sold[g] \in Nat /\ b.back[g] \in Nat /\ m[g] \in Nat
        /\ Plus(b.sold, m)[g] = b.sold[g] + m[g] /\ Plus(b.back, m)[g] = b.back[g] + m[g]
    BY <1>2, <1>3, PlusIs DEF Quantities
  <2>2. b.sold[g] - b.back[g] = need[g]
    BY <1>2, <1>6, MinusIs, QuantitiesAreAmounts
  <2>3. delta * Uses[product][g] \in Int
    BY <1>1, <1>3, Times
  <2> DEFINE x == delta * Uses[product][g]
  <2>4. x \in Int /\ more[g] = need[g] + x /\ (delta > 0 => m[g] = x) /\ (~(delta > 0) => m[g] = -x)
    BY <1>3, <1>4, <2>3
  <2> HIDE DEF x
  <2> QED BY <1>5, <2>1, <2>2, <2>4
<1>8. Minus(c.sold, c.back) = more
  <2>1. Minus(c.sold, c.back) \in Amount /\ \A g \in Goods : Minus(c.sold, c.back)[g] = more[g]
    BY <1>2, <1>7, MinusIs, QuantitiesAreAmounts
  <2> QED BY <1>2, <2>1, SameAmount, QuantitiesAreAmounts
<1>9. c.sold # Nothing
  <2>1. \E g \in Goods : b.sold[g] # 0
    BY <1>2, SameQuantities, NothingIsNothing
  <2>2. PICK g \in Goods : b.sold[g] # 0
    BY <2>1
  <2>3. b.sold[g] \in Nat /\ c.sold[g] \in Nat
    BY <1>2 DEF Quantities
  <2>4. c.sold[g] # 0
    BY <1>7, <2>2, <2>3
  <2> QED BY <2>4, NothingIsNothing
<1> QED BY <1>8, <1>9 DEF Serves, more

LEMMA EditKeeps ==
  ASSUME TypeOK, AllOrdered, AllServed, NEW o \in Orders, With("edit"),
         NEW product \in Products, NEW n \in 0 .. 2, StockEdit(o, product, n)
  PROVE  \E t, s : Becomes(o, t, s) /\ OrderKeeps(o, t, s)
<1> DEFINE old == ticket[o]
           b == book[o]
           lines == [old.lines EXCEPT ![product] = n]
           delta == n - old.lines[product]
           Next_(status) == IF \A p \in Products : lines[p] = 0 THEN "deleted" ELSE status
           t(status) == [old EXCEPT !.lines = lines, !.edits = @ + 1, !.status = Next_(status)]
           s == AdjustForItemChange(Books(o), product, delta)
<1>1. /\ old.status = "PREPARING" /\ ~old.paid
      /\ \E status \in {"PREPARING", "READY"} : Becomes(o, t(status), s)
  BY DEF StockEdit
<1>2. PICK status \in {"PREPARING", "READY"} : Becomes(o, t(status), s)
  BY <1>1
<1>3. /\ old \in Ticket /\ b \in Book /\ Books(o) \in Pair /\ Books(o).level = level
      /\ Books(o).book = b
  BY OrderIs
<1>4. old.lines \in [Products -> Nat] /\ old.edits \in Nat
  BY <1>3, TicketIs
<1>5. lines \in [Products -> Nat] /\ delta \in Int
  BY <1>4
<1> DEFINE u == t(status)
<1>6. /\ u \in Ticket /\ u.status \in {"PREPARING", "READY", "deleted"} /\ u.lines = lines
      /\ u.paid = old.paid /\ u.edits = old.edits + 1
  <2> HIDE DEF lines
  <2>1. Next_(status) \in {"PREPARING", "READY", "deleted"}
    OBVIOUS
  <2> DEFINE x == Next_(status)
  <2>2. u = [old EXCEPT !.lines = lines, !.edits = @ + 1, !.status = x]
    OBVIOUS
  <2> HIDE DEF u, x, Next_
  <2>3. u = [status |-> x, paid |-> old.paid, lines |-> lines, edits |-> old.edits + 1]
    BY <1>3, <2>2 DEF Ticket
  <2>4. x \in {"PREPARING", "READY", "deleted"} /\ old.edits + 1 \in Nat /\ old.paid \in BOOLEAN
    BY <1>3, <1>4, <2>1, TicketIs DEF x
  <2> QED BY <1>5, <2>3, <2>4 DEF Ticket
<1>7. Ordered(old, b) /\ (Orderly => Served(old, b))
  BY DEF AllOrdered, AllServed
<1>8. /\ s \in Pair /\ Follows(Books(o), s)
      /\ s.book.held = b.held /\ s.book.reversed = b.reversed
      /\ ~setting.adjusts \/ b.sold = Nothing => s.book.sold = b.sold /\ s.book.back = b.back
      /\ setting.adjusts /\ b.sold # Nothing =>
           \E got \in Quantities :
             /\ \A g \in Goods : got[g] \in {0, Moved(product, delta)[g]}
             /\ setting.negative \/ ~(delta > 0) => got = Moved(product, delta)
             /\ delta > 0 => s.book.sold = Plus(b.sold, got) /\ s.book.back = b.back
             /\ ~(delta > 0) => s.book.back = Plus(b.back, got) /\ s.book.sold = b.sold
  <2> HIDE DEF delta
  <2>1. /\ s \in Pair /\ Follows(Books(o), s)
        /\ s.book.held = Books(o).book.held /\ s.book.reversed = Books(o).book.reversed
        /\ ~setting.adjusts \/ Books(o).book.sold = Nothing => s = Books(o)
        /\ setting.adjusts /\ Books(o).book.sold # Nothing =>
             \E got \in Quantities :
               /\ \A g \in Goods : got[g] \in {0, Moved(product, delta)[g]}
               /\ setting.negative \/ ~(delta > 0) => got = Moved(product, delta)
               /\ delta > 0 => /\ s.book.sold = Plus(Books(o).book.sold, got)
                              /\ s.book.back = Books(o).book.back
               /\ ~(delta > 0) => /\ s.book.back = Plus(Books(o).book.back, got)
                                 /\ s.book.sold = Books(o).book.sold
    BY <1>3, <1>5, AdjustFollows
  <2> HIDE DEF b, s
  <2> QED BY <1>3, <2>1
<1>9. b.sold \in Quantities /\ b.back \in Quantities /\ s.book \in Book
  BY <1>3, <1>8, BookIs, PairIs
<1>10. Moved(product, delta) \in Quantities /\ \A g \in Unsold : Moved(product, delta)[g] = 0
  <2>1. \A g \in Unsold : g \in Goods /\ Uses[product][g] = 0
    BY DEF Unsold
  <2> HIDE DEF delta
  <2>2. delta * 0 = 0
    BY <1>5
  <2> QED BY <1>5, <2>1, <2>2, MovedIs
<1> HIDE DEF s
<1>11. ASSUME NEW g \in Unsold PROVE s.book.sold[g] = 0 /\ s.book.back[g] = 0
  <2>1. b.sold[g] = 0 /\ b.back[g] = 0 /\ g \in Goods
    BY <1>7 DEF Ordered, Unsold
  <2>2. CASE ~setting.adjusts \/ b.sold = Nothing
    BY <1>8, <2>1, <2>2, NothingIsNothing
  <2>3. CASE setting.adjusts /\ b.sold # Nothing
    <3> HIDE DEF delta, b
    <3>1. PICK got \in Quantities :
             /\ \A h \in Goods : got[h] \in {0, Moved(product, delta)[h]}
             /\ delta > 0 => s.book.sold = Plus(b.sold, got) /\ s.book.back = b.back
             /\ ~(delta > 0) => s.book.back = Plus(b.back, got) /\ s.book.sold = b.sold
      BY <1>8, <2>3
    <3>2. got[g] = 0
      BY <1>10, <2>1, <3>1
    <3>3. Plus(b.sold, got)[g] = 0 /\ Plus(b.back, got)[g] = 0
      BY <1>9, <2>1, <3>2, UnsoldStays
    <3> QED BY <2>1, <3>1, <3>3
  <2> QED BY <2>2, <2>3
<1> HIDE DEF u, b
<1>12. Ordered(u, s.book)
  BY <1>6, <1>7, <1>8, <1>11 DEF Ordered
<1>13. ASSUME Orderly PROVE Served(u, s.book)
  <2>1. Served(old, b) /\ ~b.reversed /\ (Exact => Serves(old, b))
        /\ (setting.deduct = "PAID" => b.sold = Nothing)
    BY <1>1, <1>7, <1>13 DEF Served
  <2>2. Exact => Serves(u, s.book)
    <3>1. CASE b.sold = Nothing
      BY <1>8, <2>1, <3>1 DEF Serves
    <3>2. CASE b.sold # Nothing
      <4>1. ASSUME Exact PROVE Serves(u, s.book)
        <5> DEFINE c == s.book
        <5>1. IF delta > 0 THEN c.sold = Plus(b.sold, Moved(product, delta)) /\ c.back = b.back
                        ELSE c.back = Plus(b.back, Moved(product, delta)) /\ c.sold = b.sold
          <6> HIDE DEF delta
          <6> QED BY <1>8, <3>2, <4>1 DEF Exact
        <5>2. u.lines = [old.lines EXCEPT ![product] = n] /\ n \in Nat
          BY <1>6
        <5>3. Serves(old, b) /\ c \in Book
          BY <1>9, <2>1, <4>1
        <5> HIDE DEF c, old
        <5>4. old \in Ticket /\ b \in Book /\ u \in Ticket
          BY <1>3, <1>6
        <5>5. Serves(u, c)
          BY <3>2, <5>1, <5>2, <5>3, <5>4, EditServes DEF delta
        <5> QED BY <5>5 DEF c
      <4> QED BY <4>1
    <3> QED BY <3>1, <3>2
  <2>3. u.edits # 0 /\ u.status # "CANCELED"
    BY <1>4, <1>6
  <2>4. ~s.book.reversed /\ (setting.deduct = "PAID" => s.book.sold = Nothing)
    BY <1>8, <2>1
  <2> QED BY <2>2, <2>3, <2>4 DEF Served
<1>14. OrderKeeps(o, u, s)
  BY <1>1, <1>6, <1>8, <1>12, <1>13 DEF OrderKeeps
<1>15. Becomes(o, u, s)
  BY <1>2 DEF u, s
<1> QED BY <1>14, <1>15

\* A step of the orders' documents is one of these.
LEMMA OrderStepKeeps ==
  ASSUME TypeOK, AllOrdered, AllServed, OrderStep
  PROVE  \E o \in Orders : \E t, s : Becomes(o, t, s) /\ OrderKeeps(o, t, s)
<1>1. ASSUME NEW o \in Orders, NEW basket \in Baskets, NEW status \in {"PREPARING", "READY"},
             StockCreate(o, basket, status)
      PROVE  \E t, s : Becomes(o, t, s) /\ OrderKeeps(o, t, s)
  BY <1>1, CreateKeeps
<1>2. ASSUME NEW o \in Orders, NEW status \in {"PREPARING", "READY", "CANCELED"},
             Only("reopen", status = setting.deduct /\ book[o].sold # Nothing),
             Only("edit_cancel", status = "CANCELED" /\ ticket[o].edits > 0),
             StockSetStatus(o, status)
      PROVE  \E t, s : Becomes(o, t, s) /\ OrderKeeps(o, t, s)
  BY <1>2, SetStatusKeeps
<1>3. ASSUME NEW o \in Orders, StockCooked(o)
      PROVE  \E t, s : Becomes(o, t, s) /\ OrderKeeps(o, t, s)
  BY <1>3, CookedKeeps
<1>4. ASSUME NEW o \in Orders, StockPay(o)
      PROVE  \E t, s : Becomes(o, t, s) /\ OrderKeeps(o, t, s)
  BY <1>4, PayKeeps
<1>5. ASSUME NEW o \in Orders, With("repay"), StockUnpay(o)
      PROVE  \E t, s : Becomes(o, t, s) /\ OrderKeeps(o, t, s)
  BY <1>5, UnpayKeeps
<1>6. ASSUME NEW o \in Orders, With("edit"), NEW product \in Products, NEW n \in 0 .. 2,
             StockEdit(o, product, n)
      PROVE  \E t, s : Becomes(o, t, s) /\ OrderKeeps(o, t, s)
  BY <1>6, EditKeeps
<1> QED BY <1>1, <1>2, <1>3, <1>4, <1>5, <1>6 DEF OrderStep

-----------------------------------------------------------------------------
(* Batches.                                                                *)

\* A set of bounded natural numbers that is not empty has a least member.
LEMMA LeastNat ==
  ASSUME NEW k \in Nat, NEW Bad, Bad \subseteq 0 .. k, Bad # {}
  PROVE  \E m \in Bad : \A j \in Bad : m <= j
<1> DEFINE S == 1 .. k
           T == {1 .. m : m \in Bad}
<1>1. T \subseteq SUBSET S /\ T # {}
  <2>1. \A m \in Bad : m \in Nat /\ m <= k
    OBVIOUS
  <2>2. \A m \in Bad : 1 .. m \subseteq S
    BY <2>1
  <2> QED BY <2>2
<1>2. IsFiniteSet(S)
  BY FS_Interval
<1>3. PICK t \in T : \A u \in T : u \subseteq t => u = t
  <2> HIDE DEF T, S
  <2> QED BY <1>1, <1>2, Minimal
<1>4. PICK m \in Bad : t = 1 .. m
  OBVIOUS
<1>5. ASSUME NEW j \in Bad, j < m PROVE FALSE
  <2>1. 1 .. j \in T /\ m \in Nat /\ j \in Nat
    OBVIOUS
  <2>2. 1 .. j \subseteq 1 .. m /\ m \in 1 .. m /\ m \notin 1 .. j
    BY <1>5, <2>1
  <2> QED BY <1>3, <1>4, <2>1, <2>2
<1>6. \A j \in Bad : j \in Nat /\ m \in Nat
  OBVIOUS
<1> QED BY <1>5, <1>6

\* The numbers to m + 1 are those to m, and m + 1.
LEMMA Prefix ==
  ASSUME NEW k \in Int, NEW m \in Nat
  PROVE  /\ IsFiniteSet(k + 1 .. k + m) /\ k + 1 .. k + (m + 1) = (k + 1 .. k + m) \cup {k + (m + 1)}
         /\ k + (m + 1) \notin k + 1 .. k + m
<1>1. k + 1 \in Int /\ k + m \in Int
  OBVIOUS
<1>2. IsFiniteSet(k + 1 .. k + m)
  <2> DEFINE x == k + 1
             y == k + m
  <2> HIDE DEF x, y
  <2>1. IsFiniteSet(x .. y)
    BY <1>1, FS_Interval DEF x, y
  <2> QED BY <2>1 DEF x, y
<1>3. k + 1 .. k + (m + 1) = (k + 1 .. k + m) \cup {k + (m + 1)}
  OBVIOUS
<1>4. k + (m + 1) \notin k + 1 .. k + m
  OBVIOUS
<1> QED BY <1>2, <1>3, <1>4

\* A sum whose indices are shifted.
LEMMA SumShifts ==
  ASSUME NEW k \in Nat, NEW n \in Nat, NEW f, NEW g,
         \A j \in 1 .. n : f[j] \in Int /\ g[k + j] = f[j]
  PROVE  SumFunctionOnSet(g, k + 1 .. k + n) = SumFunctionOnSet(f, 1 .. n)
<1> DEFINE Bad == {m \in 0 .. n : SumFunctionOnSet(g, k + 1 .. k + m) # SumFunctionOnSet(f, 1 .. m)}
<1>1. SUFFICES ASSUME Bad # {} PROVE FALSE
  OBVIOUS
<1>2. PICK m \in Bad : \A j \in Bad : m <= j
  <2>1. Bad \subseteq 0 .. n
    OBVIOUS
  <2> HIDE DEF Bad
  <2> QED BY <1>1, <2>1, LeastNat
<1>3. m \in 0 .. n /\ SumFunctionOnSet(g, k + 1 .. k + m) # SumFunctionOnSet(f, 1 .. m)
  OBVIOUS
<1>4. m # 0
  <2>1. k + 1 .. k + 0 = {} /\ 1 .. 0 = {}
    OBVIOUS
  <2> QED BY <1>3, <2>1, SumOfNone
<1> DEFINE i == m - 1
<1>5. i \in Nat /\ i \in 0 .. n /\ m = i + 1 /\ i \notin Bad
  BY <1>2, <1>3, <1>4
<1>6. SumFunctionOnSet(g, k + 1 .. k + i) = SumFunctionOnSet(f, 1 .. i)
  BY <1>5
<1> HIDE DEF i, Bad
<1>7. /\ IsFiniteSet(k + 1 .. k + i) /\ k + 1 .. k + m = (k + 1 .. k + i) \cup {k + m}
      /\ k + m \notin k + 1 .. k + i
  <2>1. k \in Int
    OBVIOUS
  <2> QED BY <1>5, <2>1, Prefix
<1>8. IsFiniteSet(1 .. i) /\ 1 .. m = (1 .. i) \cup {m} /\ m \notin 1 .. i
  <2>1. IsFiniteSet(1 .. i)
    BY <1>5, FS_Interval
  <2>2. 1 .. m = (1 .. i) \cup {m} /\ m \notin 1 .. i
    BY <1>5
  <2> QED BY <2>1, <2>2
<1>9. \A j \in 1 .. m : f[j] \in Int /\ g[k + j] = f[j]
  BY <1>3
<1>10. \A x \in (k + 1 .. k + i) \cup {k + m} : g[x] \in Int
  <2>1. ASSUME NEW x \in k + 1 .. k + m PROVE g[x] \in Int
    <3>1. x - k \in 1 .. m /\ k + (x - k) = x
      BY <1>3
    <3> QED BY <1>9, <3>1
  <2> QED BY <1>7, <2>1
<1>11. \A x \in (1 .. i) \cup {m} : f[x] \in Int
  BY <1>8, <1>9
<1>12. SumFunctionOnSet(g, k + 1 .. k + m) = g[k + m] + SumFunctionOnSet(g, k + 1 .. k + i)
  BY <1>7, <1>10, SumGains
<1>13. SumFunctionOnSet(f, 1 .. m) = f[m] + SumFunctionOnSet(f, 1 .. i)
  BY <1>8, <1>11, SumGains
<1>14. g[k + m] = f[m]
  BY <1>3, <1>4, <1>9
<1> QED BY <1>3, <1>6, <1>12, <1>13, <1>14

\* The batches have the numbers 1, 2, 3, ...
Batches(b) == \E n \in 0 .. NumBatches : b \in [1 .. n -> Batch]
\* Batches are only added; they keep their good and place.
Grown(b, c) ==
  /\ DOMAIN b \subseteq DOMAIN c
  /\ \A i \in DOMAIN b : c[i].good = b[i].good /\ c[i].place = b[i].place

LEMMA BatchesAre ==
  ASSUME NEW b, Batches(b)
  PROVE  /\ DOMAIN b = 1 .. Cardinality(DOMAIN b) /\ Cardinality(DOMAIN b) \in 0 .. NumBatches
         /\ IsFiniteSet(DOMAIN b) /\ DOMAIN b \subseteq BatchIds
         /\ \A i \in DOMAIN b : /\ b[i] \in Batch /\ b[i].good \in Tracked
                                /\ b[i].place \in Places /\ b[i].qty \in Nat
                                /\ b[i] = [good |-> b[i].good, place |-> b[i].place, qty |-> b[i].qty]
         /\ b = [i \in DOMAIN b |-> b[i]]
<1>1. PICK n \in 0 .. NumBatches : b \in [1 .. n -> Batch]
  BY DEF Batches
<1>2. DOMAIN b = 1 .. n /\ \A i \in DOMAIN b : b[i] \in Batch
  BY <1>1
<1>3. n \in Nat /\ NumBatches \in Nat
  BY GivenBatches
<1>4. Cardinality(1 .. n) = n /\ IsFiniteSet(1 .. n)
  BY <1>3, FS_Interval
<1>5. 1 .. n \subseteq BatchIds
  BY <1>3 DEF BatchIds
<1>6. \A i \in DOMAIN b : /\ b[i].good \in Tracked
                          /\ b[i].place \in Places /\ b[i].qty \in Nat
                          /\ b[i] = [good |-> b[i].good, place |-> b[i].place, qty |-> b[i].qty]
  BY <1>2 DEF Batch
<1>7. b = [i \in DOMAIN b |-> b[i]]
  BY <1>1
<1> QED BY <1>1, <1>2, <1>4, <1>5, <1>6, <1>7

LEMMA LyingIs ==
  ASSUME NEW b, Batches(b), NEW g, NEW p
  PROVE  /\ Batched(b, g, p) = SumFunctionOnSet(Lying(b, g, p), DOMAIN b)
         /\ \A i \in DOMAIN b : /\ Lying(b, g, p)[i] \in Nat
                                /\ Lying(b, g, p)[i] = IF b[i].good = g /\ b[i].place = p
                                                         THEN b[i].qty ELSE 0
         /\ Batched(b, g, p) \in Nat
<1> DEFINE f == Lying(b, g, p)
<1>1. DOMAIN f = DOMAIN b
  BY DEF Lying
<1>2. \A i \in DOMAIN b : f[i] = IF b[i].good = g /\ b[i].place = p THEN b[i].qty ELSE 0
  BY DEF Lying
<1>3. \A i \in DOMAIN b : f[i] \in Nat
  BY <1>2, BatchesAre
<1>4. Batched(b, g, p) = SumFunctionOnSet(f, DOMAIN b)
  BY <1>1 DEF Batched, SumFunction
<1> HIDE DEF f
<1>5. SumFunctionOnSet(f, DOMAIN b) \in Nat
  BY <1>3, BatchesAre, SumIsNat
<1> QED BY <1>2, <1>3, <1>4, <1>5 DEF f

LEMMA NewBatchIs ==
  ASSUME NEW b, Batches(b), HasRoom(b), NEW g \in Tracked, NEW p \in Places, NEW n \in Nat
  PROVE  /\ Batches(NewBatch(b, g, p, n)) /\ Grown(b, NewBatch(b, g, p, n))
         /\ \A h, r : Batched(NewBatch(b, g, p, n), h, r)
                        = Batched(b, h, r) + (IF h = g /\ r = p THEN n ELSE 0)
<1> DEFINE k == Cardinality(DOMAIN b)
           m == k + 1
           c == NewBatch(b, g, p, n)
           row == [good |-> g, place |-> p, qty |-> n]
<1>1. /\ DOMAIN b = 1 .. k /\ k \in 0 .. NumBatches /\ IsFiniteSet(DOMAIN b)
      /\ \A i \in DOMAIN b : b[i] \in Batch
  BY BatchesAre
<1>2. NumBatches \in Nat
  BY GivenBatches
<1>3. m \in 0 .. NumBatches
  BY <1>1, <1>2 DEF HasRoom, NextBatch, BatchIds
<1>4. c = [i \in DOMAIN b \cup {m} |-> IF i \in DOMAIN b THEN b[i] ELSE row]
  BY DEF NewBatch, NextBatch
<1>5. DOMAIN b \cup {m} = 1 .. m /\ m \notin DOMAIN b
  <2> HIDE DEF k
  <2> QED BY <1>1
<1>6. row \in Batch
  BY DEF Batch
<1>7. c \in [1 .. m -> Batch]
  <2> HIDE DEF row, m
  <2> QED BY <1>1, <1>4, <1>5, <1>6
<1>8. Batches(c)
  BY <1>3, <1>7 DEF Batches
<1>9. /\ DOMAIN c = DOMAIN b \cup {m} /\ (\A i \in DOMAIN b : c[i] = b[i]) /\ c[m] = row
  <2> HIDE DEF row
  <2> QED BY <1>4, <1>5
<1>10. Grown(b, c)
  BY <1>9 DEF Grown
<1>11. ASSUME NEW h, NEW r
       PROVE  Batched(c, h, r) = Batched(b, h, r) + (IF h = g /\ r = p THEN n ELSE 0)
  <2> DEFINE e == Lying(b, h, r)
             f == Lying(c, h, r)
  <2> HIDE DEF c, m
  <2>1. /\ Batched(b, h, r) = SumFunctionOnSet(e, DOMAIN b) /\ Batched(b, h, r) \in Nat
        /\ \A i \in DOMAIN b : e[i] = IF b[i].good = h /\ b[i].place = r THEN b[i].qty ELSE 0
    BY LyingIs
  <2>2. /\ Batched(c, h, r) = SumFunctionOnSet(f, DOMAIN c)
        /\ \A i \in DOMAIN c : /\ f[i] \in Nat
                               /\ f[i] = IF c[i].good = h /\ c[i].place = r THEN c[i].qty ELSE 0
    BY <1>8, LyingIs
  <2> HIDE DEF e, f
  <2>3. \A i \in DOMAIN b : f[i] = e[i]
    BY <1>9, <2>1, <2>2
  <2>4. f[m] = IF h = g /\ r = p THEN n ELSE 0
    BY <1>9, <2>2
  <2>5. \A i \in DOMAIN b \cup {m} : f[i] \in Int
    BY <1>9, <2>2
  <2>6. SumFunctionOnSet(f, DOMAIN b \cup {m}) = f[m] + SumFunctionOnSet(f, DOMAIN b)
    BY <1>1, <1>5, <2>5, SumGains
  <2>7. SumFunctionOnSet(f, DOMAIN b) = SumFunctionOnSet(e, DOMAIN b)
    BY <1>1, <2>3, SumSame
  <2> QED BY <1>9, <2>1, <2>2, <2>4, <2>6, <2>7
<1> QED BY <1>8, <1>10, <1>11

LEMMA MinOfTwo == ASSUME NEW x \in Int, NEW y \in Int PROVE Min({x, y}) = IF x <= y THEN x ELSE y
<1>1. \E z \in {x, y} : \A w \in {x, y} : z <= w
  OBVIOUS
<1>2. Min({x, y}) \in {x, y} /\ \A w \in {x, y} : Min({x, y}) <= w
  BY <1>1 DEF Min
<1> QED BY <1>2
LEMMA MaxOfZero == ASSUME NEW x \in Int PROVE Max({0, x}) = IF x > 0 THEN x ELSE 0
<1>1. \E y \in {0, x} : \A z \in {0, x} : y >= z
  OBVIOUS
<1>2. Max({0, x}) \in {0, x} /\ \A z \in {0, x} : Max({0, x}) >= z
  BY <1>1 DEF Max
<1> QED BY <1>2

\* What is drawn, oldest first, from places that hold f: n of it, or all there is.
LEMMA DrawnIs ==
  ASSUME NEW k \in Nat, NEW n \in Nat, NEW f, \A i \in 1 .. k : f[i] \in Nat, NEW d,
         \A i \in 1 .. k : d[i] = Min({f[i], Max({0, n - SumFunctionOnSet(f, 1 .. i - 1)})})
  PROVE  /\ \A i \in 1 .. k : d[i] \in Nat /\ d[i] <= f[i]
         /\ SumFunctionOnSet(d, 1 .. k) =
              IF n <= SumFunctionOnSet(f, 1 .. k) THEN n ELSE SumFunctionOnSet(f, 1 .. k)
<1> DEFINE F(m) == SumFunctionOnSet(f, 1 .. m)
           D(m) == SumFunctionOnSet(d, 1 .. m)
<1>1. \A m \in 0 .. k : IsFiniteSet(1 .. m) /\ F(m) \in Nat
  <2>1. ASSUME NEW m \in 0 .. k PROVE IsFiniteSet(1 .. m) /\ F(m) \in Nat
    <3>1. IsFiniteSet(1 .. m)
      BY FS_Interval
    <3>2. \A i \in 1 .. m : f[i] \in Nat
      OBVIOUS
    <3> QED BY <3>1, <3>2, SumIsNat
  <2> QED BY <2>1
<1>2. ASSUME NEW i \in 1 .. k
      PROVE  /\ d[i] \in Nat /\ d[i] <= f[i]
             /\ d[i] = IF n <= F(i - 1) THEN 0
                       ELSE IF f[i] <= n - F(i - 1) THEN f[i] ELSE n - F(i - 1)
  <2> DEFINE x == n - F(i - 1)
             y == Max({0, x})
  <2>1. i - 1 \in 0 .. k /\ f[i] \in Nat
    OBVIOUS
  <2>2. F(i - 1) \in Nat
    BY <1>1, <2>1
  <2>3. d[i] = Min({f[i], y})
    OBVIOUS
  <2> HIDE DEF F
  <2>4. x \in Int
    BY <2>2
  <2> HIDE DEF x
  <2>5. y \in Int /\ y = IF x > 0 THEN x ELSE 0
    BY <2>4, MaxOfZero
  <2> HIDE DEF y
  <2>6. d[i] = IF f[i] <= y THEN f[i] ELSE y
    BY <2>1, <2>3, <2>5, MinOfTwo
  <2> QED BY <2>1, <2>2, <2>5, <2>6 DEF x
<1> HIDE DEF F, D
<1> DEFINE Bad == {m \in 0 .. k : D(m) # IF n <= F(m) THEN n ELSE F(m)}
<1>3. ASSUME Bad # {} PROVE FALSE
  <2>1. PICK m \in Bad : \A j \in Bad : m <= j
    <3>1. Bad \subseteq 0 .. k
      OBVIOUS
    <3> HIDE DEF Bad
    <3> QED BY <1>3, <3>1, LeastNat
  <2>2. m \in 0 .. k /\ D(m) # IF n <= F(m) THEN n ELSE F(m)
    OBVIOUS
  <2>3. m # 0
    <3>1. D(0) = 0 /\ F(0) = 0
      <4>1. 1 .. 0 = {}
        OBVIOUS
      <4> QED BY <4>1, SumOfNone DEF D, F
    <3> QED BY <2>2, <3>1
  <2> DEFINE i == m - 1
  <2>4. i \in 0 .. k /\ m = i + 1 /\ i \notin Bad /\ m \in 1 .. k /\ i \in Nat
    BY <2>1, <2>2, <2>3
  <2>5. D(i) = IF n <= F(i) THEN n ELSE F(i)
    BY <2>4
  <2>6. d[m] = IF n <= F(i) THEN 0 ELSE IF f[m] <= n - F(i) THEN f[m] ELSE n - F(i)
    BY <1>2, <2>4
  <2> HIDE DEF i, Bad
  <2>7. IsFiniteSet(1 .. i) /\ 1 .. m = (1 .. i) \cup {m} /\ m \notin 1 .. i
    <3>1. 1 .. m = (1 .. i) \cup {m} /\ m \notin 1 .. i
      BY <2>4
    <3> QED BY <1>1, <2>4, <3>1
  <2>8. \A x \in (1 .. i) \cup {m} : f[x] \in Int /\ d[x] \in Int
    <3>1. \A x \in 1 .. m : f[x] \in Int /\ d[x] \in Int
      BY <1>2, <2>4
    <3> QED BY <2>7, <3>1
  <2>9. F(m) = f[m] + F(i) /\ D(m) = d[m] + D(i)
    BY <2>7, <2>8, SumGains DEF F, D
  <2>10. F(i) \in Nat /\ f[m] \in Nat
    BY <1>1, <2>4
  <2> QED BY <2>2, <2>5, <2>6, <2>9, <2>10
<1>4. D(k) = IF n <= F(k) THEN n ELSE F(k)
  BY <1>3
<1> QED BY <1>2, <1>4 DEF D, F

\* The same batches, holding other quantities.
LEMMA Refilled ==
  ASSUME NEW b, Batches(b), NEW c, NEW q,
         c = [i \in DOMAIN b |-> [good |-> b[i].good, place |-> b[i].place, qty |-> q[i]]],
         \A i \in DOMAIN b : q[i] \in Nat
  PROVE  /\ Batches(c) /\ Grown(b, c) /\ DOMAIN c = DOMAIN b
         /\ \A g, p : \A i \in DOMAIN b :
              Lying(c, g, p)[i] = IF b[i].good = g /\ b[i].place = p THEN q[i] ELSE 0
<1>1. PICK n \in 0 .. NumBatches : b \in [1 .. n -> Batch]
  BY DEF Batches
<1>2. DOMAIN b = 1 .. n
  BY <1>1
<1>3. \A i \in DOMAIN b : c[i] \in Batch /\ c[i].good = b[i].good /\ c[i].place = b[i].place /\ c[i].qty = q[i]
  BY BatchesAre DEF Batch
<1>4. DOMAIN c = DOMAIN b /\ c = [i \in DOMAIN b |-> c[i]]
  OBVIOUS
<1>5. c \in [1 .. n -> Batch]
  BY <1>2, <1>3, <1>4
<1>6. Batches(c) /\ Grown(b, c)
  BY <1>3, <1>4, <1>5 DEF Batches, Grown
<1> QED BY <1>3, <1>4, <1>6, LyingIs

\* A batch is debited.
LEMMA DebitIs ==
  ASSUME NEW b, Batches(b), NEW i \in DOMAIN b, NEW n \in Nat, b[i].qty >= n
  PROVE  LET c == [b EXCEPT ![i].qty = @ - n]
         IN  /\ Batches(c) /\ Grown(b, c) /\ DOMAIN c = DOMAIN b
             /\ \A h, r : Batched(c, h, r) = Batched(b, h, r)
                                             - (IF h = b[i].good /\ r = b[i].place THEN n ELSE 0)
<1> DEFINE c == [b EXCEPT ![i].qty = @ - n]
           q == [j \in DOMAIN b |-> IF j = i THEN b[j].qty - n ELSE b[j].qty]
<1>1. \A j \in DOMAIN b : /\ q[j] \in Nat /\ b[j].qty \in Nat
                          /\ b[j] = [good |-> b[j].good, place |-> b[j].place, qty |-> b[j].qty]
  BY BatchesAre
<1>2. c = [j \in DOMAIN b |-> [good |-> b[j].good, place |-> b[j].place, qty |-> q[j]]]
  <2>1. [b[i] EXCEPT !.qty = @ - n] = [good |-> b[i].good, place |-> b[i].place, qty |-> b[i].qty - n]
    <3> DEFINE x == b[i]
    <3>1. x = [good |-> x.good, place |-> x.place, qty |-> x.qty]
      BY <1>1
    <3> HIDE DEF x
    <3>2. [x EXCEPT !.qty = @ - n] = [good |-> x.good, place |-> x.place, qty |-> x.qty - n]
      BY <3>1
    <3> QED BY <3>2 DEF x
  <2>2. c = [j \in DOMAIN b |-> IF j = i THEN [b[i] EXCEPT !.qty = @ - n] ELSE b[j]]
    BY BatchesAre
  <2> QED BY <1>1, <2>1, <2>2
<1> HIDE DEF c
<1>3. /\ Batches(c) /\ Grown(b, c) /\ DOMAIN c = DOMAIN b
      /\ \A g, p : \A j \in DOMAIN b :
           Lying(c, g, p)[j] = IF b[j].good = g /\ b[j].place = p THEN q[j] ELSE 0
  <2> HIDE DEF q
  <2> QED BY <1>1, <1>2, Refilled
<1>4. ASSUME NEW h, NEW r
      PROVE  Batched(c, h, r) = Batched(b, h, r)
                                  - (IF h = b[i].good /\ r = b[i].place THEN n ELSE 0)
  <2> DEFINE e == Lying(b, h, r)
             f == Lying(c, h, r)
  <2>1. /\ Batched(b, h, r) = SumFunctionOnSet(e, DOMAIN b) /\ Batched(b, h, r) \in Nat
        /\ \A j \in DOMAIN b : e[j] = IF b[j].good = h /\ b[j].place = r THEN b[j].qty ELSE 0
    BY LyingIs
  <2>2. Batched(c, h, r) = SumFunctionOnSet(f, DOMAIN b)
    BY <1>3, LyingIs
  <2>3. \A j \in DOMAIN b : f[j] = IF b[j].good = h /\ b[j].place = r THEN q[j] ELSE 0
    BY <1>3
  <2> HIDE DEF e, f
  <2>4. \A j \in DOMAIN b : e[j] \in Int /\ f[j] \in Int
    BY <1>1, <2>1, <2>3
  <2>5. \A j \in DOMAIN b \ {i} : e[j] = f[j]
    BY <2>1, <2>3
  <2>6. IsFiniteSet(DOMAIN b)
    BY BatchesAre
  <2> DEFINE S == DOMAIN b
  <2>7. SumFunctionOnSet(f, S) = SumFunctionOnSet(e, S) - e[i] + f[i]
    <3>1. IsFiniteSet(S) /\ i \in S /\ (\A j \in S : e[j] \in Int /\ f[j] \in Int)
          /\ \A j \in S \ {i} : e[j] = f[j]
      BY <2>4, <2>5, <2>6
    <3> HIDE DEF S
    <3> QED BY <3>1, SumChanges
  <2>8. e[i] - f[i] = IF h = b[i].good /\ r = b[i].place THEN n ELSE 0
    BY <1>1, <2>1, <2>3
  <2>9. e[i] \in Int /\ f[i] \in Int
    BY <2>4
  <2> QED BY <2>1, <2>2, <2>7, <2>8, <2>9
<1> QED BY <1>3, <1>4 DEF c

\* What auto_consume takes from each batch.
Drawn(b, g, p, n) ==
  [i \in DOMAIN b |-> Min({Lying(b, g, p)[i],
                           Max({0, n - SumFunctionOnSet(Lying(b, g, p), 1 .. i - 1)})})]

LEMMA DrawIs ==
  ASSUME NEW b, Batches(b), NEW g, NEW p, NEW n \in Nat
  PROVE  /\ \A i \in DOMAIN b : /\ Drawn(b, g, p, n)[i] \in Nat
                                /\ Drawn(b, g, p, n)[i] <= Lying(b, g, p)[i]
         /\ Batched(b, g, p) >= n => SumFunctionOnSet(Drawn(b, g, p, n), DOMAIN b) = n
         /\ \A i \in DOMAIN b :
              Draw(b, g, p, n)[i] = [good |-> b[i].good, place |-> b[i].place,
                                     qty |-> b[i].qty - Drawn(b, g, p, n)[i]]
<1> DEFINE f == Lying(b, g, p)
           d == Drawn(b, g, p, n)
           k == Cardinality(DOMAIN b)
<1>1. DOMAIN b = 1 .. k /\ k \in Nat
  BY BatchesAre
<1>2. /\ Batched(b, g, p) = SumFunctionOnSet(f, DOMAIN b)
      /\ \A i \in DOMAIN b : f[i] \in Nat
  BY LyingIs
<1>3. \A i \in DOMAIN b : d[i] = Min({f[i], Max({0, n - SumFunctionOnSet(f, 1 .. i - 1)})})
  BY DEF Drawn
<1>4. ASSUME NEW i \in DOMAIN b
      PROVE  Draw(b, g, p, n)[i] = [b[i] EXCEPT !.qty = @ - d[i]]
  <2>1. {j \in DOMAIN b : j < i} = 1 .. i - 1
    <3> HIDE DEF k
    <3> QED BY <1>1
  <2>2. d[i] = Min({f[i], Max({0, n - SumFunctionOnSet(f, {j \in DOMAIN b : j < i})})})
    BY <1>3, <2>1
  <2> HIDE DEF d
  <2>3. Draw(b, g, p, n)[i]
          = [b[i] EXCEPT !.qty = @ - Min({f[i], Max({0, n - SumFunctionOnSet(f, {j \in DOMAIN b : j < i})})})]
    BY DEF Draw
  <2> QED BY <2>2, <2>3
<1> HIDE DEF f, d, k
<1>5. /\ \A i \in 1 .. k : d[i] \in Nat /\ d[i] <= f[i]
      /\ SumFunctionOnSet(d, 1 .. k) =
              IF n <= SumFunctionOnSet(f, 1 .. k) THEN n ELSE SumFunctionOnSet(f, 1 .. k)
  <2>1. \A i \in 1 .. k : f[i] \in Nat
    BY <1>1, <1>2
  <2>2. \A i \in 1 .. k : d[i] = Min({f[i], Max({0, n - SumFunctionOnSet(f, 1 .. i - 1)})})
    BY <1>1, <1>3
  <2> QED BY <1>1, <2>1, <2>2, DrawnIs
<1>6. ASSUME NEW i \in DOMAIN b
      PROVE  Draw(b, g, p, n)[i] = [good |-> b[i].good, place |-> b[i].place, qty |-> b[i].qty - d[i]]
  <2> DEFINE x == b[i]
             y == d[i]
  <2>1. x = [good |-> x.good, place |-> x.place, qty |-> x.qty]
    BY BatchesAre
  <2> HIDE DEF x, y
  <2>2. [x EXCEPT !.qty = @ - y] = [good |-> x.good, place |-> x.place, qty |-> x.qty - y]
    BY <2>1
  <2> QED BY <1>4, <2>2 DEF x, y
<1>7. SumFunctionOnSet(f, 1 .. k) \in Nat
  BY <1>1, <1>2, LyingIs
<1>8. Batched(b, g, p) >= n => SumFunctionOnSet(d, DOMAIN b) = n
  BY <1>1, <1>2, <1>5, <1>7
<1> QED BY <1>1, <1>5, <1>6, <1>8 DEF f, d

LEMMA DrawAllIs ==
  ASSUME NEW b, Batches(b), NEW p \in Places, NEW q \in Quantities, CanDraw(b, p, q)
  PROVE  /\ Batches(DrawAll(b, p, q)) /\ Grown(b, DrawAll(b, p, q))
         /\ DOMAIN DrawAll(b, p, q) = DOMAIN b
         /\ \A h \in Tracked, r \in Places :
              Batched(DrawAll(b, p, q), h, r) = Batched(b, h, r) - (IF r = p THEN q[h] ELSE 0)
<1> DEFINE c == DrawAll(b, p, q)
           Of(i) == Drawn(b, b[i].good, p, q[b[i].good])[i]
           v == [i \in DOMAIN b |-> IF b[i].place = p THEN b[i].qty - Of(i) ELSE b[i].qty]
<1>1. \A i \in DOMAIN b : /\ b[i].good \in Tracked /\ b[i].good \in Goods /\ b[i].qty \in Nat
                          /\ b[i] = [good |-> b[i].good, place |-> b[i].place, qty |-> b[i].qty]
  BY BatchesAre, GivenGoods
<1>2. \A g \in Goods : q[g] \in Nat
  BY DEF Quantities
<1>3. ASSUME NEW i \in DOMAIN b
      PROVE  /\ Of(i) \in Nat /\ Of(i) <= Lying(b, b[i].good, p)[i]
             /\ Draw(b, b[i].good, p, q[b[i].good])[i]
                  = [good |-> b[i].good, place |-> b[i].place, qty |-> b[i].qty - Of(i)]
  <2> DEFINE g == b[i].good
             n == q[g]
  <2>1. n \in Nat
    BY <1>1, <1>2
  <2>2. Of(i) = Drawn(b, g, p, n)[i]
    OBVIOUS
  <2> HIDE DEF g, n, Of
  <2>3. /\ Drawn(b, g, p, n)[i] \in Nat
        /\ Drawn(b, g, p, n)[i] <= Lying(b, g, p)[i]
        /\ Draw(b, g, p, n)[i] = [good |-> b[i].good, place |-> b[i].place,
                                     qty |-> b[i].qty - Drawn(b, g, p, n)[i]]
    BY <2>1, DrawIs
  <2> QED BY <2>2, <2>3 DEF g, n
<1>4. \A i \in DOMAIN b : Lying(b, b[i].good, p)[i] = IF b[i].place = p THEN b[i].qty ELSE 0
  BY LyingIs
<1> HIDE DEF Of
<1>5. \A i \in DOMAIN b : v[i] \in Nat
  <2>1. ASSUME NEW i \in DOMAIN b PROVE v[i] \in Nat
    <3>1. CASE b[i].place = p
      <4>1. v[i] = b[i].qty - Of(i)
        BY <3>1
      <4>2. Of(i) \in Nat /\ Of(i) <= Lying(b, b[i].good, p)[i] /\ b[i].qty \in Nat
        BY <1>1, <1>3
      <4>3. Lying(b, b[i].good, p)[i] = b[i].qty
        BY <1>4, <3>1
      <4> HIDE DEF v
      <4> QED BY <4>1, <4>2, <4>3
    <3>2. CASE b[i].place # p
      BY <1>1, <3>2
    <3> QED BY <3>1, <3>2
  <2> QED BY <2>1
<1>6. c = [i \in DOMAIN b |-> [good |-> b[i].good, place |-> b[i].place, qty |-> v[i]]]
  <2>1. \A i \in DOMAIN b :
          (IF b[i].place = p THEN Draw(b, b[i].good, p, q[b[i].good])[i] ELSE b[i])
            = [good |-> b[i].good, place |-> b[i].place, qty |-> v[i]]
    BY <1>1, <1>3
  <2> HIDE DEF v
  <2> QED BY <2>1 DEF DrawAll
<1> HIDE DEF c
<1>7. /\ Batches(c) /\ Grown(b, c) /\ DOMAIN c = DOMAIN b
      /\ \A g, r : \A i \in DOMAIN b :
           Lying(c, g, r)[i] = IF b[i].good = g /\ b[i].place = r THEN v[i] ELSE 0
  <2> HIDE DEF v
  <2> QED BY <1>5, <1>6, Refilled
<1>8. ASSUME NEW h \in Tracked, NEW r \in Places
      PROVE  Batched(c, h, r) = Batched(b, h, r) - (IF r = p THEN q[h] ELSE 0)
  <2> DEFINE e == Lying(b, h, r)
             f == Lying(c, h, r)
             d == Drawn(b, h, p, q[h])
             S == DOMAIN b
  <2>1. /\ Batched(b, h, r) = SumFunctionOnSet(e, S) /\ Batched(b, h, r) \in Nat
        /\ \A i \in S : e[i] = IF b[i].good = h /\ b[i].place = r THEN b[i].qty ELSE 0
    BY LyingIs
  <2>2. Batched(c, h, r) = SumFunctionOnSet(f, S)
    BY <1>7, LyingIs
  <2>3. \A i \in S : f[i] = IF b[i].good = h /\ b[i].place = r THEN v[i] ELSE 0
    BY <1>7
  <2>4. IsFiniteSet(S)
    BY BatchesAre
  <2>5. q[h] \in Nat
    BY <1>2, GivenGoods
  <2>6. CASE r # p
    <3>1. \A i \in S : f[i] = e[i]
      BY <2>1, <2>3, <2>6
    <3> HIDE DEF e, f, S
    <3>2. SumFunctionOnSet(f, S) = SumFunctionOnSet(e, S)
      BY <2>4, <3>1, SumSame
    <3> QED BY <2>1, <2>2, <2>6, <3>2
  <2>7. CASE r = p
    <3>1. Batched(b, h, r) >= q[h]
      BY <2>7 DEF CanDraw
    <3>2. /\ \A i \in S : d[i] \in Nat /\ d[i] <= e[i]
          /\ SumFunctionOnSet(d, S) = q[h]
      <4> DEFINE n == q[h]
      <4>1. n \in Nat /\ Batched(b, h, r) >= n
        BY <2>5, <3>1
      <4> HIDE DEF n
      <4>2. /\ \A i \in DOMAIN b : /\ Drawn(b, h, r, n)[i] \in Nat
                                   /\ Drawn(b, h, r, n)[i] <= Lying(b, h, r)[i]
            /\ SumFunctionOnSet(Drawn(b, h, r, n), DOMAIN b) = n
        BY <4>1, DrawIs
      <4> QED BY <2>7, <4>2 DEF n
    <3>3. ASSUME NEW i \in S
          PROVE  f[i] \in Int /\ d[i] \in Int /\ e[i] = f[i] + d[i]
      <4>1. CASE b[i].good = h /\ b[i].place = r
        <5>1. v[i] = b[i].qty - d[i]
          BY <2>7, <4>1 DEF Of
        <5> HIDE DEF v, d, e, f
        <5> QED BY <1>1, <2>1, <2>3, <3>2, <4>1, <5>1
      <4>2. CASE ~(b[i].good = h /\ b[i].place = r)
        <5> HIDE DEF v, d, e, f
        <5> QED BY <2>1, <2>3, <3>2, <4>2
      <4> QED BY <4>1, <4>2
    <3> HIDE DEF d, e, f, S
    <3>4. SumFunctionOnSet(e, S) = SumFunctionOnSet(f, S) + SumFunctionOnSet(d, S)
      BY <2>4, <3>3, SumAdds
    <3>5. SumFunctionOnSet(f, S) \in Int
      BY <2>4, <3>3, SumIsInt
    <3> QED BY <2>1, <2>2, <2>5, <2>7, <3>2, <3>4, <3>5
  <2> QED BY <2>6, <2>7
<1> QED BY <1>7, <1>8 DEF c

\* The rows of a delivery.
Row == [qty : Nat \ {0}, lot : Lots \cup {NoLot}]
LEMMA TotalIs ==
  ASSUME NEW rows \in Seq(Row)
  PROVE  /\ Total(rows) = SumFunctionOnSet([k \in DOMAIN rows |-> rows[k].qty], 1 .. Len(rows))
         /\ Total(rows) \in Nat
         /\ rows = <<>> => Total(rows) = 0
         /\ Len(rows) = 1 => Total(rows) = rows[1].qty
<1> DEFINE f == [k \in DOMAIN rows |-> rows[k].qty]
<1>1. Len(rows) \in Nat /\ DOMAIN rows = 1 .. Len(rows) /\ \A k \in DOMAIN rows : rows[k] \in Row
  OBVIOUS
<1>2. \A k \in 1 .. Len(rows) : f[k] \in Nat
  BY <1>1 DEF Row
<1>3. Total(rows) = SumFunctionOnSet(f, 1 .. Len(rows))
  BY <1>1 DEF Total, SumFunction
<1>4. Len(rows) = 1 => f[1] = rows[1].qty
  BY <1>1
<1> HIDE DEF f
<1>5. IsFiniteSet(1 .. Len(rows))
  BY <1>1, FS_Interval
<1>6. Total(rows) \in Nat
  BY <1>2, <1>3, <1>5, SumIsNat
<1>7. rows = <<>> => Total(rows) = 0
  <2>1. rows = <<>> => 1 .. Len(rows) = {}
    OBVIOUS
  <2> QED BY <1>3, <2>1, SumOfNone
<1>8. ASSUME Len(rows) = 1 PROVE Total(rows) = rows[1].qty
  <2>1. 1 .. Len(rows) = {} \cup {1} /\ IsFiniteSet({}) /\ 1 \notin {}
    BY <1>8, FS_EmptySet
  <2>2. \A x \in {} \cup {1} : f[x] \in Int
    BY <1>2, <1>8
  <2>3. SumFunctionOnSet(f, {} \cup {1}) = f[1] + SumFunctionOnSet(f, {})
    BY <2>1, <2>2, SumGains
  <2>4. f[1] \in Int
    BY <2>2
  <2> QED BY <1>3, <1>4, <1>8, <2>1, <2>3, <2>4, SumOfNone
<1> QED BY <1>3, <1>6, <1>7, <1>8 DEF f

LEMMA BookedIs ==
  ASSUME NEW rows \in Seq(Row)
  PROVE  /\ Booked(rows) \in Seq(Row) /\ Len(Booked(rows)) <= Len(rows)
         /\ Len(rows) <= 1 => Booked(rows) \in {rows, <<>>}
<1> DEFINE Clash(k) == /\ Bought \in Tracked /\ rows[k].lot # NoLot
                       /\ \/ rows[k].lot \in supplier.lots
                          \/ \E j \in 1 .. k - 1 : rows[j].lot = rows[k].lot
           clashes == {k \in DOMAIN rows : Clash(k)}
<1>1. Booked(rows) = IF clashes = {} THEN rows ELSE SubSeq(rows, 1, Min(clashes) - 1)
  BY DEF Booked
<1>2. clashes \subseteq 1 .. Len(rows) /\ Len(rows) \in Nat
  OBVIOUS
<1> HIDE DEF clashes
<1>3. ASSUME clashes # {} PROVE Min(clashes) \in 1 .. Len(rows)
  <2> DEFINE k == Len(rows)
  <2>1. clashes \subseteq 0 .. k /\ k \in Nat
    BY <1>2
  <2> HIDE DEF k
  <2>2. \E m \in clashes : \A j \in clashes : m <= j
    BY <1>3, <2>1, LeastNat
  <2>3. Min(clashes) \in clashes
    BY <2>2 DEF Min
  <2> QED BY <1>2, <2>3
<1>4. CASE clashes = {}
  BY <1>1, <1>2, <1>4
<1>5. CASE clashes # {}
  <2> DEFINE m == Min(clashes)
             s == SubSeq(rows, 1, m - 1)
  <2>1. m \in 1 .. Len(rows) /\ Booked(rows) = s
    BY <1>1, <1>3, <1>5
  <2> HIDE DEF m
  <2>2. s \in Seq(Row) /\ Len(s) = m - 1
    BY <2>1
  <2> HIDE DEF s
  <2>3. Len(rows) <= 1 => s = <<>>
    <3>1. Len(rows) <= 1 => Len(s) = 0
      BY <2>1, <2>2
    <3> QED BY <2>2, <3>1
  <2> QED BY <1>2, <2>1, <2>2, <2>3
<1> QED BY <1>4, <1>5

\* Each row of a delivery becomes a batch.
LEMMA BatchPerRowIs ==
  ASSUME Batches(batch), NEW rows \in Seq(Row),
         Bought \in Tracked => Cardinality(DOMAIN batch) + Len(rows) <= NumBatches
  PROVE  /\ Batches(BatchPerRow(rows)) /\ Grown(batch, BatchPerRow(rows))
         /\ \A h \in Tracked, r \in Places :
              Batched(BatchPerRow(rows), h, r)
                = Batched(batch, h, r) + (IF h = Bought /\ r = Dock THEN Total(rows) ELSE 0)
<1>1. CASE Bought \notin Tracked
  <2>1. BatchPerRow(rows) = batch
    BY <1>1 DEF BatchPerRow
  <2>2. \A h, r : Batched(batch, h, r) \in Nat
    BY LyingIs
  <2> QED BY <1>1, <2>1, <2>2 DEF Grown
<1>2. CASE Bought \in Tracked
  <2> DEFINE k == Cardinality(DOMAIN batch)
             n == Len(rows)
             c == BatchPerRow(rows)
             new(i) == [good |-> Bought, place |-> Dock, qty |-> rows[i - k].qty]
             U == k + 1 .. k + n
  <2>1. /\ DOMAIN batch = 1 .. k /\ k \in Nat /\ IsFiniteSet(DOMAIN batch)
        /\ \A i \in DOMAIN batch : batch[i] \in Batch
    BY BatchesAre
  <2>2. n \in Nat /\ k + n <= NumBatches /\ NumBatches \in Nat
        /\ \A j \in 1 .. n : rows[j].qty \in Nat
    <3>1. \A j \in 1 .. n : rows[j] \in Row
      OBVIOUS
    <3> QED BY <1>2, <3>1, GivenBatches DEF Row
  <2>3. c = [i \in DOMAIN batch \cup U |-> IF i \in DOMAIN batch THEN batch[i] ELSE new(i)]
    BY <1>2 DEF BatchPerRow
  <2> HIDE DEF c
  <2>4. DOMAIN batch \cup U = 1 .. k + n /\ DOMAIN batch \cap U = {}
    <3> HIDE DEF k, n
    <3> QED BY <2>1, <2>2
  <2>5. \A i \in U : i - k \in 1 .. n /\ new(i) \in Batch
    <3>1. \A i \in U : i - k \in 1 .. n
      <4> HIDE DEF k, n
      <4> QED BY <2>1, <2>2
    <3> QED BY <1>2, <2>2, <3>1, GivenBuys DEF Batch
  <2>6. /\ DOMAIN c = DOMAIN batch \cup U /\ (\A i \in DOMAIN batch : c[i] = batch[i])
        /\ \A i \in U : c[i] = new(i)
    <3> HIDE DEF new, U
    <3> QED BY <2>3, <2>4
  <2>7. Batches(c)
    <3>1. c \in [1 .. k + n -> Batch]
      <4> HIDE DEF new, U, k, n
      <4> QED BY <2>1, <2>3, <2>4, <2>5
    <3>2. k + n \in 0 .. NumBatches
      <4> HIDE DEF k, n
      <4> QED BY <2>1, <2>2
    <3> QED BY <3>1, <3>2 DEF Batches
  <2>8. Grown(batch, c)
    BY <2>6 DEF Grown
  <2>9. ASSUME NEW h \in Tracked, NEW r \in Places
        PROVE  Batched(c, h, r)
                 = Batched(batch, h, r) + (IF h = Bought /\ r = Dock THEN Total(rows) ELSE 0)
    <3> DEFINE e == Lying(batch, h, r)
               f == Lying(c, h, r)
               t == [j \in DOMAIN rows |-> rows[j].qty]
               S == DOMAIN batch
    <3>1. /\ Batched(batch, h, r) = SumFunctionOnSet(e, S) /\ Batched(batch, h, r) \in Nat
          /\ \A i \in S : e[i] = IF batch[i].good = h /\ batch[i].place = r THEN batch[i].qty ELSE 0
      BY LyingIs
    <3>2. /\ Batched(c, h, r) = SumFunctionOnSet(f, S \cup U)
          /\ \A i \in S \cup U : /\ f[i] \in Nat
                                 /\ f[i] = IF c[i].good = h /\ c[i].place = r THEN c[i].qty ELSE 0
      BY <2>6, <2>7, LyingIs
    <3>3. \A i \in S : f[i] = e[i]
      BY <2>6, <3>1, <3>2
    <3>4. \A i \in U : f[i] = IF h = Bought /\ r = Dock THEN rows[i - k].qty ELSE 0
      <4>1. \A i \in U : c[i].good = Bought /\ c[i].place = Dock /\ c[i].qty = rows[i - k].qty
        <5>1. \A i \in U : /\ new(i).good = Bought /\ new(i).place = Dock
                            /\ new(i).qty = rows[i - k].qty
          OBVIOUS
        <5> HIDE DEF new, U, k
        <5> QED BY <2>6, <5>1
      <4>2. \A i \in U : f[i] = IF c[i].good = h /\ c[i].place = r THEN c[i].qty ELSE 0
        BY <3>2
      <4> HIDE DEF U, f, e, k
      <4> QED BY <4>1, <4>2
    <3>5. IsFiniteSet(S) /\ IsFiniteSet(U)
      BY <2>1, FS_Interval, <2>2
    <3>6. Total(rows) = SumFunctionOnSet(t, 1 .. n) /\ Total(rows) \in Nat
      BY TotalIs
    <3>7. SumFunctionOnSet(f, S) = SumFunctionOnSet(e, S)
      <4> HIDE DEF S, e, f
      <4> QED BY <3>3, <3>5, SumSame
    <3>8. SumFunctionOnSet(f, S \cup U) = SumFunctionOnSet(f, S) + SumFunctionOnSet(f, U)
      <4>1. \A i \in S \cup U : f[i] \in Int
        BY <3>2
      <4>2. S \cap U = {}
        BY <2>4
      <4> HIDE DEF S, U, f
      <4> QED BY <3>5, <4>1, <4>2, SumSplits
    <3>9. SumFunctionOnSet(f, U) = IF h = Bought /\ r = Dock THEN Total(rows) ELSE 0
      <4>1. CASE h = Bought /\ r = Dock
        <5>1. \A j \in 1 .. n : t[j] \in Int /\ f[k + j] = t[j]
          <6>1. ASSUME NEW j \in 1 .. n PROVE t[j] \in Int /\ f[k + j] = t[j]
            <7>1. t[j] = rows[j].qty /\ rows[j].qty \in Nat
              BY <2>2
            <7>2. k + j \in U /\ (k + j) - k = j
              <8> HIDE DEF k, n
              <8> QED BY <2>1, <2>2
            <7>3. f[k + j] = rows[(k + j) - k].qty
              BY <3>4, <4>1, <7>2
            <7> QED BY <7>1, <7>2, <7>3
          <6> QED BY <6>1
        <5> HIDE DEF f, t, k, n
        <5>2. SumFunctionOnSet(f, k + 1 .. k + n) = SumFunctionOnSet(t, 1 .. n)
          <6>1. k \in Nat /\ n \in Nat
            BY <2>1, <2>2
          <6> QED BY <5>1, <6>1, SumShifts
        <5> QED BY <3>6, <4>1, <5>2 DEF n
      <4>2. CASE ~(h = Bought /\ r = Dock)
        <5>1. \A i \in U : f[i] = 0
          BY <3>4, <4>2
        <5> HIDE DEF f, U
        <5>2. SumFunctionOnSet(f, U) = 0
          BY <3>5, <5>1, SumOfZeros
        <5> QED BY <4>2, <5>2
      <4> QED BY <4>1, <4>2
    <3> HIDE DEF e, f, S, U, c
    <3> QED BY <3>1, <3>2, <3>6, <3>7, <3>8, <3>9
  <2> QED BY <2>7, <2>8, <2>9 DEF c
<1> QED BY <1>1, <1>2

-----------------------------------------------------------------------------
(* Counts.                                                                 *)

\* The batches a count lists lie where it is taken.
Knows(c) == \A i \in count[c].lines \cap BatchIds :
              i \in DOMAIN batch /\ batch[i].place = count[c].place

LEMMA LinesAre ==
  /\ IsFiniteSet(Lines)
  /\ \A x \in Lines : x \in Goods <=> x \notin BatchIds
  /\ \A x \in Lines \cap Goods : x \notin Tracked
<1>1. IsFiniteSet(Goods \ Tracked)
  BY GivenGoods, FS_Subset
<1>2. IsFiniteSet(BatchIds)
  BY GivenBatches, FS_Interval DEF BatchIds
<1>3. IsFiniteSet(Lines)
  BY <1>1, <1>2, FS_Union DEF Lines
<1> QED BY <1>3, GivenCounts DEF Lines

LEMMA CountIs ==
  ASSUME TypeOK, NEW c \in Counts
  PROVE  /\ count[c] \in Count /\ count[c].place \in Places
         /\ Recorded(c) \subseteq count[c].lines /\ Recorded(c) \subseteq Lines
         /\ IsFiniteSet(Recorded(c))
         /\ \A x \in Lines : count[c].counted[x] \in Int
         /\ \A x \in Recorded(c) : count[c].counted[x] \in Nat
<1>1. count[c] \in Count
  BY DEF TypeOK
<1>2. /\ count[c].place \in Places /\ count[c].lines \subseteq Lines
      /\ count[c].counted \in [Lines -> Nat \cup {-1}]
  BY <1>1 DEF Count
<1>3. Recorded(c) \subseteq count[c].lines /\ Recorded(c) \subseteq Lines
  BY <1>2 DEF Recorded
<1>4. IsFiniteSet(Recorded(c))
  BY <1>3, LinesAre, FS_Subset
<1>5. \A x \in Lines : count[c].counted[x] \in Nat \cup {-1}
  BY <1>2
<1>6. \A x \in Recorded(c) : count[c].counted[x] >= 0
  BY DEF Recorded
<1> QED BY <1>1, <1>2, <1>3, <1>4, <1>5, <1>6

LEMMA StockIs ==
  ASSUME TypeOK
  PROVE  /\ level \in Table /\ Batches(batch)
         /\ \A x \in Goods \X Places : level[x].qty \in Int /\ level[x].held \in Int
         /\ \A g \in Goods, p \in Places : level[<<g, p>>].qty \in Int /\ level[<<g, p>>].held \in Int
<1>1. level \in Table /\ Batches(batch)
  BY DEF TypeOK, Table, Batches
<1>2. \A x \in Goods \X Places : level[x] \in Level
  BY <1>1 DEF Table
<1> QED BY <1>1, <1>2 DEF Level

\* What a recorded line adds to the correction of a good.
Deltas(c, g) ==
  [line \in Recorded(c) |->
     IF line = g \/ (line \in BatchIds /\ batch[line].good = g) THEN Delta(c, line) ELSE 0]
LEMMA DeltasAre ==
  ASSUME TypeOK, NEW c \in Counts, Knows(c), NEW g \in Goods
  PROVE  /\ Correction(c)[g] = SumFunctionOnSet(Deltas(c, g), Recorded(c))
         /\ \A x \in Recorded(c) : Deltas(c, g)[x] \in Int
         /\ \A x \in Recorded(c) \cap BatchIds :
              /\ x \in DOMAIN batch /\ batch[x].place = count[c].place
              /\ Deltas(c, g)[x] = IF batch[x].good = g THEN count[c].counted[x] - batch[x].qty ELSE 0
         /\ \A x \in Recorded(c) \ BatchIds :
              /\ x \in Goods \ Tracked
              /\ Deltas(c, g)[x] = IF x = g THEN count[c].counted[x] - level[<<x, count[c].place>>].qty
                                   ELSE 0
         /\ Correction(c)[g] \in Int
<1>1. /\ Recorded(c) \subseteq count[c].lines /\ Recorded(c) \subseteq Lines
      /\ IsFiniteSet(Recorded(c)) /\ count[c].place \in Places
      /\ \A x \in Recorded(c) : count[c].counted[x] \in Nat
  BY CountIs
<1>2. Correction(c)[g] = SumFunctionOnSet(Deltas(c, g), Recorded(c))
  BY DEF Correction, SumFunction, Deltas
<1>3. ASSUME NEW x \in Recorded(c) \cap BatchIds
      PROVE  /\ x \in DOMAIN batch /\ batch[x].place = count[c].place
             /\ Deltas(c, g)[x] = IF batch[x].good = g THEN count[c].counted[x] - batch[x].qty ELSE 0
             /\ Deltas(c, g)[x] \in Int
  <2>1. x \in DOMAIN batch /\ batch[x].place = count[c].place
    BY <1>1 DEF Knows
  <2>2. x \notin Goods /\ x # g
    BY <1>1, LinesAre
  <2>3. batch[x].qty \in Int
    BY <2>1, StockIs, BatchesAre
  <2>4. Delta(c, x) = count[c].counted[x] - batch[x].qty
    BY <2>2 DEF Delta, OnBooks
  <2>5. Deltas(c, g)[x] = IF batch[x].good = g THEN Delta(c, x) ELSE 0
    BY <2>2 DEF Deltas
  <2> QED BY <1>1, <2>1, <2>3, <2>4, <2>5
<1>4. ASSUME NEW x \in Recorded(c) \ BatchIds
      PROVE  /\ x \in Goods \ Tracked
             /\ Deltas(c, g)[x] = IF x = g THEN count[c].counted[x] - level[<<x, count[c].place>>].qty
                                  ELSE 0
             /\ Deltas(c, g)[x] \in Int
  <2>1. x \in Goods \ Tracked
    BY <1>1, LinesAre
  <2>2. level[<<x, count[c].place>>].qty \in Int
    BY <1>1, <2>1, StockIs
  <2>3. Delta(c, x) = count[c].counted[x] - level[<<x, count[c].place>>].qty
    BY <2>1 DEF Delta, OnBooks
  <2>4. Deltas(c, g)[x] = IF x = g THEN Delta(c, x) ELSE 0
    BY DEF Deltas
  <2> QED BY <1>1, <2>1, <2>2, <2>3, <2>4
<1>5. \A x \in Recorded(c) : Deltas(c, g)[x] \in Int
  BY <1>3, <1>4
<1>6. Correction(c)[g] \in Int
  <2> DEFINE f == Deltas(c, g)
             S == Recorded(c)
  <2>1. \A x \in S : f[x] \in Int
    BY <1>5
  <2> HIDE DEF f, S
  <2>2. SumFunctionOnSet(f, S) \in Int
    <3>1. IsFiniteSet(S)
      BY <1>1 DEF S
    <3> QED BY <2>1, <3>1, SumIsInt
  <2> QED BY <1>2, <2>2 DEF f, S
<1> QED BY <1>2, <1>3, <1>4, <1>5, <1>6

LEMMA CorrectionIs ==
  ASSUME TypeOK, NEW c \in Counts, Knows(c)
  PROVE  /\ Correction(c) \in Amount
         /\ \A g \in Goods \ Tracked :
              Correction(c)[g] = IF g \in Recorded(c)
                                   THEN count[c].counted[g] - level[<<g, count[c].place>>].qty
                                   ELSE 0
<1>1. \A g \in Goods : Correction(c)[g] \in Int
  BY DeltasAre
<1>2. Correction(c) \in Amount
  <2>1. Correction(c) = [g \in Goods |-> Correction(c)[g]]
    BY DEF Correction
  <2> QED BY <1>1, <2>1 DEF Amount
<1>3. ASSUME NEW g \in Goods \ Tracked
      PROVE  Correction(c)[g] = IF g \in Recorded(c)
                                  THEN count[c].counted[g] - level[<<g, count[c].place>>].qty
                                  ELSE 0
  <2> DEFINE f == Deltas(c, g)
             S == Recorded(c)
  <2>1. /\ Correction(c)[g] = SumFunctionOnSet(f, S)
        /\ \A x \in S : f[x] \in Int
        /\ \A x \in S \cap BatchIds : x \in DOMAIN batch /\ f[x] = IF batch[x].good = g THEN count[c].counted[x] - batch[x].qty ELSE 0
        /\ \A x \in S \ BatchIds :
             f[x] = IF x = g THEN count[c].counted[x] - level[<<x, count[c].place>>].qty ELSE 0
    BY DeltasAre
  <2>2. \A x \in S \cap BatchIds : f[x] = 0
    <3>1. \A x \in DOMAIN batch : batch[x].good \in Tracked
      BY StockIs, BatchesAre
    <3> HIDE DEF f, S
    <3> QED BY <2>1, <3>1
  <2>3. IsFiniteSet(S) /\ S \subseteq Lines
    BY CountIs
  <2> HIDE DEF f, S
  <2>4. CASE g \in S
    <3>1. SumFunctionOnSet(f, S) = f[g] + SumFunctionOnSet(f, S \ {g})
      BY <2>1, <2>3, <2>4, SumTakes
    <3>2. \A x \in S \ {g} : f[x] = 0
      BY <2>1, <2>2
    <3>3. IsFiniteSet(S \ {g})
      BY <2>3, FS_Subset
    <3>4. SumFunctionOnSet(f, S \ {g}) = 0
      <4> DEFINE U == S \ {g}
      <4> HIDE DEF U
      <4>1. SumFunctionOnSet(f, U) = 0
        BY <3>2, <3>3, SumOfZeros DEF U
      <4> QED BY <4>1 DEF U
    <3>5. g \notin BatchIds
      BY <2>3, <2>4, LinesAre
    <3>6. f[g] = count[c].counted[g] - level[<<g, count[c].place>>].qty /\ f[g] \in Int
      BY <2>1, <2>4, <3>5
    <3> QED BY <2>1, <2>4, <3>1, <3>4, <3>6 DEF S
  <2>5. CASE g \notin S
    <3>1. \A x \in S : f[x] = 0
      BY <2>1, <2>2, <2>5
    <3>2. SumFunctionOnSet(f, S) = 0
      BY <2>3, <3>1, SumOfZeros
    <3> QED BY <2>1, <2>5, <3>2 DEF S
  <2> QED BY <2>4, <2>5
<1> QED BY <1>2, <1>3

\* The batches are set to what was counted; the correction is by how much they change.
LEMMA BatchesSetIs ==
  ASSUME TypeOK, NEW c \in Counts, Knows(c)
  PROVE  /\ Batches(BatchesSet(c)) /\ Grown(batch, BatchesSet(c))
         /\ \A g \in Tracked, r \in Places :
              Batched(BatchesSet(c), g, r)
                = Batched(batch, g, r) + (IF r = count[c].place THEN Correction(c)[g] ELSE 0)
<1> DEFINE R == Recorded(c)
           S == DOMAIN batch
           q == [i \in S |-> IF i \in R THEN count[c].counted[i] ELSE batch[i].qty]
           d == BatchesSet(c)
           here == count[c].place
<1>1. /\ Batches(batch) /\ IsFiniteSet(S) /\ S \subseteq BatchIds
      /\ \A i \in S : /\ batch[i].qty \in Nat
                      /\ batch[i] = [good |-> batch[i].good, place |-> batch[i].place, qty |-> batch[i].qty]
  BY StockIs, BatchesAre
<1>2. \A i \in R : count[c].counted[i] \in Nat
  BY CountIs
<1>3. \A i \in S : q[i] \in Nat
  BY <1>1, <1>2
<1>4. d = [i \in S |-> [good |-> batch[i].good, place |-> batch[i].place, qty |-> q[i]]]
  <2>1. ASSUME NEW i \in S
        PROVE  (IF i \in R THEN [batch[i] EXCEPT !.qty = count[c].counted[i]] ELSE batch[i])
                 = [good |-> batch[i].good, place |-> batch[i].place, qty |-> q[i]]
    <3> DEFINE x == batch[i]
               n == count[c].counted[i]
    <3>1. x = [good |-> x.good, place |-> x.place, qty |-> x.qty]
      BY <1>1
    <3>2. q[i] = IF i \in R THEN n ELSE x.qty
      OBVIOUS
    <3> HIDE DEF x, n, q
    <3>3. [x EXCEPT !.qty = n] = [good |-> x.good, place |-> x.place, qty |-> n]
      BY <3>1
    <3>4. (IF i \in R THEN [x EXCEPT !.qty = n] ELSE x) = [good |-> x.good, place |-> x.place, qty |-> q[i]]
      BY <3>1, <3>2, <3>3
    <3> QED BY <3>4 DEF x, n
  <2> HIDE DEF q
  <2> QED BY <2>1 DEF BatchesSet
<1> HIDE DEF d
<1>5. /\ Batches(d) /\ Grown(batch, d) /\ DOMAIN d = S
      /\ \A g, r : \A i \in S :
           Lying(d, g, r)[i] = IF batch[i].good = g /\ batch[i].place = r THEN q[i] ELSE 0
  <2> HIDE DEF q
  <2> QED BY <1>1, <1>3, <1>4, Refilled
<1>6. ASSUME NEW g \in Tracked, NEW r \in Places
      PROVE  Batched(d, g, r) = Batched(batch, g, r) + (IF r = here THEN Correction(c)[g] ELSE 0)
  <2> DEFINE e == Lying(batch, g, r)
             f == Lying(d, g, r)
             x == Deltas(c, g)
  <2>1. /\ Batched(batch, g, r) = SumFunctionOnSet(e, S) /\ Batched(batch, g, r) \in Nat
        /\ \A i \in S : e[i] = IF batch[i].good = g /\ batch[i].place = r THEN batch[i].qty ELSE 0
    BY <1>1, LyingIs
  <2>2. Batched(d, g, r) = SumFunctionOnSet(f, S)
    BY <1>5, LyingIs
  <2>3. \A i \in S : f[i] = IF batch[i].good = g /\ batch[i].place = r THEN q[i] ELSE 0
    BY <1>5
  <2>4. g \in Goods
    BY GivenGoods
  <2>5. /\ Correction(c)[g] = SumFunctionOnSet(x, R) /\ Correction(c)[g] \in Int
        /\ \A i \in R : x[i] \in Int
        /\ \A i \in R \cap BatchIds :
              /\ i \in S /\ batch[i].place = here
              /\ x[i] = IF batch[i].good = g THEN count[c].counted[i] - batch[i].qty ELSE 0
        /\ \A i \in R \ BatchIds :
              /\ i \in Goods \ Tracked
              /\ x[i] = IF i = g THEN count[c].counted[i] - level[<<i, count[c].place>>].qty ELSE 0
    BY <2>4, DeltasAre
  <2>6. IsFiniteSet(R)
    BY CountIs
  <2> HIDE DEF e, f, x, R, S, here, q
  <2>7. \A i \in S : q[i] = IF i \in R THEN count[c].counted[i] ELSE batch[i].qty
    BY DEF q, S, R
  <2>8. CASE r # here
    <3>1. \A i \in S : f[i] = e[i]
      <4>1. \A i \in S : i \in R => batch[i].place = here
        BY <1>1, <2>5 
      <4> QED BY <2>1, <2>3, <2>7, <2>8, <4>1
    <3>2. SumFunctionOnSet(f, S) = SumFunctionOnSet(e, S)
      BY <1>1, <3>1, SumSame
    <3> QED BY <2>1, <2>2, <2>8, <3>2
  <2>9. CASE r = here
    <3> DEFINE A == R \cap S
               B == R \ S
               C == S \ R
    <3>1. /\ R = A \cup B /\ A \cap B = {} /\ S = A \cup C /\ A \cap C = {}
          /\ IsFiniteSet(A) /\ IsFiniteSet(B) /\ IsFiniteSet(C)
      <4>1. IsFiniteSet(A) /\ IsFiniteSet(B)
        BY <2>6, FS_Subset
      <4>2. IsFiniteSet(C)
        BY <1>1, FS_Subset
      <4> QED BY <4>1, <4>2
    <3>2. \A i \in B : x[i] = 0
      BY <1>1, <2>5
    <3>3. \A i \in A : f[i] = e[i] + x[i] /\ x[i] \in Int /\ e[i] \in Int /\ f[i] \in Int
      <4>1. ASSUME NEW i \in A PROVE f[i] = e[i] + x[i] /\ x[i] \in Int /\ e[i] \in Int /\ f[i] \in Int
        <5>1. /\ i \in S /\ i \in R \cap BatchIds /\ batch[i].place = here
              /\ x[i] = IF batch[i].good = g THEN count[c].counted[i] - batch[i].qty ELSE 0
          BY <1>1, <2>5
        <5>2. /\ batch[i].qty \in Nat /\ count[c].counted[i] \in Nat
              /\ q[i] = count[c].counted[i]
          BY <1>1, <1>2, <2>7, <5>1
        <5>3. /\ f[i] = IF batch[i].good = g THEN q[i] ELSE 0
              /\ e[i] = IF batch[i].good = g THEN batch[i].qty ELSE 0
          BY <2>1, <2>3, <2>9, <5>1
        <5> QED BY <5>1, <5>2, <5>3
      <4> QED BY <4>1
    <3>4. \A i \in C : f[i] = e[i] /\ e[i] \in Int
      <4>1. ASSUME NEW i \in C PROVE f[i] = e[i] /\ e[i] \in Int
        <5>1. i \in S /\ i \notin R
          OBVIOUS
        <5>2. batch[i].qty \in Nat /\ q[i] = batch[i].qty
          BY <1>1, <2>7, <5>1
        <5> QED BY <2>1, <2>3, <5>1, <5>2
      <4> QED BY <4>1
    <3> HIDE DEF A, B, C
    <3>5. SumFunctionOnSet(x, A \cup B) = SumFunctionOnSet(x, A) + SumFunctionOnSet(x, B)
      BY <2>5, <3>1, SumSplits
    <3>6. SumFunctionOnSet(x, B) = 0
      BY <3>1, <3>2, SumOfZeros
    <3>7. SumFunctionOnSet(e, A \cup C) = SumFunctionOnSet(e, A) + SumFunctionOnSet(e, C)
      BY <3>1, <3>3, <3>4, SumSplits
    <3>8. SumFunctionOnSet(f, A \cup C) = SumFunctionOnSet(f, A) + SumFunctionOnSet(f, C)
      <4>1. \A i \in A \cup C : f[i] \in Int
        BY <3>3, <3>4
      <4> QED BY <3>1, <4>1, SumSplits
    <3>9. SumFunctionOnSet(f, A) = SumFunctionOnSet(e, A) + SumFunctionOnSet(x, A)
      BY <3>1, <3>3, SumAdds
    <3>10. SumFunctionOnSet(f, C) = SumFunctionOnSet(e, C)
      BY <3>1, <3>4, SumSame
    <3>11. /\ SumFunctionOnSet(e, A) \in Int /\ SumFunctionOnSet(x, A) \in Int
           /\ SumFunctionOnSet(e, C) \in Int
      BY <3>1, <3>3, <3>4, SumIsInt
    <3> QED BY <2>1, <2>2, <2>5, <2>9, <3>1, <3>5, <3>6, <3>7, <3>8, <3>9, <3>10, <3>11
  <2> QED BY <2>8, <2>9 DEF here
<1> QED BY <1>5, <1>6 DEF d

-----------------------------------------------------------------------------
(* What a step does to the levels and batches.                             *)

Sound == /\ level' \in Table /\ Batches(batch') /\ Grown(batch, batch') /\ setting' = setting
HeldStays == \A g \in Goods, p \in Places : level'[<<g, p>>].held = level[<<g, p>>].held
\* The batches of a good change at a place as its level does.
Match(g, p) == Batched(batch', g, p) - Batched(batch, g, p) = level'[<<g, p>>].qty - level[<<g, p>>].qty
Matched == \A g \in Tracked, p \in Places : Match(g, p)
\* What there is of a good at all places changes by n.
StockedBy(g, n) == Stocked(level', g) = Stocked(level, g) + n

LEMMA Quiet ==
  ASSUME TypeOK, UNCHANGED <<levelVars, batch>>
  PROVE  /\ Sound /\ HeldStays /\ Matched
         /\ level' = level /\ batch' = batch
         /\ \A g \in Goods : StockedBy(g, 0) /\ Stocked(level, g) \in Int
<1>1. level' = level /\ setting' = setting /\ batch' = batch
  BY DEF levelVars
<1>2. Sound
  BY <1>1, StockIs DEF Sound, Grown
<1>3. HeldStays
  BY <1>1 DEF HeldStays
<1>4. Matched
  <2>1. ASSUME NEW g \in Tracked, NEW p \in Places PROVE Match(g, p)
    <3>1. Batched(batch, g, p) \in Int
      BY StockIs, LyingIs
    <3>2. level[<<g, p>>].qty \in Int
      BY StockIs, GivenGoods
    <3> DEFINE x == Batched(batch, g, p)
               y == level[<<g, p>>].qty
    <3>3. x - x = y - y
      <4>1. x \in Int /\ y \in Int
        BY <3>1, <3>2
      <4> HIDE DEF x, y
      <4> QED BY <4>1
    <3> QED BY <1>1, <3>3 DEF Match
  <2> QED BY <2>1 DEF Matched
<1>5. ASSUME NEW g \in Goods PROVE StockedBy(g, 0) /\ Stocked(level, g) \in Int
  <2>1. Stocked(level, g) \in Int
    <3>1. level \in Table /\ Counter \in Places
      BY StockIs, GivenOrders
    <3>2. \A r \in Places : level[<<g, r>>].qty = level[<<g, r>>].qty + (IF r = Counter THEN 0 ELSE 0)
      BY StockIs
    <3> QED BY <3>1, <3>2, StockedMoves
  <2>2. Stocked(level', g) = Stocked(level, g)
    BY <1>1
  <2> QED BY <2>1, <2>2 DEF StockedBy
<1> QED BY <1>1, <1>2, <1>3, <1>4, <1>5

\* A step that puts q at one place.
LEMMA PutsAt ==
  ASSUME TypeOK, NEW p \in Places, NEW q \in Amount, level' \in Table,
         \A g \in Goods, r \in Places :
           level'[<<g, r>>].qty = level[<<g, r>>].qty + (IF r = p THEN q[g] ELSE 0)
  PROVE  \A g \in Goods : StockedBy(g, q[g]) /\ q[g] \in Int
<1>1. ASSUME NEW g \in Goods PROVE StockedBy(g, q[g]) /\ q[g] \in Int
  <2>1. q[g] \in Int /\ level \in Table
    BY StockIs DEF Amount
  <2> DEFINE n == q[g]
             l == level'
  <2>2. /\ n \in Int /\ l \in Table
        /\ \A r \in Places : l[<<g, r>>].qty = level[<<g, r>>].qty + (IF r = p THEN n ELSE 0)
    BY <2>1
  <2> HIDE DEF n, l
  <2>3. Stocked(l, g) = Stocked(level, g) + n
    BY <2>1, <2>2, StockedMoves
  <2> QED BY <2>1, <2>3 DEF n, l, StockedBy
<1> QED BY <1>1

-----------------------------------------------------------------------------
(* Production orders.                                                      *)

HeldOf(m, r) == IF r.inputs = "ALLOCATED" /\ r.status # "CANCELED" THEN Ingredients[m] ELSE Nothing
MadeOf(m, r) == IF r.status = "COMPLETED" THEN Minus(r.made, Ingredients[m]) ELSE Nothing

\* The status of an order and that of its ingredients go together.
Planned(r) ==
  /\ r.inputs = "CONSUMED" => r.status = "COMPLETED"
  /\ r.status = "COMPLETED" => r.inputs = "CONSUMED"
  /\ r.status = "none" => r.inputs = "PENDING"
  /\ ~With("odd_cancel") => (r.status = "CANCELED" => r.inputs # "ALLOCATED")
AllPlanned == \A m \in Makes : Planned(make[m])
\* An order is completed once.
Once(r) == r.checked <= 1 /\ (r.checked > 0 => r.status \in {"PLANNED", "IN_PROGRESS", "ON_HOLD"})
OnceMade == ~With("two_completes") => \A m \in Makes : Once(make[m])

InBatchesMatched == \A g \in InBatches, p \in Places : Match(g, p)

\* What a step of a production order leaves behind.
MakeKeeps(m, r) ==
  /\ make' = [make EXCEPT ![m] = r]
  /\ r \in Make /\ Planned(r)
  /\ ~With("two_completes") => Once(r)
  /\ Sound /\ InBatchesMatched
  /\ ~With("odd_cancel") =>
       \A g \in Goods, p \in Places :
         level'[<<g, p>>].held = level[<<g, p>>].held
                                   + (IF p = Workshop THEN HeldOf(m, r)[g] - HeldOf(m, make[m])[g] ELSE 0)
  /\ ~With("two_completes") => \A g \in Goods : StockedBy(g, MadeOf(m, r)[g] - MadeOf(m, make[m])[g])

LEMMA MakeIs ==
  ASSUME NEW r \in Make, NEW m \in Makes
  PROVE  /\ r.status \in MakeStatus /\ r.inputs \in {"PENDING", "ALLOCATED", "CONSUMED"}
         /\ r.started \in BOOLEAN /\ r.checked \in 0 .. 2 /\ r.made \in Quantities
         /\ r = [status |-> r.status, inputs |-> r.inputs, started |-> r.started,
                 checked |-> r.checked, made |-> r.made]
         /\ HeldOf(m, r) \in Quantities /\ MadeOf(m, r) \in Amount
         /\ Ingredients[m] \in Quantities /\ Besides[m] \in Quantities /\ Output[m] \in Goods
<1>1. /\ r.status \in MakeStatus /\ r.inputs \in {"PENDING", "ALLOCATED", "CONSUMED"}
      /\ r.started \in BOOLEAN /\ r.checked \in 0 .. 2 /\ r.made \in Quantities
      /\ r = [status |-> r.status, inputs |-> r.inputs, started |-> r.started,
                 checked |-> r.checked, made |-> r.made]
  BY DEF Make
<1>2. Ingredients[m] \in Quantities /\ Besides[m] \in Quantities /\ Output[m] \in Goods
  BY GivenMakes
<1>3. HeldOf(m, r) \in Quantities
  BY <1>2, NothingIsNothing DEF HeldOf
<1>4. MadeOf(m, r) \in Amount
  <2>1. Minus(r.made, Ingredients[m]) \in Amount /\ Nothing \in Amount
    BY <1>1, <1>2, MinusIs, NothingIsNothing, QuantitiesAreAmounts
  <2> QED BY <2>1 DEF MadeOf
<1> QED BY <1>1, <1>2, <1>3, <1>4

LEMMA MakesAre ==
  ASSUME TypeOK, AllPlanned, OnceMade, NEW m \in Makes
  PROVE  /\ make[m] \in Make /\ Planned(make[m]) /\ (~With("two_completes") => Once(make[m]))
         /\ HeldOf(m, make[m]) = HeldByMake(m) /\ MadeOf(m, make[m]) = MadeBy(m)
BY DEF TypeOK, AllPlanned, OnceMade, HeldOf, HeldByMake, MadeOf, MadeBy

\* The same row, with other fields.
MakeRow(st, inp, sta, ch, ma) ==
  [status |-> st, inputs |-> inp, started |-> sta, checked |-> ch, made |-> ma]
LEMMA MakeRowIs ==
  ASSUME NEW st \in MakeStatus, NEW inp \in {"PENDING", "ALLOCATED", "CONSUMED"}, NEW sta \in BOOLEAN,
         NEW ch \in 0 .. 2, NEW ma \in Quantities
  PROVE  /\ MakeRow(st, inp, sta, ch, ma) \in Make
         /\ MakeRow(st, inp, sta, ch, ma).status = st /\ MakeRow(st, inp, sta, ch, ma).inputs = inp
         /\ MakeRow(st, inp, sta, ch, ma).started = sta /\ MakeRow(st, inp, sta, ch, ma).checked = ch
         /\ MakeRow(st, inp, sta, ch, ma).made = ma
BY DEF MakeRow, Make

\* A step that changes neither levels nor batches.
LEMMA MakeQuiet ==
  ASSUME TypeOK, NEW m \in Makes, NEW r \in Make, MakeOnly(m, r), make[m] \in Make,
         Planned(r), ~With("two_completes") => Once(r),
         ~With("odd_cancel") => HeldOf(m, r) = HeldOf(m, make[m]),
         ~With("two_completes") => MadeOf(m, r) = MadeOf(m, make[m])
  PROVE  MakeKeeps(m, r)
<1>1. make' = [make EXCEPT ![m] = r] /\ UNCHANGED <<levelVars, batch>>
  BY DEF MakeOnly
<1>2. /\ Sound /\ HeldStays /\ Matched
      /\ \A g \in Goods : StockedBy(g, 0) /\ Stocked(level, g) \in Int
  BY <1>1, Quiet
<1>3. \A g \in Goods : HeldOf(m, r)[g] \in Int /\ MadeOf(m, r)[g] \in Int
  BY MakeIs DEF Quantities, Amount
<1>4. InBatchesMatched
  BY <1>2 DEF Matched, InBatchesMatched, InBatches
<1>5. ~With("odd_cancel") =>
       \A g \in Goods, p \in Places :
         level'[<<g, p>>].held = level[<<g, p>>].held
                                   + (IF p = Workshop THEN HeldOf(m, r)[g] - HeldOf(m, make[m])[g] ELSE 0)
  <2>1. ASSUME ~With("odd_cancel"), NEW g \in Goods, NEW p \in Places
        PROVE  level'[<<g, p>>].held = level[<<g, p>>].held
                                   + (IF p = Workshop THEN HeldOf(m, r)[g] - HeldOf(m, make[m])[g] ELSE 0)
    <3> DEFINE x == level[<<g, p>>].held
               y == HeldOf(m, r)[g]
               z == HeldOf(m, make[m])[g]
    <3>1. x \in Int /\ y \in Int /\ z = y /\ level'[<<g, p>>].held = x
      BY <1>2, <1>3, <2>1, StockIs DEF HeldStays
    <3> HIDE DEF x, y, z
    <3>2. x = x + (IF p = Workshop THEN y - z ELSE 0)
      BY <3>1
    <3> QED BY <3>1, <3>2 DEF x, y, z
  <2> QED BY <2>1
<1>6. ~With("two_completes") => \A g \in Goods : StockedBy(g, MadeOf(m, r)[g] - MadeOf(m, make[m])[g])
  <2>1. ~With("two_completes") => \A g \in Goods : MadeOf(m, r)[g] - MadeOf(m, make[m])[g] = 0
    BY <1>3
  <2> QED BY <1>2, <2>1
<1> QED BY <1>1, <1>2, <1>4, <1>5, <1>6 DEF MakeKeeps

\* A step that changes what is reserved at the workshop.
LEMMA MakeHolds ==
  ASSUME TypeOK, NEW m \in Makes, NEW r \in Make, make[m] \in Make, NEW l,
         MakeWith(m, r, l), l \in Table, NEW q \in Amount,
         \A g \in Goods, p \in Places :
           /\ l[<<g, p>>].held = level[<<g, p>>].held + (IF p = Workshop THEN q[g] ELSE 0)
           /\ l[<<g, p>>].qty = level[<<g, p>>].qty,
         Planned(r), ~With("two_completes") => Once(r),
         ~With("odd_cancel") => \A g \in Goods : q[g] = HeldOf(m, r)[g] - HeldOf(m, make[m])[g],
         ~With("two_completes") => MadeOf(m, r) = MadeOf(m, make[m])
  PROVE  MakeKeeps(m, r)
<1>1. make' = [make EXCEPT ![m] = r] /\ level' = l /\ setting' = setting /\ batch' = batch
  BY DEF MakeWith
<1>2. Sound
  BY <1>1, StockIs DEF Sound, Grown
<1>3. InBatchesMatched
  <2>1. ASSUME NEW g \in InBatches, NEW p \in Places PROVE Match(g, p)
    <3>1. g \in Goods
      BY GivenGoods DEF InBatches
    <3>2. level[<<g, p>>].qty \in Int /\ Batched(batch, g, p) \in Int
      BY <3>1, StockIs, LyingIs
    <3>3. level'[<<g, p>>].qty = level[<<g, p>>].qty
      BY <1>1, <3>1
    <3> DEFINE x == Batched(batch, g, p)
               y == level[<<g, p>>].qty
    <3>4. x - x = y - y
      <4>1. x \in Int /\ y \in Int
        BY <3>2
      <4> HIDE DEF x, y
      <4> QED BY <4>1
    <3> QED BY <1>1, <3>3, <3>4 DEF Match
  <2> QED BY <2>1 DEF InBatchesMatched
<1>4. ~With("odd_cancel") =>
       \A g \in Goods, p \in Places :
         level'[<<g, p>>].held = level[<<g, p>>].held
                                   + (IF p = Workshop THEN HeldOf(m, r)[g] - HeldOf(m, make[m])[g] ELSE 0)
  BY <1>1
<1>5. ~With("two_completes") => \A g \in Goods : StockedBy(g, MadeOf(m, r)[g] - MadeOf(m, make[m])[g])
  <2>1. ASSUME ~With("two_completes"), NEW g \in Goods
        PROVE  StockedBy(g, MadeOf(m, r)[g] - MadeOf(m, make[m])[g])
    <3>1. MadeOf(m, r)[g] - MadeOf(m, make[m])[g] = 0
      <4>1. MadeOf(m, r)[g] \in Int /\ MadeOf(m, r) = MadeOf(m, make[m])
        BY <2>1, MakeIs DEF Amount
      <4> QED BY <4>1
    <3>2. Nothing \in Amount /\ Nothing[g] = 0
      BY NothingIsNothing, QuantitiesAreAmounts
    <3>3. \A h \in Goods, p \in Places :
            level'[<<h, p>>].qty = level[<<h, p>>].qty + (IF p = Counter THEN Nothing[h] ELSE 0)
      <4>1. ASSUME NEW h \in Goods, NEW p \in Places
            PROVE  level'[<<h, p>>].qty = level[<<h, p>>].qty + (IF p = Counter THEN Nothing[h] ELSE 0)
        <5>1. Nothing[h] = 0 /\ level[<<h, p>>].qty \in Int /\ level'[<<h, p>>].qty = level[<<h, p>>].qty
          BY <1>1, StockIs, NothingIsNothing
        <5> QED BY <5>1
      <4> QED BY <4>1
    <3>4. level' \in Table /\ Counter \in Places
      BY <1>1, GivenOrders
    <3>5. StockedBy(g, Nothing[g])
      BY <3>2, <3>3, <3>4, PutsAt
    <3> QED BY <3>1, <3>2, <3>5
  <2> QED BY <2>1
<1> QED BY <1>1, <1>2, <1>3, <1>4, <1>5 DEF MakeKeeps

LEMMA CreateMakeKeeps ==
  ASSUME TypeOK, AllPlanned, OnceMade, NEW m \in Makes, NEW allocate \in BOOLEAN, CreateMake(m, allocate)
  PROVE  \E r : MakeKeeps(m, r)
<1> DEFINE old == make[m]
           q == Ingredients[m]
<1>1. /\ old \in Make /\ Planned(old) /\ (~With("two_completes") => Once(old)) /\ old.status = "none"
  BY MakesAre DEF CreateMake
<1>2. /\ old.inputs = "PENDING" /\ old.started \in BOOLEAN /\ old.checked \in 0 .. 2
      /\ old.made \in Quantities /\ q \in Quantities
      /\ old = MakeRow(old.status, old.inputs, old.started, old.checked, old.made)
  BY <1>1, MakeIs DEF Planned, MakeRow
<1>3. CASE allocate
  <2> DEFINE r == [old EXCEPT !.status = "DRAFT", !.inputs = "ALLOCATED"]
             l == Hold(level, Workshop, q)
  <2>1. MakeWith(m, r, l)
    BY <1>3 DEF CreateMake
  <2>2. r = MakeRow("DRAFT", "ALLOCATED", old.started, old.checked, old.made)
    <3>1. old = [status |-> old.status, inputs |-> old.inputs, started |-> old.started,
               checked |-> old.checked, made |-> old.made]
      BY <1>1, MakeIs
    <3> DEFINE s == [old EXCEPT !.status = "DRAFT"]
    <3> HIDE DEF old
    <3>2. s = [status |-> "DRAFT", inputs |-> old.inputs, started |-> old.started,
             checked |-> old.checked, made |-> old.made]
      BY <3>1
    <3>3. r = [s EXCEPT !.inputs = "ALLOCATED"]
      OBVIOUS
    <3> HIDE DEF s
    <3> QED BY <3>2, <3>3 DEF MakeRow
  <2>3. /\ r \in Make /\ r.status = "DRAFT" /\ r.inputs = "ALLOCATED" /\ r.checked = old.checked
    BY <1>2, <2>2, MakeRowIs DEF MakeStatus
  <2>4. /\ l \in Table
        /\ \A g \in Goods, p \in Places :
           /\ l[<<g, p>>].held = level[<<g, p>>].held + (IF p = Workshop THEN q[g] ELSE 0)
           /\ l[<<g, p>>].qty = level[<<g, p>>].qty
    BY <1>2, HoldIs, StockIs, GivenMakes, QuantitiesAreAmounts
  <2> HIDE DEF r, l, q
  <2>5. Planned(r) /\ (~With("two_completes") => Once(r))
    BY <1>1, <1>2, <2>3 DEF Planned, Once
  <2>6. \A g \in Goods : q[g] = HeldOf(m, r)[g] - HeldOf(m, make[m])[g]
    BY <1>2, <2>3, NothingIsNothing DEF HeldOf, q, Quantities
  <2>7. MadeOf(m, r) = MadeOf(m, make[m])
    BY <1>1, <2>3 DEF MadeOf
  <2>8. q \in Amount /\ make[m] \in Make
    BY <1>1, <1>2, QuantitiesAreAmounts
  <2> HIDE DEF old
  <2>9. MakeKeeps(m, r)
    BY <2>1, <2>3, <2>4, <2>5, <2>6, <2>7, <2>8, MakeHolds
  <2> QED BY <2>9
<1>4. CASE ~allocate
  <2> DEFINE r == [old EXCEPT !.status = "DRAFT"]
  <2>1. MakeOnly(m, r)
    BY <1>4 DEF CreateMake
  <2>2. r = MakeRow("DRAFT", old.inputs, old.started, old.checked, old.made)
    <3>1. old = [status |-> old.status, inputs |-> old.inputs, started |-> old.started,
               checked |-> old.checked, made |-> old.made]
      BY <1>1, MakeIs
    <3> HIDE DEF old
    <3> QED BY <3>1 DEF MakeRow
  <2>3. /\ r \in Make /\ r.status = "DRAFT" /\ r.inputs = "PENDING" /\ r.checked = old.checked
    BY <1>2, <2>2, MakeRowIs DEF MakeStatus
  <2> HIDE DEF r
  <2>4. Planned(r) /\ (~With("two_completes") => Once(r))
    BY <1>1, <2>3 DEF Planned, Once
  <2>5. HeldOf(m, r) = HeldOf(m, make[m]) /\ MadeOf(m, r) = MadeOf(m, make[m])
    BY <1>1, <1>2, <2>3 DEF HeldOf, MadeOf
  <2>6. make[m] \in Make
    BY <1>1
  <2> HIDE DEF old
  <2>7. MakeKeeps(m, r)
    BY <2>1, <2>3, <2>4, <2>5, <2>6, MakeQuiet
  <2> QED BY <2>7
<1> QED BY <1>3, <1>4

LEMMA PlanMakeKeeps ==
  ASSUME TypeOK, AllPlanned, OnceMade, NEW m \in Makes, PlanMake(m)
  PROVE  \E r : MakeKeeps(m, r)
<1> DEFINE old == make[m]
           q == IF old.inputs = "PENDING" THEN Ingredients[m] ELSE Nothing
           r == [old EXCEPT !.status = "PLANNED", !.inputs = "ALLOCATED"]
           l == IF old.inputs = "PENDING" THEN Hold(level, Workshop, Ingredients[m]) ELSE level
<1>1. /\ old \in Make /\ Planned(old) /\ (~With("two_completes") => Once(old)) /\ old.status = "DRAFT"
      /\ MakeWith(m, r, l)
  BY MakesAre DEF PlanMake
<1>2. /\ old.inputs \in {"PENDING", "ALLOCATED"} /\ old.started \in BOOLEAN /\ old.checked \in 0 .. 2
      /\ old.made \in Quantities /\ Ingredients[m] \in Quantities
  BY <1>1, MakeIs DEF Planned
<1>3. r = MakeRow("PLANNED", "ALLOCATED", old.started, old.checked, old.made)
  <2>1. old = [status |-> old.status, inputs |-> old.inputs, started |-> old.started,
             checked |-> old.checked, made |-> old.made]
    BY <1>1, MakeIs
  <2> DEFINE s == [old EXCEPT !.status = "PLANNED"]
  <2> HIDE DEF old
  <2>2. s = [status |-> "PLANNED", inputs |-> old.inputs, started |-> old.started,
           checked |-> old.checked, made |-> old.made]
    BY <2>1
  <2>3. r = [s EXCEPT !.inputs = "ALLOCATED"]
    OBVIOUS
  <2> HIDE DEF s
  <2> QED BY <2>2, <2>3 DEF MakeRow
<1>4. /\ r \in Make /\ r.status = "PLANNED" /\ r.inputs = "ALLOCATED" /\ r.checked = old.checked
  BY <1>2, <1>3, MakeRowIs DEF MakeStatus
<1>5. /\ l \in Table /\ q \in Quantities
      /\ \A g \in Goods, p \in Places :
           /\ l[<<g, p>>].held = level[<<g, p>>].held + (IF p = Workshop THEN q[g] ELSE 0)
           /\ l[<<g, p>>].qty = level[<<g, p>>].qty
  <2> DEFINE x == Hold(level, Workshop, Ingredients[m])
  <2>1. /\ x \in Table
        /\ \A g \in Goods, p \in Places :
           /\ x[<<g, p>>].held = level[<<g, p>>].held + (IF p = Workshop THEN Ingredients[m][g] ELSE 0)
           /\ x[<<g, p>>].qty = level[<<g, p>>].qty
    BY <1>2, HoldIs, StockIs, GivenMakes, QuantitiesAreAmounts
  <2> HIDE DEF x
  <2>2. l = IF old.inputs = "PENDING" THEN x ELSE level
    BY DEF x
  <2> QED BY <1>2, <2>1, <2>2, StockIs, NothingIsNothing
<1> HIDE DEF r, l
<1>6. Planned(r) /\ (~With("two_completes") => Once(r))
  BY <1>1, <1>4 DEF Planned, Once
<1>7. \A g \in Goods : q[g] = HeldOf(m, r)[g] - HeldOf(m, make[m])[g]
  BY <1>1, <1>2, <1>4, NothingIsNothing DEF HeldOf, Quantities
<1>8. MadeOf(m, r) = MadeOf(m, make[m])
  BY <1>1, <1>4 DEF MadeOf
<1>9. q \in Amount /\ make[m] \in Make /\ MakeWith(m, r, l)
  BY <1>1, <1>5, QuantitiesAreAmounts
<1> HIDE DEF old, q
<1>10. MakeKeeps(m, r)
  BY <1>4, <1>5, <1>6, <1>7, <1>8, <1>9, MakeHolds
<1> QED BY <1>10

\* start, hold and resume.
LEMMA StartMakeKeeps ==
  ASSUME TypeOK, AllPlanned, OnceMade, NEW m \in Makes,
         StartMake(m) \/ HoldMake(m) \/ ResumeMake(m)
  PROVE  \E r : MakeKeeps(m, r)
<1> DEFINE old == make[m]
<1>1. /\ old \in Make /\ Planned(old) /\ (~With("two_completes") => Once(old))
  BY MakesAre
<1>2. /\ old.inputs \in {"PENDING", "ALLOCATED", "CONSUMED"} /\ old.started \in BOOLEAN
      /\ old.checked \in 0 .. 2 /\ old.made \in Quantities
  BY <1>1, MakeIs
<1>3. \E r \in Make :
        /\ MakeOnly(m, r) /\ old.status \in {"PLANNED", "IN_PROGRESS", "ON_HOLD"}
        /\ r.status \in {"PLANNED", "IN_PROGRESS", "ON_HOLD"}
        /\ r.inputs = old.inputs /\ r.checked = old.checked
  <2>1. CASE StartMake(m)
    <3> DEFINE yes == TRUE
               r == [old EXCEPT !.status = "IN_PROGRESS", !.started = yes]
    <3>1. MakeOnly(m, r) /\ old.status = "PLANNED"
      BY <2>1 DEF StartMake
    <3>4. yes \in BOOLEAN
      OBVIOUS
    <3> HIDE DEF yes
    <3>2. r = MakeRow("IN_PROGRESS", old.inputs, yes, old.checked, old.made)
      <4>1. old = [status |-> old.status, inputs |-> old.inputs, started |-> old.started,
                 checked |-> old.checked, made |-> old.made]
        BY <1>1, MakeIs
      <4> DEFINE s == [old EXCEPT !.status = "IN_PROGRESS"]
      <4> HIDE DEF old
      <4>2. s = [status |-> "IN_PROGRESS", inputs |-> old.inputs, started |-> old.started,
               checked |-> old.checked, made |-> old.made]
        BY <4>1
      <4>3. r = [s EXCEPT !.started = yes]
        OBVIOUS
      <4> HIDE DEF s
      <4> QED BY <4>2, <4>3 DEF MakeRow
    <3>3. r \in Make /\ r.status = "IN_PROGRESS" /\ r.inputs = old.inputs /\ r.checked = old.checked
      BY <1>2, <3>2, <3>4 DEF MakeRow, Make, MakeStatus
    <3> HIDE DEF r
    <3> QED BY <3>1, <3>3
  <2>2. CASE HoldMake(m)
    <3> DEFINE r == [old EXCEPT !.status = "ON_HOLD"]
    <3>1. MakeOnly(m, r) /\ old.status \in {"PLANNED", "IN_PROGRESS"}
      BY <2>2 DEF HoldMake
    <3>2. r = MakeRow("ON_HOLD", old.inputs, old.started, old.checked, old.made)
      <4>1. old = [status |-> old.status, inputs |-> old.inputs, started |-> old.started,
                 checked |-> old.checked, made |-> old.made]
        BY <1>1, MakeIs
      <4> HIDE DEF old
      <4> QED BY <4>1 DEF MakeRow
    <3>3. r \in Make /\ r.status = "ON_HOLD" /\ r.inputs = old.inputs /\ r.checked = old.checked
      BY <1>2, <3>2, MakeRowIs DEF MakeStatus
    <3> HIDE DEF r
    <3> QED BY <3>1, <3>3
  <2>3. CASE ResumeMake(m)
    <3> DEFINE x == IF old.started THEN "IN_PROGRESS" ELSE "PLANNED"
               r == [old EXCEPT !.status = x]
    <3>1. MakeOnly(m, r) /\ old.status = "ON_HOLD" /\ x \in {"IN_PROGRESS", "PLANNED"}
      BY <2>3 DEF ResumeMake
    <3> HIDE DEF x
    <3>2. r = MakeRow(x, old.inputs, old.started, old.checked, old.made)
      <4>1. old = [status |-> old.status, inputs |-> old.inputs, started |-> old.started,
                 checked |-> old.checked, made |-> old.made]
        BY <1>1, MakeIs
      <4> HIDE DEF old
      <4> QED BY <4>1 DEF MakeRow
    <3>3. x \in MakeStatus
      BY <3>1 DEF MakeStatus
    <3>4. r \in Make /\ r.status = x /\ r.inputs = old.inputs /\ r.checked = old.checked
      BY <1>2, <3>2, <3>3, MakeRowIs
    <3> HIDE DEF r
    <3> QED BY <3>1, <3>4
  <2> QED BY <2>1, <2>2, <2>3
<1>4. PICK r \in Make :
        /\ MakeOnly(m, r) /\ old.status \in {"PLANNED", "IN_PROGRESS", "ON_HOLD"}
        /\ r.status \in {"PLANNED", "IN_PROGRESS", "ON_HOLD"}
        /\ r.inputs = old.inputs /\ r.checked = old.checked
  BY <1>3
<1>5. Planned(r) /\ (~With("two_completes") => Once(r))
  BY <1>1, <1>4 DEF Planned, Once
<1>6. HeldOf(m, r) = HeldOf(m, make[m]) /\ MadeOf(m, r) = MadeOf(m, make[m])
  BY <1>4 DEF HeldOf, MadeOf
<1>7. make[m] \in Make
  BY <1>1
<1> HIDE DEF old
<1>8. MakeKeeps(m, r)
  BY <1>4, <1>5, <1>6, <1>7, MakeQuiet
<1> QED BY <1>8

LEMMA CancelMakeKeeps ==
  ASSUME TypeOK, AllPlanned, OnceMade, NEW m \in Makes, CancelMake(m),
         Only("two_completes", make[m].checked > 0),
         Only("odd_cancel", make[m].inputs = "ALLOCATED"
                              /\ make[m].status \notin {"PLANNED", "IN_PROGRESS"})
  PROVE  \E r : MakeKeeps(m, r)
<1> DEFINE old == make[m]
           q == Minus(Nothing, Ingredients[m])
           open == old.status \in {"PLANNED", "IN_PROGRESS"} /\ old.inputs = "ALLOCATED"
<1>1. /\ old \in Make /\ Planned(old) /\ (~With("two_completes") => Once(old))
      /\ old.status \in {"DRAFT", "PLANNED", "IN_PROGRESS", "ON_HOLD"}
  BY MakesAre DEF CancelMake
<1>2. /\ old.inputs \in {"PENDING", "ALLOCATED", "CONSUMED"} /\ old.started \in BOOLEAN
      /\ old.checked \in 0 .. 2 /\ old.made \in Quantities /\ Ingredients[m] \in Quantities
  BY <1>1, MakeIs
<1>3. ~With("two_completes") => old.checked = 0
  BY <1>2 DEF Only, With
<1>4. CASE open
  <2> DEFINE r == [old EXCEPT !.status = "CANCELED", !.inputs = "PENDING"]
             l == Release(level, Workshop, Ingredients[m])
  <2>1. MakeWith(m, r, l)
    BY <1>4 DEF CancelMake
  <2>2. r = MakeRow("CANCELED", "PENDING", old.started, old.checked, old.made)
    <3>1. old = [status |-> old.status, inputs |-> old.inputs, started |-> old.started,
               checked |-> old.checked, made |-> old.made]
      BY <1>1, MakeIs
    <3> DEFINE s == [old EXCEPT !.status = "CANCELED"]
    <3> HIDE DEF old
    <3>2. s = [status |-> "CANCELED", inputs |-> old.inputs, started |-> old.started,
             checked |-> old.checked, made |-> old.made]
      BY <3>1
    <3>3. r = [s EXCEPT !.inputs = "PENDING"]
      OBVIOUS
    <3> HIDE DEF s
    <3> QED BY <3>2, <3>3 DEF MakeRow
  <2>3. /\ r \in Make /\ r.status = "CANCELED" /\ r.inputs = "PENDING" /\ r.checked = old.checked
    BY <1>2, <2>2, MakeRowIs DEF MakeStatus
  <2>4. /\ l \in Table
        /\ \A g \in Goods, p \in Places :
           /\ l[<<g, p>>].held = level[<<g, p>>].held - (IF p = Workshop THEN Ingredients[m][g] ELSE 0)
           /\ l[<<g, p>>].qty = level[<<g, p>>].qty
    BY <1>2, ReleaseIs, StockIs, GivenMakes, QuantitiesAreAmounts
  <2>5. q \in Amount /\ \A g \in Goods : q[g] = -Ingredients[m][g] /\ Ingredients[m][g] \in Nat
    BY <1>2, MinusIs, NothingIsNothing, QuantitiesAreAmounts DEF Quantities
  <2> HIDE DEF r, l, q
  <2>6. Planned(r) /\ (~With("two_completes") => Once(r))
    BY <1>1, <1>3, <2>3 DEF Planned, Once
  <2>7. \A g \in Goods : q[g] = HeldOf(m, r)[g] - HeldOf(m, make[m])[g]
    BY <1>1, <1>4, <2>3, <2>5, NothingIsNothing DEF HeldOf
  <2>8. MadeOf(m, r) = MadeOf(m, make[m])
    BY <1>1, <2>3 DEF MadeOf
  <2>9. \A g \in Goods, p \in Places :
           /\ l[<<g, p>>].held = level[<<g, p>>].held + (IF p = Workshop THEN q[g] ELSE 0)
           /\ l[<<g, p>>].qty = level[<<g, p>>].qty
    <3>1. ASSUME NEW g \in Goods, NEW p \in Places
          PROVE  /\ l[<<g, p>>].held = level[<<g, p>>].held + (IF p = Workshop THEN q[g] ELSE 0)
                 /\ l[<<g, p>>].qty = level[<<g, p>>].qty
      <4>1. level[<<g, p>>].held \in Int
        BY StockIs
      <4> DEFINE x == Ingredients[m][g]
      <4>2. x \in Nat /\ q[g] = -x
        BY <2>5
      <4>3. l[<<g, p>>].held = level[<<g, p>>].held - (IF p = Workshop THEN x ELSE 0)
        BY <2>4
      <4> HIDE DEF x
      <4>4. l[<<g, p>>].held = level[<<g, p>>].held + (IF p = Workshop THEN q[g] ELSE 0)
        BY <4>1, <4>2, <4>3
      <4> QED BY <2>4, <4>4
    <3> QED BY <3>1
  <2>10. make[m] \in Make /\ l \in Table
    BY <1>1, <2>4
  <2> HIDE DEF old, open
  <2>11. MakeKeeps(m, r)
    BY <2>1, <2>3, <2>5, <2>6, <2>7, <2>8, <2>9, <2>10, MakeHolds
  <2> QED BY <2>11
<1>5. CASE ~open
  <2> DEFINE r == [old EXCEPT !.status = "CANCELED"]
  <2>1. MakeOnly(m, r)
    BY <1>5 DEF CancelMake
  <2>2. r = MakeRow("CANCELED", old.inputs, old.started, old.checked, old.made)
    <3>1. old = [status |-> old.status, inputs |-> old.inputs, started |-> old.started,
               checked |-> old.checked, made |-> old.made]
      BY <1>1, MakeIs
    <3> HIDE DEF old
    <3> QED BY <3>1 DEF MakeRow
  <2>3. /\ r \in Make /\ r.status = "CANCELED" /\ r.inputs = old.inputs /\ r.checked = old.checked
    BY <1>2, <2>2, MakeRowIs DEF MakeStatus
  <2> HIDE DEF r
  <2>4. ~With("odd_cancel") => old.inputs # "ALLOCATED"
    BY <1>5 DEF Only, With
  <2>5. Planned(r) /\ (~With("two_completes") => Once(r))
    BY <1>1, <1>3, <2>3, <2>4 DEF Planned, Once
  <2>6. ~With("odd_cancel") => HeldOf(m, r) = HeldOf(m, make[m])
    BY <2>3, <2>4 DEF HeldOf
  <2>7. MadeOf(m, r) = MadeOf(m, make[m])
    BY <1>1, <2>3 DEF MadeOf
  <2>8. make[m] \in Make
    BY <1>1
  <2> HIDE DEF old, open
  <2>9. MakeKeeps(m, r)
    BY <2>1, <2>3, <2>5, <2>6, <2>7, <2>8, MakeQuiet
  <2> QED BY <2>9
<1> QED BY <1>4, <1>5

\* complete, which has two steps: it reads the status, and then does all or nothing.
LEMMA CheckMakeKeeps ==
  ASSUME TypeOK, AllPlanned, OnceMade, NEW m \in Makes, CheckMake(m),
         Only("two_completes", make[m].checked > 0)
  PROVE  \E r : MakeKeeps(m, r)
<1> DEFINE old == make[m]
           n == old.checked + 1
           r == [old EXCEPT !.checked = n]
<1>1. /\ old \in Make /\ Planned(old) /\ (~With("two_completes") => Once(old))
      /\ old.status = "IN_PROGRESS" /\ old.checked < 2 /\ MakeOnly(m, r)
  BY MakesAre DEF CheckMake
<1>2. /\ old.inputs \in {"PENDING", "ALLOCATED", "CONSUMED"} /\ old.started \in BOOLEAN
      /\ old.checked \in 0 .. 2 /\ old.made \in Quantities
      /\ old = [status |-> old.status, inputs |-> old.inputs, started |-> old.started,
                checked |-> old.checked, made |-> old.made]
  BY <1>1, MakeIs
<1>3. n \in 0 .. 2 /\ (~With("two_completes") => n = 1)
  BY <1>1, <1>2 DEF Only, With
<1>4. r = MakeRow(old.status, old.inputs, old.started, n, old.made)
  <2> HIDE DEF old, n
  <2> QED BY <1>2 DEF MakeRow
<1>5. old.status \in MakeStatus
  BY <1>1 DEF MakeStatus
<1> HIDE DEF r, n
<1>6. r \in Make /\ r.status = old.status /\ r.inputs = old.inputs /\ r.checked = n
  BY <1>2, <1>3, <1>4, <1>5, MakeRowIs
<1>7. Planned(r) /\ (~With("two_completes") => Once(r))
  BY <1>1, <1>3, <1>6 DEF Planned, Once
<1>8. HeldOf(m, r) = HeldOf(m, make[m]) /\ MadeOf(m, r) = MadeOf(m, make[m])
  BY <1>1, <1>6 DEF HeldOf, MadeOf
<1>9. make[m] \in Make
  BY <1>1
<1> HIDE DEF old
<1>10. MakeKeeps(m, r)
  BY <1>1, <1>6, <1>7, <1>8, <1>9, MakeQuiet
<1> QED BY <1>10

LEMMA GrownOn ==
  ASSUME NEW b, NEW c, NEW d, Grown(b, c), Grown(c, d)
  PROVE  Grown(b, d)
<1>1. ASSUME NEW i \in DOMAIN b PROVE d[i].good = b[i].good /\ d[i].place = b[i].place
  BY DEF Grown
<1>2. DOMAIN b \subseteq DOMAIN d
  BY DEF Grown
<1> QED BY <1>1, <1>2 DEF Grown

\* What an order that is completed does to the levels, ...
LEMMA CompletedLevels ==
  ASSUME TypeOK, NEW m \in Makes, NEW out \in Quantities
  PROVE  LET l == Put(Take(Freed(m), Workshop, Ingredients[m]), Shelf, out)
             free == make[m].inputs = "ALLOCATED"
         IN  /\ l \in Table
             /\ \A g \in Goods, p \in Places :
                  /\ l[<<g, p>>].held = level[<<g, p>>].held
                       - (IF free /\ p = Workshop THEN Ingredients[m][g] ELSE 0)
                  /\ l[<<g, p>>].qty = level[<<g, p>>].qty
                       - (IF p = Workshop THEN Ingredients[m][g] ELSE 0)
                       + (IF p = Shelf THEN out[g] ELSE 0)
             /\ \A g \in Goods :
                  Stocked(l, g) = Stocked(level, g) + (out[g] - Ingredients[m][g])
<1> DEFINE q == Ingredients[m]
           free == make[m].inputs = "ALLOCATED"
           x == Freed(m)
           y == Take(x, Workshop, q)
           l == Put(y, Shelf, out)
<1>1. q \in Amount /\ out \in Amount /\ Workshop \in Places /\ Shelf \in Places /\ level \in Table
  BY GivenMakes, QuantitiesAreAmounts, StockIs
<1>2. /\ x \in Table
      /\ \A g \in Goods, p \in Places :
           /\ x[<<g, p>>].held = level[<<g, p>>].held - (IF free /\ p = Workshop THEN q[g] ELSE 0)
           /\ x[<<g, p>>].qty = level[<<g, p>>].qty
  <2>1. CASE free
    <3>1. x = Release(level, Workshop, q)
      BY <2>1 DEF Freed
    <3> HIDE DEF x, q
    <3> QED BY <1>1, <2>1, <3>1, ReleaseIs
  <2>2. CASE ~free
    <3>1. x = level
      BY <2>2 DEF Freed
    <3> HIDE DEF x, q
    <3> QED BY <1>1, <2>2, <3>1, StockIs
  <2> QED BY <2>1, <2>2
<1> HIDE DEF x, q, free
<1>3. /\ y \in Table
      /\ \A g \in Goods, p \in Places :
           /\ y[<<g, p>>].qty = x[<<g, p>>].qty - (IF p = Workshop THEN q[g] ELSE 0)
           /\ y[<<g, p>>].held = x[<<g, p>>].held
  BY <1>1, <1>2, TakeIs
<1> HIDE DEF y
<1>4. /\ l \in Table
      /\ \A g \in Goods, p \in Places :
           /\ l[<<g, p>>].qty = y[<<g, p>>].qty + (IF p = Shelf THEN out[g] ELSE 0)
           /\ l[<<g, p>>].held = y[<<g, p>>].held
  BY <1>1, <1>3, PutIs
<1> HIDE DEF l
<1>5. ASSUME NEW g \in Goods, NEW p \in Places
      PROVE  /\ l[<<g, p>>].held = level[<<g, p>>].held - (IF free /\ p = Workshop THEN q[g] ELSE 0)
             /\ l[<<g, p>>].qty = level[<<g, p>>].qty - (IF p = Workshop THEN q[g] ELSE 0)
                                    + (IF p = Shelf THEN out[g] ELSE 0)
  BY <1>2, <1>3, <1>4
<1>6. ASSUME NEW g \in Goods
      PROVE  Stocked(l, g) = Stocked(level, g) + (out[g] - q[g])
  <2> DEFINE n == -q[g]
             k == out[g]
  <2>1. q[g] \in Int /\ n \in Int /\ k \in Int
    BY <1>1 DEF Amount
  <2>2. \A p \in Places : y[<<g, p>>].qty = level[<<g, p>>].qty + (IF p = Workshop THEN n ELSE 0)
    <3>1. ASSUME NEW p \in Places
          PROVE  y[<<g, p>>].qty = level[<<g, p>>].qty + (IF p = Workshop THEN n ELSE 0)
      <4>1. level[<<g, p>>].qty \in Int
        BY StockIs
      <4>2. y[<<g, p>>].qty = level[<<g, p>>].qty - (IF p = Workshop THEN q[g] ELSE 0)
        BY <1>2, <1>3
      <4> QED BY <2>1, <4>1, <4>2
    <3> QED BY <3>1
  <2>3. \A p \in Places : l[<<g, p>>].qty = y[<<g, p>>].qty + (IF p = Shelf THEN k ELSE 0)
    BY <1>4
  <2>4. n = -q[g] /\ k = out[g]
    OBVIOUS
  <2> HIDE DEF n, k
  <2>5. Stocked(y, g) = Stocked(level, g) + n /\ Stocked(level, g) \in Int
    BY <1>1, <1>3, <2>1, <2>2, StockedMoves
  <2>6. Stocked(l, g) = Stocked(y, g) + k
    BY <1>1, <1>3, <1>4, <2>1, <2>3, StockedMoves
  <2> QED BY <2>1, <2>4, <2>5, <2>6
<1> QED BY <1>4, <1>5, <1>6 DEF l, y, x, q, free

\* ... and to the batches.
LEMMA CompletedBatches ==
  ASSUME TypeOK, NEW m \in Makes, NEW n \in Nat, CanDraw(batch, Workshop, Ingredients[m]),
         Output[m] \in Tracked => HasRoom(batch)
  PROVE  LET c == Stored(DrawAll(batch, Workshop, Ingredients[m]), m, n)
         IN  /\ Batches(c) /\ Grown(batch, c)
             /\ \A g \in Tracked, p \in Places :
                  Batched(c, g, p) = Batched(batch, g, p)
                                       - (IF p = Workshop THEN Ingredients[m][g] ELSE 0)
                                       + (IF g = Output[m] /\ p = Shelf THEN n ELSE 0)
<1> DEFINE b == DrawAll(batch, Workshop, Ingredients[m])
           c == Stored(b, m, n)
<1>1. Batches(batch) /\ Ingredients[m] \in Quantities /\ Workshop \in Places /\ Shelf \in Places
  BY StockIs, GivenMakes
<1>2. /\ Batches(b) /\ Grown(batch, b) /\ DOMAIN b = DOMAIN batch
      /\ \A h \in Tracked, r \in Places :
           Batched(b, h, r) = Batched(batch, h, r) - (IF r = Workshop THEN Ingredients[m][h] ELSE 0)
  BY <1>1, DrawAllIs
<1> HIDE DEF b
<1>3. /\ Batches(c) /\ Grown(b, c)
      /\ \A h \in Tracked, r \in Places :
           Batched(c, h, r) = Batched(b, h, r) + (IF h = Output[m] /\ r = Shelf THEN n ELSE 0)
  <2>1. CASE Output[m] \in Tracked
    <3> DEFINE g == Output[m]
    <3>1. HasRoom(b) /\ g \in Tracked
      BY <1>2, <2>1 DEF HasRoom, NextBatch
    <3>2. c = NewBatch(b, g, Shelf, n)
      BY <2>1 DEF Stored
    <3> HIDE DEF c
    <3>3. g = Output[m]
      OBVIOUS
    <3> HIDE DEF g
    <3> QED BY <1>1, <1>2, <3>1, <3>2, <3>3, NewBatchIs
  <2>2. CASE Output[m] \notin Tracked
    <3>1. c = b
      BY <2>2 DEF Stored
    <3>2. Grown(b, b)
      BY DEF Grown
    <3>3. ASSUME NEW h \in Tracked, NEW r \in Places
          PROVE  Batched(b, h, r) = Batched(b, h, r) + (IF h = Output[m] /\ r = Shelf THEN n ELSE 0)
      <4>1. h # Output[m] /\ Batched(b, h, r) \in Nat
        BY <1>2, <2>2, LyingIs
      <4> QED BY <4>1
    <3> HIDE DEF c
    <3> QED BY <1>2, <3>1, <3>2, <3>3
  <2> QED BY <2>1, <2>2
<1> HIDE DEF c
<1>4. Grown(batch, c)
  BY <1>2, <1>3, GrownOn
<1>5. \A h \in Tracked, r \in Places :
        Batched(c, h, r) = Batched(batch, h, r) - (IF r = Workshop THEN Ingredients[m][h] ELSE 0)
                             + (IF h = Output[m] /\ r = Shelf THEN n ELSE 0)
  BY <1>2, <1>3
<1> QED BY <1>3, <1>4, <1>5 DEF c, b

LEMMA CompleteMakeKeeps ==
  ASSUME TypeOK, AllPlanned, OnceMade, NEW m \in Makes, CompleteMake(m)
  PROVE  \E r : MakeKeeps(m, r)
<1> DEFINE old == make[m]
           k == old.checked - 1
<1>1. /\ old \in Make /\ Planned(old) /\ (~With("two_completes") => Once(old)) /\ old.checked > 0
  BY MakesAre DEF CompleteMake
<1>2. /\ old.status \in MakeStatus /\ old.inputs \in {"PENDING", "ALLOCATED", "CONSUMED"}
      /\ old.started \in BOOLEAN /\ old.checked \in 0 .. 2 /\ old.made \in Quantities
      /\ old = [status |-> old.status, inputs |-> old.inputs, started |-> old.started,
                checked |-> old.checked, made |-> old.made]
      /\ HeldOf(m, old) \in Quantities
      /\ Ingredients[m] \in Quantities /\ Besides[m] \in Quantities /\ Output[m] \in Goods
  BY <1>1, MakeIs
<1>3. k \in 0 .. 2 /\ (~With("two_completes") => k = 0 /\ old.status \in {"PLANNED", "IN_PROGRESS", "ON_HOLD"})
  BY <1>1, <1>2 DEF Once
<1>4. CASE ~CanConsume(m)
  <2> DEFINE r == [old EXCEPT !.checked = k]
  <2>1. MakeOnly(m, r)
    BY <1>4 DEF CompleteMake
  <2>2. r = MakeRow(old.status, old.inputs, old.started, k, old.made)
    <3> HIDE DEF old, k
    <3> QED BY <1>2 DEF MakeRow
  <2> HIDE DEF r, k
  <2>3. r \in Make /\ r.status = old.status /\ r.inputs = old.inputs /\ r.checked = k /\ r.made = old.made
    BY <1>2, <1>3, <2>2, MakeRowIs
  <2>4. Planned(r) /\ (~With("two_completes") => Once(r))
    BY <1>1, <1>3, <2>3 DEF Planned, Once
  <2>5. HeldOf(m, r) = HeldOf(m, make[m]) /\ MadeOf(m, r) = MadeOf(m, make[m]) /\ make[m] \in Make
    BY <1>1, <2>3 DEF HeldOf, MadeOf
  <2> HIDE DEF old
  <2>6. MakeKeeps(m, r)
    BY <2>1, <2>3, <2>4, <2>5, MakeQuiet
  <2> QED BY <2>6
<1>5. CASE CanConsume(m)
  <2> DEFINE Out(n) == Plus(Just(Output[m], n), Besides[m])
             Rest(n) == [old EXCEPT !.status = "COMPLETED", !.inputs = "CONSUMED",
                                    !.checked = k, !.made = Out(n)]
             Put_(n) == Put(Take(Freed(m), Workshop, Ingredients[m]), Shelf, Out(n))
             Left(n) == Stored(DrawAll(batch, Workshop, Ingredients[m]), m, n)
  <2>1. \E n \in Yields[m] : /\ make' = [make EXCEPT ![m] = Rest(n)]
                             /\ level' = Put_(n) /\ batch' = Left(n) /\ setting' = setting
    BY <1>5 DEF CompleteMake
  <2>2. PICK n \in Yields[m] : /\ make' = [make EXCEPT ![m] = Rest(n)]
                               /\ level' = Put_(n) /\ batch' = Left(n) /\ setting' = setting
    BY <2>1
  <2>3. n \in Nat
    BY GivenMakes
  <2> DEFINE out == Out(n)
             q == Ingredients[m]
             r == Rest(n)
             good == Output[m]
             free == old.inputs = "ALLOCATED"
  <2>4. /\ out \in Quantities
        /\ \A g \in Goods : out[g] = (IF g = good THEN n ELSE 0) + Besides[m][g]
    BY <1>2, <2>3, JustIs, PlusIs
  <2>5. CanDraw(batch, Workshop, q) /\ (good \in Tracked => HasRoom(batch))
    BY <1>5 DEF CompleteMake, CanConsume
  <2>6. /\ level' \in Table
        /\ \A g \in Goods, p \in Places :
             /\ level'[<<g, p>>].held = level[<<g, p>>].held - (IF free /\ p = Workshop THEN q[g] ELSE 0)
             /\ level'[<<g, p>>].qty = level[<<g, p>>].qty - (IF p = Workshop THEN q[g] ELSE 0)
                                         + (IF p = Shelf THEN out[g] ELSE 0)
        /\ \A g \in Goods : Stocked(level', g) = Stocked(level, g) + (out[g] - q[g])
    <3>1. level' = Put_(n)
      BY <2>2
    <3> HIDE DEF Out
    <3> QED BY <2>4, <3>1, CompletedLevels
  <2>7. /\ Batches(batch') /\ Grown(batch, batch')
        /\ \A g \in Tracked, p \in Places :
             Batched(batch', g, p) = Batched(batch, g, p) - (IF p = Workshop THEN q[g] ELSE 0)
                                       + (IF g = good /\ p = Shelf THEN n ELSE 0)
    <3>1. batch' = Left(n)
      BY <2>2
    <3> QED BY <2>3, <2>5, <3>1, CompletedBatches
  <2>8. r = MakeRow("COMPLETED", "CONSUMED", old.started, k, out)
    <3> DEFINE s == [old EXCEPT !.status = "COMPLETED"]
               t == [s EXCEPT !.inputs = "CONSUMED"]
               u == [t EXCEPT !.checked = k]
    <3> HIDE DEF old, k, out, Out
    <3>1. s = [status |-> "COMPLETED", inputs |-> old.inputs, started |-> old.started,
               checked |-> old.checked, made |-> old.made]
      BY <1>2
    <3>2. r = [u EXCEPT !.made = out]
      BY DEF out
    <3> HIDE DEF s
    <3>3. t = [status |-> "COMPLETED", inputs |-> "CONSUMED", started |-> old.started,
               checked |-> old.checked, made |-> old.made]
      BY <3>1
    <3> HIDE DEF t
    <3>4. u = [status |-> "COMPLETED", inputs |-> "CONSUMED", started |-> old.started,
               checked |-> k, made |-> old.made]
      BY <3>3
    <3> HIDE DEF u, r
    <3> QED BY <3>2, <3>4 DEF MakeRow
  <2>9. make' = [make EXCEPT ![m] = r] /\ setting' = setting
    BY <2>2
  <2> HIDE DEF r, out, k
  <2>10. r \in Make /\ r.status = "COMPLETED" /\ r.inputs = "CONSUMED" /\ r.checked = k /\ r.made = out
    BY <1>2, <1>3, <2>4, <2>8, MakeRowIs DEF MakeStatus
  <2>11. Planned(r) /\ (~With("two_completes") => Once(r))
    BY <1>3, <2>10 DEF Planned, Once
  <2>12. Sound
    BY <2>6, <2>7, <2>9 DEF Sound
  <2>13. InBatchesMatched
    <3>1. ASSUME NEW g \in InBatches, NEW p \in Places PROVE Match(g, p)
      <4>1. g \in Tracked /\ g \in Goods /\ Besides[m][g] = 0
        BY GivenGoods DEF InBatches
      <4> DEFINE a == Batched(batch, g, p)
                 b == level[<<g, p>>].qty
                 w == q[g]
      <4>2. a \in Int /\ b \in Int /\ w \in Int /\ out[g] = IF g = good THEN n ELSE 0
        BY <1>2, <2>3, <2>4, <4>1, StockIs, LyingIs DEF Quantities
      <4>3. /\ Batched(batch', g, p) = a - (IF p = Workshop THEN w ELSE 0)
                                         + (IF g = good /\ p = Shelf THEN n ELSE 0)
            /\ level'[<<g, p>>].qty = b - (IF p = Workshop THEN w ELSE 0)
                                        + (IF p = Shelf THEN out[g] ELSE 0)
        BY <2>6, <2>7, <4>1
      <4> HIDE DEF a, b, w, q, good
      <4>4. Batched(batch', g, p) - a = level'[<<g, p>>].qty - b
        BY <2>3, <4>2, <4>3
      <4> QED BY <4>4 DEF Match, a, b
    <3> QED BY <3>1 DEF InBatchesMatched
  <2>14. ~With("odd_cancel") =>
       \A g \in Goods, p \in Places :
         level'[<<g, p>>].held = level[<<g, p>>].held
                                   + (IF p = Workshop THEN HeldOf(m, r)[g] - HeldOf(m, make[m])[g] ELSE 0)
    <3>1. ASSUME ~With("odd_cancel"), NEW g \in Goods, NEW p \in Places
          PROVE  level'[<<g, p>>].held = level[<<g, p>>].held
                                   + (IF p = Workshop THEN HeldOf(m, r)[g] - HeldOf(m, make[m])[g] ELSE 0)
      <4> DEFINE a == level[<<g, p>>].held
                 b == HeldOf(m, old)[g]
      <4>1. HeldOf(m, r)[g] = 0 /\ a \in Int
        BY <2>10, NothingIsNothing, StockIs DEF HeldOf
      <4>2. b = (IF free THEN q[g] ELSE 0) /\ b \in Int
        BY <1>1, <1>2, <3>1, NothingIsNothing DEF HeldOf, Planned, Quantities
      <4>3. level'[<<g, p>>].held = a - (IF free /\ p = Workshop THEN q[g] ELSE 0)
        BY <2>6
      <4> HIDE DEF a, b, free, q
      <4>4. level'[<<g, p>>].held = a + (IF p = Workshop THEN 0 - b ELSE 0)
        BY <4>1, <4>2, <4>3
      <4> QED BY <4>1, <4>4 DEF a, b
    <3> QED BY <3>1
  <2>15. ~With("two_completes") => \A g \in Goods : StockedBy(g, MadeOf(m, r)[g] - MadeOf(m, make[m])[g])
    <3>1. ASSUME ~With("two_completes"), NEW g \in Goods
          PROVE  StockedBy(g, MadeOf(m, r)[g] - MadeOf(m, make[m])[g])
      <4>1. MadeOf(m, make[m])[g] = 0
        BY <1>3, <3>1, NothingIsNothing DEF MadeOf
      <4>2. MadeOf(m, r)[g] = out[g] - q[g] /\ MadeOf(m, r)[g] \in Int
        BY <1>2, <2>4, <2>10, MinusIs, QuantitiesAreAmounts DEF MadeOf, Amount
      <4>3. Stocked(level', g) = Stocked(level, g) + (out[g] - q[g])
        BY <2>6
      <4> DEFINE x == MadeOf(m, r)[g]
      <4>4. x \in Int /\ x = out[g] - q[g]
        BY <4>2
      <4> HIDE DEF x, q
      <4>5. x - 0 = out[g] - q[g]
        BY <4>4
      <4> QED BY <4>1, <4>3, <4>5 DEF x, StockedBy
    <3> QED BY <3>1
  <2> HIDE DEF old
  <2>16. MakeKeeps(m, r)
    BY <2>9, <2>10, <2>11, <2>12, <2>13, <2>14, <2>15 DEF MakeKeeps
  <2> QED BY <2>16
<1> QED BY <1>4, <1>5

\* A step of the production orders is one of these.
LEMMA MakeStepKeeps ==
  ASSUME TypeOK, AllPlanned, OnceMade, MakeStep
  PROVE  \E m \in Makes : \E r : MakeKeeps(m, r)
<1>1. PICK m \in Makes :
        \/ \E allocate \in BOOLEAN : CreateMake(m, allocate)
        \/ PlanMake(m)
        \/ StartMake(m)
        \/ HoldMake(m)
        \/ ResumeMake(m)
        \/ /\ Only("two_completes", make[m].checked > 0)
           /\ Only("odd_cancel", make[m].inputs = "ALLOCATED"
                                   /\ make[m].status \notin {"PLANNED", "IN_PROGRESS"})
           /\ CancelMake(m)
        \/ Only("two_completes", make[m].checked > 0) /\ CheckMake(m)
        \/ CompleteMake(m)
  BY DEF MakeStep
<1>2. CASE \E allocate \in BOOLEAN : CreateMake(m, allocate)
  BY <1>2, CreateMakeKeeps
<1>3. CASE PlanMake(m)
  BY <1>3, PlanMakeKeeps
<1>4. CASE StartMake(m) \/ HoldMake(m) \/ ResumeMake(m)
  BY <1>4, StartMakeKeeps
<1>5. CASE /\ Only("two_completes", make[m].checked > 0)
           /\ Only("odd_cancel", make[m].inputs = "ALLOCATED"
                                   /\ make[m].status \notin {"PLANNED", "IN_PROGRESS"})
           /\ CancelMake(m)
  BY <1>5, CancelMakeKeeps
<1>6. CASE Only("two_completes", make[m].checked > 0) /\ CheckMake(m)
  BY <1>6, CheckMakeKeeps
<1>7. CASE CompleteMake(m)
  BY <1>7, CompleteMakeKeeps
<1> QED BY <1>1, <1>2, <1>3, <1>4, <1>5, <1>6, <1>7

-----------------------------------------------------------------------------
(* Transfers.                                                              *)

\* A transfer names a batch of its good when its good has batches, ...
Itemized(b, r) ==
  /\ r.item.qty = 0 => r.item.batch = 0
  /\ r.item.qty > 0 => (r.item.batch = 0 <=> r.item.good \notin Tracked)
  /\ r.item.batch # 0 => r.item.batch \in DOMAIN b /\ b[r.item.batch].good = r.item.good
AllItemized == \A t \in Moves : Itemized(batch, move[t])
\* ... which lies where it departs.
Parked(b, r) == r.item.batch # 0 => b[r.item.batch].place = r.from
AllParked == ~With("relocate") => \A t \in Moves : Parked(batch, move[t])
\* What of a good is on its way.
OnWay(r, g) == IF r.status = "IN_TRANSIT" /\ r.item.good = g THEN r.item.qty ELSE 0
Straight == scene \cap {"cancel_in_transit", "relocate"} = {}

\* What a step of a transfer leaves behind.
MoveKeeps(t, r) ==
  /\ move' = [move EXCEPT ![t] = r]
  /\ r \in Move /\ Itemized(batch', r)
  /\ ~With("relocate") => Parked(batch', r)
  /\ Sound /\ HeldStays
  /\ Straight => Matched
  /\ \A g \in Goods : StockedBy(g, OnWay(move[t], g) - OnWay(r, g))

LEMMA MoveIs ==
  ASSUME NEW r \in Move
  PROVE  /\ r.status \in MoveStatus /\ r.from \in Places /\ r.to \in Places /\ r.item \in Item
         /\ r = [status |-> r.status, from |-> r.from, to |-> r.to, item |-> r.item]
         /\ r.item.good \in Goods /\ r.item.batch \in {0} \cup BatchIds
         /\ r.item.qty \in Nat /\ r.item.qty <= MaxAsked
         /\ r.item = [good |-> r.item.good, batch |-> r.item.batch, qty |-> r.item.qty]
<1>1. /\ r.status \in MoveStatus /\ r.from \in Places /\ r.to \in Places /\ r.item \in Item
      /\ r = [status |-> r.status, from |-> r.from, to |-> r.to, item |-> r.item]
  BY DEF Move
<1>2. /\ r.item.good \in Goods /\ r.item.batch \in {0} \cup BatchIds
      /\ r.item.qty \in 0 .. MaxAsked
      /\ r.item = [good |-> r.item.good, batch |-> r.item.batch, qty |-> r.item.qty]
  BY <1>1 DEF Item
<1> QED BY <1>1, <1>2, GivenMoves

LEMMA NoItemIs == NoItem \in Item /\ NoItem.qty = 0 /\ NoItem.batch = 0
<1>1. (CHOOSE g \in Goods : TRUE) \in Goods
  BY GivenBuys
<1>2. 0 \in 0 .. MaxAsked
  BY GivenMoves
<1> QED BY <1>1, <1>2 DEF NoItem, Item

LEMMA MovesAre ==
  ASSUME TypeOK, AllItemized, AllParked, NEW t \in Moves
  PROVE  move[t] \in Move /\ Itemized(batch, move[t]) /\ (~With("relocate") => Parked(batch, move[t]))
BY DEF TypeOK, AllItemized, AllParked

\* The same row, with other fields.
MoveRow(st, from, to, item) == [status |-> st, from |-> from, to |-> to, item |-> item]
LEMMA MoveRowIs ==
  ASSUME NEW st \in MoveStatus, NEW from \in Places, NEW to \in Places, NEW item \in Item
  PROVE  /\ MoveRow(st, from, to, item) \in Move
         /\ MoveRow(st, from, to, item).status = st /\ MoveRow(st, from, to, item).from = from
         /\ MoveRow(st, from, to, item).to = to /\ MoveRow(st, from, to, item).item = item
BY DEF MoveRow, Move

\* A transfer goes on to another status.
LEMMA MoveGoesOn ==
  ASSUME NEW r \in Move, NEW st \in MoveStatus
  PROVE  LET s == [r EXCEPT !.status = st]
         IN  /\ s \in Move /\ s.status = st /\ s.from = r.from /\ s.to = r.to /\ s.item = r.item
             /\ \A b : (Itemized(b, r) => Itemized(b, s)) /\ (Parked(b, r) => Parked(b, s))
<1> DEFINE s == [r EXCEPT !.status = st]
<1>1. /\ r.from \in Places /\ r.to \in Places /\ r.item \in Item
      /\ r = [status |-> r.status, from |-> r.from, to |-> r.to, item |-> r.item]
  BY MoveIs
<1>2. s = MoveRow(st, r.from, r.to, r.item)
  BY <1>1 DEF MoveRow
<1> HIDE DEF s
<1>3. s \in Move /\ s.status = st /\ s.from = r.from /\ s.to = r.to /\ s.item = r.item
  BY <1>1, <1>2, MoveRowIs
<1>4. \A b : (Itemized(b, r) => Itemized(b, s)) /\ (Parked(b, r) => Parked(b, s))
  BY <1>3 DEF Itemized, Parked
<1> QED BY <1>3, <1>4 DEF s

\* A step that changes neither levels nor batches.
LEMMA MoveQuiet ==
  ASSUME TypeOK, NEW t \in Moves, NEW r \in Move, MoveOnly(t, r),
         move[t].status # "IN_TRANSIT", r.status # "IN_TRANSIT",
         Itemized(batch, r), ~With("relocate") => Parked(batch, r)
  PROVE  MoveKeeps(t, r)
<1>1. move' = [move EXCEPT ![t] = r] /\ UNCHANGED <<levelVars, batch>>
  BY DEF MoveOnly
<1>2. /\ Sound /\ HeldStays /\ Matched /\ batch' = batch
      /\ \A g \in Goods : StockedBy(g, 0) /\ Stocked(level, g) \in Int
  BY <1>1, Quiet
<1>3. \A g \in Goods : OnWay(move[t], g) - OnWay(r, g) = 0
  BY DEF OnWay
<1>4. \A g \in Goods : StockedBy(g, OnWay(move[t], g) - OnWay(r, g))
  BY <1>2, <1>3
<1>5. Itemized(batch', r) /\ (~With("relocate") => Parked(batch', r))
  BY <1>2
<1> QED BY <1>1, <1>2, <1>4, <1>5 DEF MoveKeeps

\* n of a good is put somewhere, or taken from there.
LEMMA PutsOne ==
  ASSUME NEW l \in Table, NEW p \in Places, NEW g \in Goods, NEW n \in Nat
  PROVE  LET m == Put(l, p, Just(g, n))
         IN  /\ m \in Table
             /\ \A h \in Goods, r \in Places :
                  /\ m[<<h, r>>].held = l[<<h, r>>].held
                  /\ m[<<h, r>>].qty = l[<<h, r>>].qty + (IF h = g /\ r = p THEN n ELSE 0)
             /\ \A h \in Goods : Stocked(m, h) = Stocked(l, h) + (IF h = g THEN n ELSE 0)
             /\ \A h \in Goods : Stocked(l, h) \in Int
<1> DEFINE q == Just(g, n)
           m == Put(l, p, q)
<1>1. q \in Amount /\ \A h \in Goods : q[h] = IF h = g THEN n ELSE 0
  BY JustIs, QuantitiesAreAmounts
<1> HIDE DEF q
<1>2. /\ m \in Table
      /\ \A h \in Goods, r \in Places :
           /\ m[<<h, r>>].qty = l[<<h, r>>].qty + (IF r = p THEN q[h] ELSE 0)
           /\ m[<<h, r>>].held = l[<<h, r>>].held
  BY <1>1, PutIs
<1> HIDE DEF m
<1>3. ASSUME NEW h \in Goods, NEW r \in Places
      PROVE  m[<<h, r>>].qty = l[<<h, r>>].qty + (IF h = g /\ r = p THEN n ELSE 0)
  <2>1. m[<<h, r>>].qty = l[<<h, r>>].qty + (IF r = p THEN q[h] ELSE 0) /\ q[h] = IF h = g THEN n ELSE 0
    BY <1>1, <1>2
  <2> QED BY <2>1
<1>4. ASSUME NEW h \in Goods
      PROVE  Stocked(m, h) = Stocked(l, h) + (IF h = g THEN n ELSE 0) /\ Stocked(l, h) \in Int
  <2> DEFINE k == IF h = g THEN n ELSE 0
  <2>1. k \in Int /\ \A r \in Places : m[<<h, r>>].qty = l[<<h, r>>].qty + (IF r = p THEN k ELSE 0)
    BY <1>1, <1>2
  <2> HIDE DEF k
  <2>2. Stocked(m, h) = Stocked(l, h) + k /\ Stocked(l, h) \in Int
    BY <1>2, <2>1, StockedMoves
  <2> QED BY <2>2 DEF k
<1> QED BY <1>2, <1>3, <1>4 DEF m, q

LEMMA TakesOne ==
  ASSUME NEW l \in Table, NEW p \in Places, NEW g \in Goods, NEW n \in Nat
  PROVE  LET m == Take(l, p, Just(g, n))
         IN  /\ m \in Table
             /\ \A h \in Goods, r \in Places :
                  /\ m[<<h, r>>].held = l[<<h, r>>].held
                  /\ m[<<h, r>>].qty = l[<<h, r>>].qty - (IF h = g /\ r = p THEN n ELSE 0)
             /\ \A h \in Goods : Stocked(m, h) = Stocked(l, h) - (IF h = g THEN n ELSE 0)
             /\ \A h \in Goods : Stocked(l, h) \in Int
<1> DEFINE q == Just(g, n)
           m == Take(l, p, q)
<1>1. q \in Amount /\ \A h \in Goods : q[h] = IF h = g THEN n ELSE 0
  BY JustIs, QuantitiesAreAmounts
<1> HIDE DEF q
<1>2. /\ m \in Table
      /\ \A h \in Goods, r \in Places :
           /\ m[<<h, r>>].qty = l[<<h, r>>].qty - (IF r = p THEN q[h] ELSE 0)
           /\ m[<<h, r>>].held = l[<<h, r>>].held
  BY <1>1, TakeIs
<1> HIDE DEF m
<1>3. ASSUME NEW h \in Goods, NEW r \in Places
      PROVE  m[<<h, r>>].qty = l[<<h, r>>].qty - (IF h = g /\ r = p THEN n ELSE 0)
  <2>1. m[<<h, r>>].qty = l[<<h, r>>].qty - (IF r = p THEN q[h] ELSE 0) /\ q[h] = IF h = g THEN n ELSE 0
    BY <1>1, <1>2
  <2> QED BY <2>1
<1>4. ASSUME NEW h \in Goods
      PROVE  Stocked(m, h) = Stocked(l, h) - (IF h = g THEN n ELSE 0) /\ Stocked(l, h) \in Int
  <2> DEFINE k == IF h = g THEN -n ELSE 0
  <2>1. k \in Int
    OBVIOUS
  <2>2. \A r \in Places : m[<<h, r>>].qty = l[<<h, r>>].qty + (IF r = p THEN k ELSE 0)
    <3>1. ASSUME NEW r \in Places
          PROVE  m[<<h, r>>].qty = l[<<h, r>>].qty + (IF r = p THEN k ELSE 0)
      <4>1. l[<<h, r>>].qty \in Int
        BY DEF Table, Level
      <4> QED BY <1>3, <4>1
    <3> QED BY <3>1
  <2>3. k = IF h = g THEN -n ELSE 0
    OBVIOUS
  <2> HIDE DEF k
  <2>4. Stocked(m, h) = Stocked(l, h) + k /\ Stocked(l, h) \in Int
    BY <1>2, <2>1, <2>2, StockedMoves
  <2> QED BY <2>3, <2>4
<1> QED BY <1>2, <1>3, <1>4 DEF m, q

\* The batch of a transfer that is shipped is debited.
LEMMA DebitedIs ==
  ASSUME TypeOK, NEW r \in Move, Itemized(batch, r), CanShip(r)
  PROVE  LET b == Debited(r)
         IN  /\ Batches(b) /\ Grown(batch, b) /\ DOMAIN b = DOMAIN batch
             /\ Parked(batch, r) =>
                  \A h \in Tracked, p \in Places :
                    Batched(b, h, p) = Batched(batch, h, p)
                                         - (IF h = r.item.good /\ p = r.from THEN r.item.qty ELSE 0)
<1> DEFINE b == Debited(r)
           i == r.item.batch
           g == r.item.good
           n == r.item.qty
<1>1. Batches(batch) /\ n \in Nat
  BY StockIs, MoveIs
<1>2. CASE i = 0
  <2>1. b = batch
    BY <1>2 DEF Debited
  <2>2. g \notin Tracked \/ n = 0
    BY <1>1, <1>2 DEF Itemized
  <2>3. ASSUME NEW h \in Tracked, NEW p \in Places
        PROVE  Batched(batch, h, p) = Batched(batch, h, p) - (IF h = g /\ p = r.from THEN n ELSE 0)
    <3>1. Batched(batch, h, p) \in Nat
      BY <1>1, LyingIs
    <3> HIDE DEF g, n
    <3> QED BY <2>2, <3>1
  <2>4. Grown(batch, batch)
    BY DEF Grown
  <2> HIDE DEF b
  <2> QED BY <1>1, <2>1, <2>3, <2>4 DEF b
<1>3. CASE i # 0
  <2> DEFINE c == [batch EXCEPT ![i].qty = @ - n]
  <2>1. b = c
    BY <1>3 DEF Debited
  <2>2. i \in DOMAIN batch /\ batch[i].good = g /\ batch[i].qty >= n
    BY <1>3 DEF Itemized, CanShip
  <2>3. i = r.item.batch /\ g = r.item.good /\ n = r.item.qty
    OBVIOUS
  <2> HIDE DEF b, i, g, n
  <2>4. /\ Batches(c) /\ Grown(batch, c) /\ DOMAIN c = DOMAIN batch
        /\ \A h, p : Batched(c, h, p) = Batched(batch, h, p)
                                        - (IF h = batch[i].good /\ p = batch[i].place THEN n ELSE 0)
    BY <1>1, <2>2, DebitIs
  <2> HIDE DEF c
  <2>5. Parked(batch, r) => batch[i].place = r.from
    BY <1>3, <2>3 DEF Parked
  <2>6. Parked(batch, r) =>
          \A h \in Tracked, p \in Places :
            Batched(c, h, p) = Batched(batch, h, p) - (IF h = g /\ p = r.from THEN n ELSE 0)
    BY <2>2, <2>4, <2>5
  <2> QED BY <2>1, <2>3, <2>4, <2>6 DEF b, i, g, n
<1> QED BY <1>2, <1>3

\* It lands in a batch of its own.
LEMMA LandedIs ==
  ASSUME NEW b, Batches(b), NEW r \in Move, r.item.qty > 0 \/ r.item.batch = 0,
         r.item.qty > 0 => (r.item.batch = 0 <=> r.item.good \notin Tracked),
         r.item.batch # 0 => HasRoom(b), r.item.qty = 0 => r.item.batch = 0
  PROVE  LET c == Landed(r, b)
         IN  /\ Batches(c) /\ Grown(b, c)
             /\ \A h \in Tracked, p \in Places :
                  Batched(c, h, p) = Batched(b, h, p)
                                       + (IF h = r.item.good /\ p = r.to THEN r.item.qty ELSE 0)
<1> DEFINE c == Landed(r, b)
           g == r.item.good
           n == r.item.qty
<1>1. n \in Nat /\ r.to \in Places
  BY MoveIs
<1>2. CASE r.item.batch = 0
  <2>1. c = b
    BY <1>2 DEF Landed
  <2>2. g \notin Tracked \/ n = 0
    BY <1>1, <1>2
  <2>3. ASSUME NEW h \in Tracked, NEW p \in Places
        PROVE  Batched(b, h, p) = Batched(b, h, p) + (IF h = g /\ p = r.to THEN n ELSE 0)
    <3>1. Batched(b, h, p) \in Nat
      BY LyingIs
    <3> HIDE DEF g, n
    <3> QED BY <2>2, <3>1
  <2>4. Grown(b, b)
    BY DEF Grown
  <2> HIDE DEF c
  <2> QED BY <2>1, <2>3, <2>4 DEF c
<1>3. CASE r.item.batch # 0
  <2> DEFINE p == r.to
  <2>1. c = NewBatch(b, g, p, n)
    BY <1>3 DEF Landed
  <2>2. g \in Tracked /\ HasRoom(b)
    BY <1>1, <1>3
  <2>3. p = r.to /\ g = r.item.good /\ n = r.item.qty /\ p \in Places
    BY <1>1
  <2> HIDE DEF c, g, n, p
  <2>4. /\ Batches(NewBatch(b, g, p, n)) /\ Grown(b, NewBatch(b, g, p, n))
        /\ \A h, s : Batched(NewBatch(b, g, p, n), h, s)
                        = Batched(b, h, s) + (IF h = g /\ s = p THEN n ELSE 0)
    BY <1>1, <2>2, <2>3, NewBatchIs
  <2> QED BY <2>1, <2>3, <2>4 DEF c
<1> QED BY <1>2, <1>3

\* A transfer keeps its batch when batches are added.
LEMMA CarriesOn ==
  ASSUME NEW b, NEW c, Grown(b, c), NEW r
  PROVE  (Itemized(b, r) => Itemized(c, r)) /\ (Itemized(b, r) /\ Parked(b, r) => Parked(c, r))
BY DEF Grown, Itemized, Parked

LEMMA ShipMoveKeeps ==
  ASSUME TypeOK, AllItemized, AllParked, NEW t \in Moves, ShipMove(t)
  PROVE  \E r : MoveKeeps(t, r)
<1> DEFINE old == move[t]
           st == "IN_TRANSIT"
           r == [old EXCEPT !.status = st]
           g == old.item.good
           n == old.item.qty
<1>1. /\ old \in Move /\ Itemized(batch, old) /\ (~With("relocate") => Parked(batch, old))
      /\ old.status = "APPROVED" /\ CanShip(old)
  BY MovesAre DEF ShipMove
<1>2. /\ old.from \in Places /\ g \in Goods /\ n \in Nat
  BY <1>1, MoveIs
<1>3. /\ level' = Take(level, old.from, Just(g, n)) /\ batch' = Debited(old)
      /\ setting' = setting /\ move' = [move EXCEPT ![t].status = st]
  BY DEF ShipMove
<1>4. move' = [move EXCEPT ![t] = r]
  BY <1>3
<1>5. st \in MoveStatus /\ st = "IN_TRANSIT"
  BY DEF MoveStatus
<1> HIDE DEF st, r, old
<1>6. /\ r \in Move /\ r.status = st /\ r.from = old.from /\ r.to = old.to /\ r.item = old.item
      /\ Itemized(batch, r) /\ (Parked(batch, old) => Parked(batch, r))
  BY <1>1, <1>5, MoveGoesOn DEF r
<1>7. level \in Table
  BY StockIs
<1>8. /\ Batches(batch') /\ Grown(batch, batch')
      /\ Parked(batch, old) =>
           \A h \in Tracked, p \in Places :
             Batched(batch', h, p) = Batched(batch, h, p) - (IF h = g /\ p = old.from THEN n ELSE 0)
  BY <1>1, <1>3, DebitedIs
<1> HIDE DEF g, n
<1>9. /\ level' \in Table
      /\ \A h \in Goods, p \in Places :
           /\ level'[<<h, p>>].held = level[<<h, p>>].held
           /\ level'[<<h, p>>].qty = level[<<h, p>>].qty - (IF h = g /\ p = old.from THEN n ELSE 0)
      /\ \A h \in Goods : Stocked(level', h) = Stocked(level, h) - (IF h = g THEN n ELSE 0)
      /\ \A h \in Goods : Stocked(level, h) \in Int
  BY <1>2, <1>3, <1>7, TakesOne
<1>10. Sound /\ HeldStays
  BY <1>3, <1>8, <1>9 DEF Sound, HeldStays
<1>11. Straight => Matched
  <2>1. ASSUME Straight, NEW h \in Tracked, NEW p \in Places PROVE Match(h, p)
    <3>1. Parked(batch, old)
      BY <1>1, <2>1 DEF Straight, With
    <3> DEFINE a == Batched(batch, h, p)
               b == level[<<h, p>>].qty
    <3>2. a \in Int /\ b \in Int /\ h \in Goods
      BY StockIs, LyingIs, GivenGoods
    <3>3. /\ Batched(batch', h, p) = a - (IF h = g /\ p = old.from THEN n ELSE 0)
          /\ level'[<<h, p>>].qty = b - (IF h = g /\ p = old.from THEN n ELSE 0)
      BY <1>8, <1>9, <3>1, <3>2
    <3> HIDE DEF a, b
    <3>4. Batched(batch', h, p) - a = level'[<<h, p>>].qty - b
      BY <1>2, <3>2, <3>3
    <3> QED BY <3>4 DEF Match, a, b
  <2> QED BY <2>1 DEF Matched
<1>12. ASSUME NEW h \in Goods PROVE StockedBy(h, OnWay(move[t], h) - OnWay(r, h))
  <2>1. OnWay(move[t], h) = 0
    BY <1>1 DEF OnWay, old
  <2>2. OnWay(r, h) = IF h = g THEN n ELSE 0
    BY <1>5, <1>6 DEF OnWay, g, n
  <2> DEFINE k == IF h = g THEN n ELSE 0
             s == Stocked(level, h)
  <2>3. k \in Int /\ s \in Int /\ Stocked(level', h) = s - k
    BY <1>2, <1>9
  <2> HIDE DEF k, s
  <2>4. Stocked(level', h) = s + (0 - k)
    BY <2>3
  <2> QED BY <2>1, <2>2, <2>4 DEF StockedBy, s, k
<1>13. Itemized(batch', r) /\ (~With("relocate") => Parked(batch', r))
  BY <1>1, <1>6, <1>8, CarriesOn
<1>14. MoveKeeps(t, r)
  BY <1>4, <1>6, <1>10, <1>11, <1>12, <1>13 DEF MoveKeeps
<1> QED BY <1>14

LEMMA ReceiveMoveKeeps ==
  ASSUME TypeOK, AllItemized, AllParked, NEW t \in Moves, ReceiveMove(t)
  PROVE  \E r : MoveKeeps(t, r)
<1> DEFINE old == move[t]
           st == "RECEIVED"
           r == [old EXCEPT !.status = st]
           g == old.item.good
           n == old.item.qty
<1>1. /\ old \in Move /\ Itemized(batch, old) /\ (~With("relocate") => Parked(batch, old))
      /\ old.status = "IN_TRANSIT" /\ (old.item.batch # 0 => HasRoom(batch))
  BY MovesAre DEF ReceiveMove
<1>2. /\ old.to \in Places /\ g \in Goods /\ n \in Nat
  BY <1>1, MoveIs
<1>3. /\ level' = Put(level, old.to, Just(g, n)) /\ batch' = Landed(old, batch)
      /\ setting' = setting /\ move' = [move EXCEPT ![t].status = st]
  BY DEF ReceiveMove
<1>4. move' = [move EXCEPT ![t] = r]
  BY <1>3
<1>5. st \in MoveStatus /\ st = "RECEIVED"
  BY DEF MoveStatus
<1> HIDE DEF st, r, old
<1>6. /\ r \in Move /\ r.status = st /\ r.from = old.from /\ r.to = old.to /\ r.item = old.item
      /\ Itemized(batch, r) /\ (Parked(batch, old) => Parked(batch, r))
  BY <1>1, <1>5, MoveGoesOn DEF r
<1>7. level \in Table /\ Batches(batch)
  BY StockIs
<1>8. /\ Batches(batch') /\ Grown(batch, batch')
      /\ \A h \in Tracked, p \in Places :
             Batched(batch', h, p) = Batched(batch, h, p) + (IF h = g /\ p = old.to THEN n ELSE 0)
  <2>1. n > 0 \/ n = 0
    BY <1>2
  <2> QED BY <1>1, <1>3, <1>7, <2>1, LandedIs DEF Itemized
<1> HIDE DEF g, n
<1>9. /\ level' \in Table
      /\ \A h \in Goods, p \in Places :
           /\ level'[<<h, p>>].held = level[<<h, p>>].held
           /\ level'[<<h, p>>].qty = level[<<h, p>>].qty + (IF h = g /\ p = old.to THEN n ELSE 0)
      /\ \A h \in Goods : Stocked(level', h) = Stocked(level, h) + (IF h = g THEN n ELSE 0)
      /\ \A h \in Goods : Stocked(level, h) \in Int
  BY <1>2, <1>3, <1>7, PutsOne
<1>10. Sound /\ HeldStays
  BY <1>3, <1>8, <1>9 DEF Sound, HeldStays
<1>11. Matched
  <2>1. ASSUME NEW h \in Tracked, NEW p \in Places PROVE Match(h, p)
    <3> DEFINE a == Batched(batch, h, p)
               b == level[<<h, p>>].qty
    <3>2. a \in Int /\ b \in Int /\ h \in Goods
      BY StockIs, LyingIs, GivenGoods
    <3>3. /\ Batched(batch', h, p) = a + (IF h = g /\ p = old.to THEN n ELSE 0)
          /\ level'[<<h, p>>].qty = b + (IF h = g /\ p = old.to THEN n ELSE 0)
      BY <1>8, <1>9, <3>2
    <3> HIDE DEF a, b
    <3>4. Batched(batch', h, p) - a = level'[<<h, p>>].qty - b
      BY <1>2, <3>2, <3>3
    <3> QED BY <3>4 DEF Match, a, b
  <2> QED BY <2>1 DEF Matched
<1>12. ASSUME NEW h \in Goods PROVE StockedBy(h, OnWay(move[t], h) - OnWay(r, h))
  <2>1. OnWay(r, h) = 0
    BY <1>5, <1>6 DEF OnWay
  <2>2. OnWay(move[t], h) = IF h = g THEN n ELSE 0
    BY <1>1 DEF OnWay, g, n, old
  <2> DEFINE k == IF h = g THEN n ELSE 0
             s == Stocked(level, h)
  <2>3. k \in Int /\ s \in Int /\ Stocked(level', h) = s + k
    BY <1>2, <1>9
  <2> HIDE DEF k, s
  <2>4. Stocked(level', h) = s + (k - 0)
    BY <2>3
  <2> QED BY <2>1, <2>2, <2>4 DEF StockedBy, s, k
<1>13. Itemized(batch', r) /\ (~With("relocate") => Parked(batch', r))
  BY <1>1, <1>6, <1>8, CarriesOn
<1>14. MoveKeeps(t, r)
  BY <1>4, <1>6, <1>10, <1>11, <1>12, <1>13 DEF MoveKeeps
<1> QED BY <1>14

\* What a transfer may carry, from the requests.
LEMMA ItemFits ==
  ASSUME TypeOK, NEW g \in Goods, NEW i \in {0} \cup DOMAIN batch, NEW n \in 0 .. MaxAsked
  PROVE  [good |-> g, batch |-> i, qty |-> n] \in Item
<1>1. DOMAIN batch \subseteq BatchIds
  BY StockIs, BatchesAre
<1> QED BY <1>1 DEF Item

LEMMA CreateMoveKeeps ==
  ASSUME TypeOK, AllItemized, AllParked, NEW t \in Moves, NEW from \in Places, NEW to \in Places,
         NEW item \in Item, item.qty = 0 => item = NoItem,
         item.batch = 0 <=> item.good \notin Tracked, CreateMove(t, from, to, item)
  PROVE  \E r : MoveKeeps(t, r)
<1> DEFINE st == "DRAFT"
           i == IF Fits(item, from) THEN item ELSE NoItem
           r == MoveRow(st, from, to, i)
<1>1. MoveOnly(t, r) /\ move[t].status # "IN_TRANSIT"
  BY DEF CreateMove, MoveRow
<1>2. i \in Item /\ st \in MoveStatus /\ st # "IN_TRANSIT"
  BY NoItemIs DEF MoveStatus
<1>3. /\ i.qty = 0 => i.batch = 0
      /\ i.qty > 0 => (i.batch = 0 <=> i.good \notin Tracked)
      /\ i.batch # 0 => i.batch \in DOMAIN batch /\ batch[i.batch].good = i.good /\ batch[i.batch].place = from
  BY NoItemIs DEF Fits
<1> HIDE DEF st, i, r
<1>4. r \in Move /\ r.status = st /\ r.from = from /\ r.item = i
  BY <1>2, MoveRowIs DEF r
<1>5. Itemized(batch, r) /\ Parked(batch, r)
  BY <1>3, <1>4 DEF Itemized, Parked
<1>6. MoveKeeps(t, r)
  BY <1>1, <1>2, <1>4, <1>5, MoveQuiet
<1> QED BY <1>6

LEMMA AddItemKeeps ==
  ASSUME TypeOK, AllItemized, AllParked, NEW t \in Moves, NEW item \in Item,
         item.batch = 0 <=> item.good \notin Tracked, AddItem(t, item)
  PROVE  \E r : MoveKeeps(t, r)
<1> DEFINE old == move[t]
           n == item.qty + old.item.qty
           i == [item EXCEPT !.qty = n]
           r == [old EXCEPT !.item = i]
<1>1. /\ old \in Move /\ old.status \in {"DRAFT", "REQUESTED"} /\ MoveOnly(t, r)
      /\ item.qty > 0 /\ Fits(item, old.from) /\ old.item.qty + item.qty <= MaxAsked
  BY MovesAre DEF AddItem
<1>2. /\ old.status \in MoveStatus /\ old.from \in Places /\ old.to \in Places
      /\ old.item.qty \in Nat
      /\ old = [status |-> old.status, from |-> old.from, to |-> old.to, item |-> old.item]
  BY <1>1, MoveIs
<1>3. /\ item.good \in Goods /\ item.batch \in {0} \cup BatchIds /\ item.qty \in 0 .. MaxAsked
      /\ item = [good |-> item.good, batch |-> item.batch, qty |-> item.qty]
  BY DEF Item
<1>4. n \in 0 .. MaxAsked /\ n > 0
  BY <1>1, <1>2, <1>3, GivenMoves
<1> HIDE DEF n
<1>5. i = [good |-> item.good, batch |-> item.batch, qty |-> n]
  BY <1>3
<1> HIDE DEF i
<1>6. i \in Item /\ i.good = item.good /\ i.batch = item.batch /\ i.qty = n
  BY <1>3, <1>4, <1>5 DEF Item
<1> HIDE DEF old
<1>7. r = MoveRow(old.status, old.from, old.to, i)
  BY <1>2 DEF MoveRow
<1> HIDE DEF r
<1>8. r \in Move /\ r.status = old.status /\ r.from = old.from /\ r.item = i
  BY <1>2, <1>6, <1>7, MoveRowIs
<1>9. Itemized(batch, r) /\ Parked(batch, r)
  BY <1>1, <1>4, <1>6, <1>8 DEF Itemized, Parked, Fits
<1>10. move[t].status # "IN_TRANSIT" /\ r.status # "IN_TRANSIT"
  BY <1>1, <1>8 DEF old
<1>11. MoveKeeps(t, r)
  BY <1>1, <1>8, <1>9, <1>10, MoveQuiet
<1> QED BY <1>11

LEMMA RelocateKeeps ==
  ASSUME TypeOK, AllItemized, AllParked, NEW t \in Moves, With("relocate"),
         NEW from \in Places, NEW to \in Places, Relocate(t, from, to)
  PROVE  \E r : MoveKeeps(t, r)
<1> DEFINE old == move[t]
           s == [old EXCEPT !.from = from]
           r == [old EXCEPT !.from = from, !.to = to]
<1>1. /\ old \in Move /\ Itemized(batch, old) /\ old.status \in {"DRAFT", "REQUESTED"} /\ MoveOnly(t, r)
  BY MovesAre DEF Relocate
<1>2. /\ old.status \in MoveStatus /\ old.item \in Item
      /\ old = [status |-> old.status, from |-> old.from, to |-> old.to, item |-> old.item]
  BY <1>1, MoveIs
<1> HIDE DEF old
<1>3. s = [status |-> old.status, from |-> from, to |-> old.to, item |-> old.item]
  BY <1>2
<1>4. r = [s EXCEPT !.to = to]
  OBVIOUS
<1> HIDE DEF s, r
<1>5. r = MoveRow(old.status, from, to, old.item)
  BY <1>3, <1>4 DEF MoveRow
<1>6. r \in Move /\ r.status = old.status /\ r.item = old.item
  BY <1>2, <1>5, MoveRowIs
<1>7. Itemized(batch, r) /\ move[t].status # "IN_TRANSIT" /\ r.status # "IN_TRANSIT"
  BY <1>1, <1>6 DEF Itemized, old
<1>8. MoveKeeps(t, r)
  BY <1>1, <1>6, <1>7, MoveQuiet
<1> QED BY <1>8

\* A transfer that is not on its way, before or after, goes on.
LEMMA MoveGoesOnKeeps ==
  ASSUME TypeOK, AllItemized, AllParked, NEW t \in Moves, NEW st \in MoveStatus,
         st # "IN_TRANSIT", move[t].status # "IN_TRANSIT",
         MoveOnly(t, [move[t] EXCEPT !.status = st])
  PROVE  \E r : MoveKeeps(t, r)
<1> DEFINE r == [move[t] EXCEPT !.status = st]
<1>1. move[t] \in Move /\ Itemized(batch, move[t]) /\ (~With("relocate") => Parked(batch, move[t]))
  BY MovesAre
<1>2. /\ r \in Move /\ r.status = st
      /\ Itemized(batch, r) /\ (~With("relocate") => Parked(batch, r))
  BY <1>1, MoveGoesOn
<1>3. MoveOnly(t, r)
  OBVIOUS
<1> HIDE DEF r
<1>4. MoveKeeps(t, r)
  BY <1>2, <1>3, MoveQuiet
<1> QED BY <1>4

LEMMA RequestMoveKeeps ==
  ASSUME TypeOK, AllItemized, AllParked, NEW t \in Moves, RequestMove(t) \/ ApproveMove(t)
  PROVE  \E r : MoveKeeps(t, r)
<1>1. CASE RequestMove(t)
  <2> DEFINE st == "REQUESTED"
  <2>1. /\ st \in MoveStatus /\ st # "IN_TRANSIT" /\ move[t].status # "IN_TRANSIT"
        /\ MoveOnly(t, [move[t] EXCEPT !.status = st])
    BY <1>1 DEF RequestMove, MoveStatus
  <2> HIDE DEF st
  <2> QED BY <2>1, MoveGoesOnKeeps
<1>2. CASE ApproveMove(t)
  <2> DEFINE st == "APPROVED"
  <2>1. /\ st \in MoveStatus /\ st # "IN_TRANSIT" /\ move[t].status # "IN_TRANSIT"
        /\ MoveOnly(t, [move[t] EXCEPT !.status = st])
    BY <1>2 DEF ApproveMove, MoveStatus
  <2> HIDE DEF st
  <2> QED BY <2>1, MoveGoesOnKeeps
<1> QED BY <1>1, <1>2

LEMMA CancelMoveKeeps ==
  ASSUME TypeOK, AllItemized, AllParked, NEW t \in Moves, CancelMove(t),
         Only("cancel_in_transit", move[t].status = "IN_TRANSIT")
  PROVE  \E r : MoveKeeps(t, r)
<1> DEFINE old == move[t]
           st == "CANCELED"
           r == [old EXCEPT !.status = st]
           g == old.item.good
           n == old.item.qty
<1>1. /\ old \in Move /\ Itemized(batch, old) /\ (~With("relocate") => Parked(batch, old))
  BY MovesAre
<1>2. /\ old.from \in Places /\ g \in Goods /\ n \in Nat
  BY <1>1, MoveIs
<1>3. st \in MoveStatus /\ st # "IN_TRANSIT"
  BY DEF MoveStatus
<1>4. move' = [move EXCEPT ![t] = r] /\ setting' = setting /\ batch' = batch
  BY DEF CancelMove
<1>5. CASE old.status # "IN_TRANSIT"
  <2>1. MoveOnly(t, r)
    BY <1>4, <1>5 DEF CancelMove, MoveOnly, levelVars
  <2> HIDE DEF st
  <2> QED BY <1>3, <1>5, <2>1, MoveGoesOnKeeps
<1>6. CASE old.status = "IN_TRANSIT"
  <2>1. level' = Put(level, old.from, Just(g, n))
    BY <1>6 DEF CancelMove
  <2>2. ~Straight
    BY <1>6 DEF Straight, Only, With
  <2> HIDE DEF st, r, old
  <2>3. /\ r \in Move /\ r.status = st /\ r.from = old.from /\ r.to = old.to /\ r.item = old.item
        /\ Itemized(batch, r) /\ (Parked(batch, old) => Parked(batch, r))
    BY <1>1, <1>3, MoveGoesOn DEF r
  <2>4. level \in Table /\ Batches(batch)
    BY StockIs
  <2> HIDE DEF g, n
  <2>5. /\ level' \in Table
        /\ \A h \in Goods, p \in Places :
             /\ level'[<<h, p>>].held = level[<<h, p>>].held
             /\ level'[<<h, p>>].qty = level[<<h, p>>].qty + (IF h = g /\ p = old.from THEN n ELSE 0)
        /\ \A h \in Goods : Stocked(level', h) = Stocked(level, h) + (IF h = g THEN n ELSE 0)
        /\ \A h \in Goods : Stocked(level, h) \in Int
    BY <1>2, <2>1, <2>4, PutsOne
  <2>6. Sound /\ HeldStays
    BY <1>4, <2>4, <2>5 DEF Sound, HeldStays, Grown
  <2>7. ASSUME NEW h \in Goods PROVE StockedBy(h, OnWay(move[t], h) - OnWay(r, h))
    <3>1. OnWay(r, h) = 0
      BY <1>3, <2>3 DEF OnWay
    <3>2. OnWay(move[t], h) = IF h = g THEN n ELSE 0
      BY <1>6 DEF OnWay, g, n, old
    <3> DEFINE k == IF h = g THEN n ELSE 0
               s == Stocked(level, h)
    <3>3. k \in Int /\ s \in Int /\ Stocked(level', h) = s + k
      BY <1>2, <2>5
    <3> HIDE DEF k, s
    <3>4. Stocked(level', h) = s + (k - 0)
      BY <3>3
    <3> QED BY <3>1, <3>2, <3>4 DEF StockedBy, s, k
  <2>8. Itemized(batch', r) /\ (~With("relocate") => Parked(batch', r))
    BY <1>1, <1>4, <2>3
  <2>9. MoveKeeps(t, r)
    BY <1>4, <2>2, <2>3, <2>6, <2>7, <2>8 DEF MoveKeeps
  <2> QED BY <2>9
<1> QED BY <1>5, <1>6

\* quick_transfer, which goes as far as it can.
LEMMA QuickMoveKeeps ==
  ASSUME TypeOK, AllItemized, AllParked, NEW t \in Moves, NEW from \in Places, NEW to \in Places,
         NEW item \in Item, item.qty = 0 => item = NoItem,
         item.batch = 0 <=> item.good \notin Tracked, QuickMove(t, from, to, item)
  PROVE  \E r : MoveKeeps(t, r)
<1> DEFINE row == [status |-> "DRAFT", from |-> from, to |-> to, item |-> item]
<1>1. /\ row \in Move /\ row.item = item /\ row.status = "DRAFT" /\ row.from = from /\ row.to = to
      /\ move[t].status # "IN_TRANSIT" /\ item.qty > 0
  BY DEF Move, MoveStatus, QuickMove
<1>2. Fits(item, from) => Itemized(batch, row) /\ Parked(batch, row)
  BY <1>1 DEF Itemized, Parked, Fits
<1>3. CASE ~Fits(item, from)
  <2> DEFINE st == "DRAFT"
             i == NoItem
             r == MoveRow(st, from, to, i)
  <2>1. MoveOnly(t, [row EXCEPT !.item = NoItem])
    BY <1>3 DEF QuickMove
  <2>2. [row EXCEPT !.item = NoItem] = r
    BY DEF MoveRow
  <2>3. MoveOnly(t, r)
    BY <2>1, <2>2
  <2>4. i \in Item /\ i.qty = 0 /\ i.batch = 0 /\ st \in MoveStatus /\ st # "IN_TRANSIT"
    BY NoItemIs DEF MoveStatus
  <2> HIDE DEF r, st, i, row
  <2>5. r \in Move /\ r.status = st /\ r.item = i
    BY <2>4, MoveRowIs DEF r
  <2>6. Itemized(batch, r) /\ Parked(batch, r)
    BY <2>4, <2>5 DEF Itemized, Parked
  <2>7. MoveKeeps(t, r)
    BY <1>1, <2>3, <2>4, <2>5, <2>6, MoveQuiet
  <2> QED BY <2>7
<1>4. CASE Fits(item, from) /\ ~CanApprove(row)
  <2>1. MoveOnly(t, row)
    BY <1>4 DEF QuickMove
  <2> HIDE DEF row
  <2>2. MoveKeeps(t, row)
    BY <1>1, <1>2, <1>4, <2>1, MoveQuiet
  <2> QED BY <2>2
<1>5. CASE Fits(item, from) /\ CanApprove(row) /\ ~CanShip(row)
  <2> DEFINE st == "APPROVED"
             r == [row EXCEPT !.status = st]
  <2>1. MoveOnly(t, r)
    BY <1>5 DEF QuickMove
  <2>2. st \in MoveStatus /\ st # "IN_TRANSIT"
    BY DEF MoveStatus
  <2> HIDE DEF st, row
  <2>3. r \in Move /\ r.status = st /\ Itemized(batch, r) /\ Parked(batch, r)
    BY <1>1, <1>2, <1>5, <2>2, MoveGoesOn
  <2> HIDE DEF r
  <2>4. MoveKeeps(t, r)
    BY <1>1, <2>1, <2>2, <2>3, MoveQuiet
  <2> QED BY <2>4
<1>6. CASE Fits(item, from) /\ CanApprove(row) /\ CanShip(row)
  <2> DEFINE st == "RECEIVED"
             r == [row EXCEPT !.status = st]
             g == item.good
             n == item.qty
             l == Take(level, from, Just(g, n))
             b == Debited(row)
  <2>1. /\ HasRoom(batch) /\ setting' = setting /\ move' = [move EXCEPT ![t] = r]
        /\ level' = Put(l, to, Just(g, n)) /\ batch' = Landed(row, b)
    BY <1>6 DEF QuickMove
  <2>2. st \in MoveStatus /\ st # "IN_TRANSIT"
    BY DEF MoveStatus
  <2>3. g \in Goods /\ n \in Nat /\ level \in Table
    BY GivenMoves, StockIs DEF Item
  <2> HIDE DEF st, row
  <2>4. r \in Move /\ r.status = st /\ Itemized(batch, r) /\ Parked(batch, r)
    BY <1>1, <1>2, <1>6, <2>2, MoveGoesOn
  <2>5. /\ Batches(b) /\ Grown(batch, b) /\ DOMAIN b = DOMAIN batch
        /\ \A h \in Tracked, p \in Places :
             Batched(b, h, p) = Batched(batch, h, p) - (IF h = g /\ p = from THEN n ELSE 0)
    BY <1>1, <1>2, <1>6, DebitedIs
  <2> HIDE DEF b
  <2>6. HasRoom(b)
    BY <2>1, <2>5 DEF HasRoom, NextBatch
  <2>7. /\ Batches(batch') /\ Grown(b, batch')
        /\ \A h \in Tracked, p \in Places :
             Batched(batch', h, p) = Batched(b, h, p) + (IF h = g /\ p = to THEN n ELSE 0)
    BY <1>1, <2>1, <2>3, <2>5, <2>6, LandedIs
  <2>8. Grown(batch, batch')
    BY <2>5, <2>7, GrownOn
  <2> HIDE DEF g, n, r
  <2>9. /\ l \in Table
        /\ \A h \in Goods, p \in Places :
             /\ l[<<h, p>>].held = level[<<h, p>>].held
             /\ l[<<h, p>>].qty = level[<<h, p>>].qty - (IF h = g /\ p = from THEN n ELSE 0)
        /\ \A h \in Goods : Stocked(l, h) = Stocked(level, h) - (IF h = g THEN n ELSE 0)
        /\ \A h \in Goods : Stocked(level, h) \in Int
    BY <2>3, TakesOne
  <2> HIDE DEF l
  <2>10. /\ level' \in Table
         /\ \A h \in Goods, p \in Places :
             /\ level'[<<h, p>>].held = l[<<h, p>>].held
             /\ level'[<<h, p>>].qty = l[<<h, p>>].qty + (IF h = g /\ p = to THEN n ELSE 0)
         /\ \A h \in Goods : Stocked(level', h) = Stocked(l, h) + (IF h = g THEN n ELSE 0)
    <3>1. l \in Table
      BY <2>9
    <3>2. level' = Put(l, to, Just(g, n))
      BY <2>1
    <3> DEFINE m == Put(l, to, Just(g, n))
    <3>3. /\ m \in Table
          /\ \A h \in Goods, p \in Places :
               /\ m[<<h, p>>].held = l[<<h, p>>].held
               /\ m[<<h, p>>].qty = l[<<h, p>>].qty + (IF h = g /\ p = to THEN n ELSE 0)
          /\ \A h \in Goods : Stocked(m, h) = Stocked(l, h) + (IF h = g THEN n ELSE 0)
      BY <2>3, <3>1, PutsOne
    <3> HIDE DEF m
    <3>4. level' = m
      BY <3>2 DEF m
    <3> QED BY <3>3, <3>4
  <2>11. Sound /\ HeldStays
    BY <2>1, <2>7, <2>8, <2>9, <2>10 DEF Sound, HeldStays
  <2>12. Matched
    <3>1. ASSUME NEW h \in Tracked, NEW p \in Places PROVE Match(h, p)
      <4> DEFINE a == Batched(batch, h, p)
                 c == level[<<h, p>>].qty
                 x == IF h = g /\ p = from THEN n ELSE 0
                 y == IF h = g /\ p = to THEN n ELSE 0
      <4>1. a \in Int /\ c \in Int /\ x \in Int /\ y \in Int /\ h \in Goods
        BY <2>3, StockIs, LyingIs, GivenGoods
      <4>2. Batched(batch', h, p) = a - x + y /\ level'[<<h, p>>].qty = c - x + y
        BY <2>5, <2>7, <2>9, <2>10, <4>1
      <4> HIDE DEF a, c, x, y
      <4>3. Batched(batch', h, p) - a = level'[<<h, p>>].qty - c
        BY <4>1, <4>2
      <4> QED BY <4>3 DEF Match, a, c
    <3> QED BY <3>1 DEF Matched
  <2>13. ASSUME NEW h \in Goods PROVE StockedBy(h, OnWay(move[t], h) - OnWay(r, h))
    <3>1. OnWay(r, h) = 0 /\ OnWay(move[t], h) = 0
      BY <1>1, <2>2, <2>4 DEF OnWay
    <3> DEFINE k == IF h = g THEN n ELSE 0
               s == Stocked(level, h)
    <3>2. k \in Int /\ s \in Int /\ Stocked(level', h) = s - k + k
      BY <2>3, <2>9, <2>10
    <3> HIDE DEF k, s
    <3>3. Stocked(level', h) = s + (0 - 0)
      BY <3>2
    <3> QED BY <3>1, <3>3 DEF StockedBy, s
  <2>14. Itemized(batch', r) /\ Parked(batch', r)
    BY <2>4, <2>8, CarriesOn
  <2>15. MoveKeeps(t, r)
    BY <2>1, <2>4, <2>11, <2>12, <2>13, <2>14 DEF MoveKeeps
  <2> QED BY <2>15
<1> QED BY <1>3, <1>4, <1>5, <1>6

\* A step of the transfers is one of these.
LEMMA MoveStepKeeps ==
  ASSUME TypeOK, AllItemized, AllParked, MoveStep
  PROVE  \E t \in Moves : \E r : MoveKeeps(t, r)
<1> DEFINE
      Creates(t) ==
        \E from, to \in Places, g \in Goods, i \in {0} \cup DOMAIN batch, n \in 0 .. MaxAsked :
          LET item == [good |-> g, batch |-> i, qty |-> n]
          IN  /\ (i = 0) = (g \notin Tracked)
              /\ n = 0 => item = NoItem
              /\ CreateMove(t, from, to, item) \/ QuickMove(t, from, to, item)
      Itemizes(t) ==
        \E g \in Goods, i \in {0} \cup DOMAIN batch, n \in 1 .. MaxAsked :
          (i = 0) = (g \notin Tracked) /\ AddItem(t, [good |-> g, batch |-> i, qty |-> n])
      Sends(t) ==
        \/ With("relocate") /\ \E from, to \in Places : Relocate(t, from, to)
        \/ RequestMove(t) \/ ApproveMove(t) \/ ShipMove(t) \/ ReceiveMove(t)
        \/ Only("cancel_in_transit", move[t].status = "IN_TRANSIT") /\ CancelMove(t)
<1>1. PICK t \in Moves : Creates(t) \/ Itemizes(t) \/ Sends(t)
  BY DEF MoveStep
<1>2. ASSUME NEW from \in Places, NEW to \in Places, NEW g \in Goods, NEW i \in {0} \cup DOMAIN batch,
             NEW n \in 0 .. MaxAsked, i = 0 <=> g \notin Tracked,
             n = 0 => [good |-> g, batch |-> i, qty |-> n] = NoItem,
             \/ CreateMove(t, from, to, [good |-> g, batch |-> i, qty |-> n])
             \/ QuickMove(t, from, to, [good |-> g, batch |-> i, qty |-> n])
      PROVE  \E r : MoveKeeps(t, r)
  <2> DEFINE item == [good |-> g, batch |-> i, qty |-> n]
  <2>1. item \in Item /\ (item.qty = 0 => item = NoItem) /\ (item.batch = 0 <=> item.good \notin Tracked)
    BY <1>2, ItemFits
  <2>2. CreateMove(t, from, to, item) \/ QuickMove(t, from, to, item)
    BY <1>2
  <2> HIDE DEF item
  <2> QED BY <2>1, <2>2, CreateMoveKeeps, QuickMoveKeeps
<1>3. ASSUME NEW g \in Goods, NEW i \in {0} \cup DOMAIN batch, NEW n \in 1 .. MaxAsked,
             i = 0 <=> g \notin Tracked, AddItem(t, [good |-> g, batch |-> i, qty |-> n])
      PROVE  \E r : MoveKeeps(t, r)
  <2> DEFINE item == [good |-> g, batch |-> i, qty |-> n]
  <2>1. item \in Item /\ (item.batch = 0 <=> item.good \notin Tracked)
    BY <1>3, ItemFits, GivenMoves
  <2>2. AddItem(t, item)
    BY <1>3
  <2> HIDE DEF item
  <2> QED BY <2>1, <2>2, AddItemKeeps
<1>4. CASE With("relocate") /\ \E from, to \in Places : Relocate(t, from, to)
  BY <1>4, RelocateKeeps
<1>5. CASE RequestMove(t) \/ ApproveMove(t)
  BY <1>5, RequestMoveKeeps
<1>6. CASE ShipMove(t)
  BY <1>6, ShipMoveKeeps
<1>7. CASE ReceiveMove(t)
  BY <1>7, ReceiveMoveKeeps
<1>8. CASE Only("cancel_in_transit", move[t].status = "IN_TRANSIT") /\ CancelMove(t)
  BY <1>8, CancelMoveKeeps
<1>9. CASE Creates(t)
  BY <1>2, <1>9
<1>10. CASE Itemizes(t)
  BY <1>3, <1>10
<1>11. CASE Sends(t)
  <2>1. CASE With("relocate") /\ \E from, to \in Places : Relocate(t, from, to)
    BY <1>4, <2>1
  <2>2. CASE RequestMove(t) \/ ApproveMove(t)
    BY <1>5, <2>2
  <2>3. CASE ShipMove(t) \/ ReceiveMove(t)
    BY <1>6, <1>7, <2>3
  <2>4. CASE Only("cancel_in_transit", move[t].status = "IN_TRANSIT") /\ CancelMove(t)
    BY <1>8, <2>4
  <2> QED BY <1>11, <2>1, <2>2, <2>3, <2>4
<1> HIDE DEF Creates, Itemizes, Sends
<1> QED BY <1>1, <1>9, <1>10, <1>11

-----------------------------------------------------------------------------
(* Buying.                                                                 *)

\* A delivery that is not a row yet has no rows of its own, ...
Filed(dels) == \A d \in Deliveries : dels[d].status = "none" => dels[d].rows = <<>>
\* ... and has one at most, when no batch number is used twice; what is owed is what was
\* received and not paid.
Lone(dels) == \A d \in Deliveries : Len(dels[d].rows) <= 1
Owing(b, s) == s.balance = b.received - s.paid
\* When no delivery is late there is one draft, of one row, which the order awaits.
Awaited(b, dels) ==
  /\ \A d, e \in Deliveries : dels[d].status = "DRAFT" /\ dels[e].status = "DRAFT" => d = e
  /\ \A d \in Deliveries : dels[d].status = "DRAFT" =>
       /\ b.status \in {"CONFIRMED", "PARTIAL"}
       /\ Len(dels[d].rows) <= 1
       /\ dels[d].rows # <<>> => dels[d].rows[1].qty <= b.ordered - b.received
Open(b, s) ==
  /\ b.received <= b.ordered
  /\ b.status \in {"none", "DRAFT"} => b.received = 0
  /\ b.status \in Pending => s.active
Buying(b, dels, s) ==
  /\ Filed(dels)
  /\ ~With("lot_clash") => Lone(dels) /\ Owing(b, s)
  /\ ~With("late_delivery") => Awaited(b, dels) /\ Open(b, s)
AllBought == Buying(buy, delivery, supplier)

\* What a step of the buying leaves behind.
BuyKeeps ==
  /\ buy' \in Buy /\ delivery' \in [Deliveries -> Delivery] /\ supplier' \in Supplier
  /\ Buying(buy', delivery', supplier')
  /\ Sound /\ HeldStays /\ Matched
  /\ \A g \in Goods : StockedBy(g, IF g = Bought THEN buy'.received - buy.received ELSE 0)

LEMMA BuyIs ==
  ASSUME TypeOK
  PROVE  /\ buy \in Buy /\ buy.status \in BuyStatus /\ buy.ordered \in Nat /\ buy.received \in Nat
         /\ buy = [status |-> buy.status, ordered |-> buy.ordered, received |-> buy.received]
         /\ supplier \in Supplier /\ supplier.active \in BOOLEAN /\ supplier.balance \in Int
         /\ supplier.due \in Nat /\ supplier.paid \in Nat /\ supplier.lots \subseteq Lots
         /\ supplier = [active |-> supplier.active, balance |-> supplier.balance,
                        due |-> supplier.due, paid |-> supplier.paid, lots |-> supplier.lots]
         /\ delivery \in [Deliveries -> Delivery]
         /\ \A d \in Deliveries :
              /\ delivery[d].status \in {"none", "DRAFT", "COMPLETED"} /\ delivery[d].rows \in Seq(Row)
              /\ Len(delivery[d].rows) \in Nat
<1>1. buy \in Buy /\ supplier \in Supplier /\ delivery \in [Deliveries -> Delivery]
  BY DEF TypeOK
<1>2. ASSUME NEW d \in Deliveries
      PROVE  /\ delivery[d].status \in {"none", "DRAFT", "COMPLETED"} /\ delivery[d].rows \in Seq(Row)
             /\ Len(delivery[d].rows) \in Nat
  <2>1. delivery[d].status \in {"none", "DRAFT", "COMPLETED"} /\ delivery[d].rows \in Seq(Row)
    BY <1>1 DEF Delivery, Row
  <2> QED BY <2>1
<1> QED BY <1>1, <1>2 DEF Buy, Supplier

\* A step that changes neither levels nor batches, nor what was received.
LEMMA BuyQuiet ==
  ASSUME TypeOK, UNCHANGED <<levelVars, batch>>, buy' \in Buy, buy'.received = buy.received,
         delivery' \in [Deliveries -> Delivery], supplier' \in Supplier,
         Buying(buy', delivery', supplier')
  PROVE  BuyKeeps
<1>1. /\ Sound /\ HeldStays /\ Matched
      /\ \A g \in Goods : StockedBy(g, 0) /\ Stocked(level, g) \in Int
  BY Quiet
<1>2. \A g \in Goods : StockedBy(g, IF g = Bought THEN buy'.received - buy.received ELSE 0)
  <2>1. buy'.received - buy.received = 0
    BY BuyIs
  <2> QED BY <1>1, <2>1
<1> QED BY <1>1, <1>2 DEF BuyKeeps

BuyRow(st, ord, rec) == [status |-> st, ordered |-> ord, received |-> rec]
LEMMA BuyRowIs ==
  ASSUME NEW st \in BuyStatus, NEW ord \in Nat, NEW rec \in Nat
  PROVE  /\ BuyRow(st, ord, rec) \in Buy /\ BuyRow(st, ord, rec).status = st
         /\ BuyRow(st, ord, rec).ordered = ord /\ BuyRow(st, ord, rec).received = rec
BY DEF BuyRow, Buy

\* The order goes on, before anything is delivered, or is cancelled.
LEMMA BuyGoesOn ==
  ASSUME TypeOK, AllBought, NEW st \in BuyStatus, NEW ord \in Nat, BuyOnly(BuyRow(st, ord, buy.received)),
         ~With("late_delivery") => \A d \in Deliveries : delivery[d].status # "DRAFT",
         ~With("late_delivery") => Open(BuyRow(st, ord, buy.received), supplier)
  PROVE  BuyKeeps
<1> DEFINE b == BuyRow(st, ord, buy.received)
<1>1. b \in Buy /\ b.received = buy.received
  BY BuyIs, BuyRowIs
<1>2. /\ buy' = b /\ delivery' = delivery /\ supplier' = supplier /\ UNCHANGED <<levelVars, batch>>
      /\ (~With("late_delivery") => Open(b, supplier))
  BY DEF BuyOnly
<1> HIDE DEF b
<1>3. Buying(b, delivery, supplier)
  <2>1. Filed(delivery) /\ (~With("lot_clash") => Lone(delivery) /\ Owing(buy, supplier))
    BY DEF AllBought, Buying
  <2>2. ~With("lot_clash") => Owing(b, supplier)
    BY <1>1, <2>1 DEF Owing
  <2>3. ~With("late_delivery") => Awaited(b, delivery)
    BY DEF Awaited
  <2> QED BY <1>2, <2>1, <2>2, <2>3 DEF Buying
<1>4. delivery' \in [Deliveries -> Delivery] /\ supplier' \in Supplier
  BY <1>2, BuyIs
<1>5. Buying(buy', delivery', supplier')
  BY <1>2, <1>3
<1> QED BY <1>1, <1>2, <1>4, <1>5, BuyQuiet

\* While the order is not yet confirmed, nothing of it is delivered.
LEMMA NoDraft ==
  ASSUME AllBought, ~With("late_delivery"), buy.status \notin {"CONFIRMED", "PARTIAL"}
  PROVE  \A d \in Deliveries : delivery[d].status # "DRAFT"
BY DEF AllBought, Buying, Awaited

LEMMA OpenStays ==
  ASSUME AllBought, ~With("late_delivery")
  PROVE  Open(buy, supplier)
BY DEF AllBought, Buying

LEMMA CreateBuyKeeps ==
  ASSUME TypeOK, AllBought, NEW n \in 0 .. MaxOrdered, CreateBuy(n)
  PROVE  BuyKeeps
<1> DEFINE st == "DRAFT"
           s == [buy EXCEPT !.status = st]
           r == BuyRow(st, n, buy.received)
<1>1. /\ buy.status = "none" /\ supplier.active
      /\ BuyOnly([buy EXCEPT !.status = "DRAFT", !.ordered = n])
  BY DEF CreateBuy
<1>2. /\ buy.ordered \in Nat /\ buy.received \in Nat /\ n \in Nat
      /\ buy = [status |-> buy.status, ordered |-> buy.ordered, received |-> buy.received]
  BY BuyIs, GivenBuys
<1>3. [buy EXCEPT !.status = "DRAFT", !.ordered = n] = r
  <2>1. s = [status |-> st, ordered |-> buy.ordered, received |-> buy.received]
    BY <1>2
  <2>2. [buy EXCEPT !.status = "DRAFT", !.ordered = n] = [s EXCEPT !.ordered = n]
    OBVIOUS
  <2> HIDE DEF s
  <2> QED BY <2>1, <2>2 DEF BuyRow
<1>4. BuyOnly(r)
  BY <1>1, <1>3
<1>5. st \in BuyStatus /\ st = "DRAFT"
  BY DEF BuyStatus
<1>6. ~With("late_delivery") =>
        (\A d \in Deliveries : delivery[d].status # "DRAFT") /\ Open(r, supplier)
  <2>1. ASSUME ~With("late_delivery") PROVE Open(r, supplier)
    <3>1. buy.received = 0
      BY <1>1, <2>1, OpenStays DEF Open
    <3> HIDE DEF st
    <3>2. r.status = st /\ r.ordered = n /\ r.received = buy.received
      BY <1>2, <1>5, BuyRowIs
    <3> HIDE DEF r
    <3> QED BY <1>1, <1>2, <3>1, <3>2 DEF Open
  <2> QED BY <1>1, <2>1, NoDraft
<1> HIDE DEF st
<1> QED BY <1>2, <1>4, <1>5, <1>6, BuyGoesOn

\* add and update_item.
LEMMA LineKeeps ==
  ASSUME TypeOK, AllBought, NEW n \in 1 .. MaxOrdered, AddLine(n) \/ UpdateLine(n)
  PROVE  BuyKeeps
<1> DEFINE st == buy.status
           r == BuyRow(st, n, buy.received)
<1>1. buy.status = "DRAFT" /\ BuyOnly([buy EXCEPT !.ordered = n])
  BY DEF AddLine, UpdateLine
<1>2. /\ buy.ordered \in Nat /\ buy.received \in Nat /\ n \in Nat /\ st \in BuyStatus
      /\ buy = [status |-> buy.status, ordered |-> buy.ordered, received |-> buy.received]
  BY BuyIs, GivenBuys
<1>3. [buy EXCEPT !.ordered = n] = r
  BY <1>2 DEF BuyRow
<1>4. BuyOnly(r)
  BY <1>1, <1>3
<1>5. ~With("late_delivery") =>
        (\A d \in Deliveries : delivery[d].status # "DRAFT") /\ Open(r, supplier)
  <2>1. ASSUME ~With("late_delivery") PROVE Open(r, supplier)
    <3>1. buy.received = 0 /\ supplier.active
      BY <1>1, <2>1, OpenStays DEF Open, Pending
    <3> HIDE DEF st
    <3>2. r.status = st /\ r.ordered = n /\ r.received = buy.received
      BY <1>2, BuyRowIs
    <3> HIDE DEF r
    <3> QED BY <1>2, <3>1, <3>2 DEF Open
  <2> QED BY <1>1, <2>1, NoDraft
<1> HIDE DEF st
<1> QED BY <1>2, <1>4, <1>5, BuyGoesOn

\* send, confirm and cancel.
LEMMA SendBuyKeeps ==
  ASSUME TypeOK, AllBought,
         SendBuy \/ ConfirmBuy \/
           (Only("late_delivery", \E d \in Deliveries : delivery[d].status = "DRAFT") /\ CancelBuy)
  PROVE  BuyKeeps
<1>1. /\ buy.ordered \in Nat /\ buy.received \in Nat
      /\ buy = [status |-> buy.status, ordered |-> buy.ordered, received |-> buy.received]
  BY BuyIs
<1>2. ASSUME NEW st \in BuyStatus \ {"none", "DRAFT"}, buy.status \in {"DRAFT", "SENT", "CONFIRMED", "PARTIAL"},
             BuyOnly([buy EXCEPT !.status = st]),
             ~With("late_delivery") => \A d \in Deliveries : delivery[d].status # "DRAFT"
      PROVE  BuyKeeps
  <2> DEFINE o == buy.ordered
             r == BuyRow(st, o, buy.received)
  <2>1. [buy EXCEPT !.status = st] = r
    BY <1>1 DEF BuyRow
  <2>2. BuyOnly(r)
    BY <1>2, <2>1
  <2>3. ~With("late_delivery") => Open(r, supplier)
    <3>1. ASSUME ~With("late_delivery") PROVE Open(r, supplier)
      <4>1. buy.received <= buy.ordered /\ supplier.active
        BY <1>2, <3>1, OpenStays DEF Open, Pending
      <4>2. r.status = st /\ r.ordered = o /\ r.received = buy.received
        BY <1>1, <1>2, BuyRowIs
      <4> HIDE DEF r
      <4> QED BY <1>2, <4>1, <4>2 DEF Open
    <3> QED BY <3>1
  <2>4. o \in Nat /\ st \in BuyStatus
    BY <1>1
  <2> HIDE DEF o
  <2> QED BY <1>2, <2>2, <2>3, <2>4, BuyGoesOn
<1>3. CASE SendBuy
  <2> DEFINE st == "SENT"
  <2>1. st \in BuyStatus \ {"none", "DRAFT"} /\ buy.status = "DRAFT" /\ BuyOnly([buy EXCEPT !.status = st])
    BY <1>3 DEF SendBuy, BuyStatus
  <2> HIDE DEF st
  <2> QED BY <1>2, <2>1, NoDraft
<1>4. CASE ConfirmBuy
  <2> DEFINE st == "CONFIRMED"
  <2>1. st \in BuyStatus \ {"none", "DRAFT"} /\ buy.status = "SENT" /\ BuyOnly([buy EXCEPT !.status = st])
    BY <1>4 DEF ConfirmBuy, BuyStatus
  <2> HIDE DEF st
  <2> QED BY <1>2, <2>1, NoDraft
<1>5. CASE Only("late_delivery", \E d \in Deliveries : delivery[d].status = "DRAFT") /\ CancelBuy
  <2> DEFINE st == "CANCELED"
  <2>1. /\ st \in BuyStatus \ {"none", "DRAFT"} /\ buy.status \in {"DRAFT", "SENT", "CONFIRMED", "PARTIAL"}
        /\ BuyOnly([buy EXCEPT !.status = st])
    BY <1>5 DEF CancelBuy, BuyStatus
  <2>2. ~With("late_delivery") => \A d \in Deliveries : delivery[d].status # "DRAFT"
    BY <1>5 DEF Only
  <2> HIDE DEF st
  <2> QED BY <1>2, <2>1, <2>2
<1> QED BY <1>3, <1>4, <1>5

\* The supplier is paid, or no longer bought from.
LEMMA PaySupplierKeeps ==
  ASSUME TypeOK, AllBought, (\E n \in 1 .. MaxPaid : PaySupplier(n)) \/ DeactivateSupplier
  PROVE  BuyKeeps
<1>1. /\ supplier.active \in BOOLEAN /\ supplier.balance \in Int
      /\ supplier.due \in Nat /\ supplier.paid \in Nat /\ supplier.lots \subseteq Lots
      /\ supplier = [active |-> supplier.active, balance |-> supplier.balance,
                     due |-> supplier.due, paid |-> supplier.paid, lots |-> supplier.lots]
      /\ buy \in Buy /\ buy.received \in Nat /\ delivery \in [Deliveries -> Delivery]
  BY BuyIs
<1>2. \E a \in BOOLEAN, n \in Nat :
        /\ supplier' = [active |-> a, balance |-> supplier.balance - n, due |-> supplier.due,
                        paid |-> supplier.paid + n, lots |-> supplier.lots]
        /\ UNCHANGED <<buy, delivery, levelVars, batch>>
        /\ buy.status \in Pending => a = supplier.active
  <2>1. CASE \E n \in 1 .. MaxPaid : PaySupplier(n)
    <3>1. PICK n \in 1 .. MaxPaid : PaySupplier(n)
      BY <2>1
    <3> DEFINE x == supplier.balance - n
               y == supplier.paid + n
               s == [supplier EXCEPT !.balance = x]
               a == supplier.active
    <3>2. supplier' = [s EXCEPT !.paid = y] /\ UNCHANGED <<buy, delivery, levelVars, batch>>
      BY <3>1 DEF PaySupplier
    <3>3. n \in Nat /\ a \in BOOLEAN
      BY <1>1, GivenBuys
    <3> HIDE DEF x, y
    <3>4. s = [active |-> a, balance |-> x, due |-> supplier.due,
               paid |-> supplier.paid, lots |-> supplier.lots]
      BY <1>1
    <3> HIDE DEF s
    <3>5. supplier' = [active |-> a, balance |-> x, due |-> supplier.due, paid |-> y, lots |-> supplier.lots]
      BY <3>2, <3>4
    <3>6. supplier' = [active |-> a, balance |-> supplier.balance - n, due |-> supplier.due,
                       paid |-> supplier.paid + n, lots |-> supplier.lots]
      BY <3>5 DEF x, y
    <3> QED BY <3>2, <3>3, <3>6
  <2>2. CASE DeactivateSupplier
    <3> DEFINE a == FALSE
               n == 0
    <3>1. /\ supplier' = [supplier EXCEPT !.active = a] /\ buy.status \notin Pending
          /\ UNCHANGED <<buy, delivery, levelVars, batch>>
      BY <2>2 DEF DeactivateSupplier
    <3>2. a \in BOOLEAN /\ n \in Nat /\ supplier.balance - n = supplier.balance /\ supplier.paid + n = supplier.paid
      BY <1>1
    <3> HIDE DEF a, n
    <3>3. supplier' = [active |-> a, balance |-> supplier.balance, due |-> supplier.due,
                       paid |-> supplier.paid, lots |-> supplier.lots]
      BY <1>1, <3>1
    <3> QED BY <3>1, <3>2, <3>3
  <2> QED BY <2>1, <2>2
<1>3. PICK a \in BOOLEAN, n \in Nat :
        /\ supplier' = [active |-> a, balance |-> supplier.balance - n, due |-> supplier.due,
                        paid |-> supplier.paid + n, lots |-> supplier.lots]
        /\ UNCHANGED <<buy, delivery, levelVars, batch>>
        /\ buy.status \in Pending => a = supplier.active
  BY <1>2
<1>4. /\ supplier' \in Supplier /\ supplier'.balance = supplier.balance - n
      /\ supplier'.paid = supplier.paid + n /\ supplier'.active = a
  BY <1>1, <1>3 DEF Supplier
<1>5. Buying(buy, delivery, supplier')
  <2>1. Buying(buy, delivery, supplier)
    BY DEF AllBought
  <2>2. Owing(buy, supplier) => Owing(buy, supplier')
    BY <1>1, <1>4 DEF Owing
  <2>3. Open(buy, supplier) => Open(buy, supplier')
    BY <1>3, <1>4 DEF Open
  <2> QED BY <2>1, <2>2, <2>3 DEF Buying
<1> QED BY <1>1, <1>3, <1>4, <1>5, BuyQuiet

\* Deliveries where one has become of another status.
Became(x, d, st) ==
  /\ x \in [Deliveries -> Delivery]
  /\ \A e \in Deliveries : /\ x[e].rows = delivery[e].rows
                           /\ x[e].status = IF e = d THEN st ELSE delivery[e].status

LEMMA DeliveryBecomes ==
  ASSUME TypeOK, NEW d \in Deliveries, NEW st \in {"none", "DRAFT", "COMPLETED"}
  PROVE  Became([delivery EXCEPT ![d].status = st], d, st)
<1> DEFINE x == [delivery EXCEPT ![d].status = st]
<1>1. delivery \in [Deliveries -> Delivery]
  BY BuyIs
<1>2. \A e \in Deliveries : x[e] = IF e = d THEN [delivery[d] EXCEPT !.status = st] ELSE delivery[e]
  BY <1>1
<1>3. x \in [Deliveries -> Delivery]
  BY <1>1 DEF Delivery
<1>4. [delivery[d] EXCEPT !.status = st].rows = delivery[d].rows
      /\ [delivery[d] EXCEPT !.status = st].status = st
  BY <1>1 DEF Delivery
<1>5. ASSUME NEW e \in Deliveries
      PROVE  x[e].rows = delivery[e].rows /\ x[e].status = IF e = d THEN st ELSE delivery[e].status
  <2>1. x[e] = IF e = d THEN [delivery[d] EXCEPT !.status = st] ELSE delivery[e]
    BY <1>2
  <2> HIDE DEF x
  <2>2. CASE e = d
    BY <1>4, <2>1, <2>2
  <2>3. CASE e # d
    BY <2>1, <2>3
  <2> QED BY <2>2, <2>3
<1> HIDE DEF x
<1>6. Became(x, d, st)
  BY <1>3, <1>5 DEF Became
<1> QED BY <1>6 DEF x

LEMMA DeliveryGains ==
  ASSUME TypeOK, NEW d \in Deliveries, NEW row \in Row
  PROVE  LET x == [delivery EXCEPT ![d].rows = Append(@, row)]
         IN  /\ x \in [Deliveries -> Delivery]
             /\ \A e \in Deliveries :
                  /\ x[e].rows = IF e = d THEN Append(delivery[d].rows, row) ELSE delivery[e].rows
                  /\ x[e].status = delivery[e].status
             /\ Len(Append(delivery[d].rows, row)) = Len(delivery[d].rows) + 1
             /\ Len(delivery[d].rows) = 0 => Append(delivery[d].rows, row)[1] = row
<1> DEFINE rows == Append(delivery[d].rows, row)
           x == [delivery EXCEPT ![d].rows = Append(@, row)]
           y == [delivery[d] EXCEPT !.rows = rows]
<1>1. delivery \in [Deliveries -> Delivery] /\ delivery[d].rows \in Seq(Row)
      /\ delivery[d].status \in {"none", "DRAFT", "COMPLETED"}
  BY BuyIs
<1>2. rows \in Seq(Row) /\ Len(rows) = Len(delivery[d].rows) + 1
      /\ (Len(delivery[d].rows) = 0 => rows[1] = row)
  BY <1>1
<1>3. x = [delivery EXCEPT ![d] = y]
  BY <1>1
<1> HIDE DEF x, rows
<1>4. delivery[d] = [status |-> delivery[d].status, rows |-> delivery[d].rows]
  BY <1>1 DEF Delivery
<1>5. y = [status |-> delivery[d].status, rows |-> rows]
  <2> DEFINE z == delivery[d]
             a == z.status
  <2>1. z = [status |-> a, rows |-> z.rows]
    BY <1>4
  <2> HIDE DEF z, a
  <2>2. [z EXCEPT !.rows = rows] = [status |-> a, rows |-> rows]
    BY <2>1
  <2> QED BY <2>2 DEF z, a
<1> HIDE DEF y
<1>6. y \in Delivery /\ y.rows = rows /\ y.status = delivery[d].status
  BY <1>1, <1>2, <1>5 DEF Delivery, Row
<1>7. x \in [Deliveries -> Delivery] /\ \A e \in Deliveries : x[e] = IF e = d THEN y ELSE delivery[e]
  BY <1>1, <1>3, <1>6
<1>8. \A e \in Deliveries :
        /\ x[e].rows = IF e = d THEN rows ELSE delivery[e].rows
        /\ x[e].status = delivery[e].status
  BY <1>6, <1>7
<1> QED BY <1>2, <1>7, <1>8 DEF x, rows

LEMMA CreateDeliveryKeeps ==
  ASSUME TypeOK, AllBought, NEW d \in Deliveries, Only("late_delivery", ~Sole(d)), CreateDelivery(d)
  PROVE  BuyKeeps
<1> DEFINE st == "DRAFT"
           x == [delivery EXCEPT ![d].status = st]
<1>1. /\ delivery[d].status = "none" /\ buy.status \in {"CONFIRMED", "PARTIAL"}
      /\ delivery' = x /\ UNCHANGED <<buy, supplier, levelVars, batch>>
  BY DEF CreateDelivery
<1>2. st \in {"none", "DRAFT", "COMPLETED"} /\ st = "DRAFT"
  OBVIOUS
<1> HIDE DEF st
<1>3. /\ x \in [Deliveries -> Delivery]
      /\ \A e \in Deliveries : /\ x[e].rows = delivery[e].rows
                               /\ x[e].status = IF e = d THEN st ELSE delivery[e].status
  <2>1. Became(x, d, st)
    BY <1>2, DeliveryBecomes
  <2> HIDE DEF x
  <2> QED BY <2>1 DEF Became
<1> HIDE DEF x
<1>4. buy \in Buy /\ supplier \in Supplier
  BY BuyIs
<1>5. Buying(buy, x, supplier)
  <2>1. Buying(buy, delivery, supplier)
    BY DEF AllBought
  <2>2. Filed(x) /\ (Lone(delivery) => Lone(x))
    BY <1>2, <1>3, <2>1 DEF Buying, Filed, Lone
  <2>3. ~With("late_delivery") => Awaited(buy, x)
    <3>1. ASSUME ~With("late_delivery") PROVE Awaited(buy, x)
      <4>1. \A e \in Deliveries \ {d} : delivery[e].status # "DRAFT"
        BY <3>1 DEF Only, Sole
      <4>2. x[d].rows = <<>>
        BY <1>1, <1>3, <2>1 DEF Buying, Filed
      <4>3. Len(<<>>) <= 1
        OBVIOUS
      <4> QED BY <1>1, <1>3, <4>1, <4>2, <4>3 DEF Awaited
    <3> QED BY <3>1
  <2> QED BY <2>1, <2>2, <2>3 DEF Buying
<1> QED BY <1>1, <1>3, <1>4, <1>5, BuyQuiet

LEMMA AddDeliveredKeeps ==
  ASSUME TypeOK, AllBought, NEW d \in Deliveries, NEW n \in 1 .. MaxOrdered, NEW lot \in Lots \cup {NoLot},
         Only("late_delivery", ~Sole(d)),
         Only("lot_clash", lot \in supplier.lots \/ Len(delivery[d].rows) > 0),
         AddDelivered(d, n, lot)
  PROVE  BuyKeeps
<1> DEFINE row == [qty |-> n, lot |-> lot]
           x == [delivery EXCEPT ![d].rows = Append(@, row)]
           rows == Append(delivery[d].rows, row)
<1>1. /\ delivery[d].status = "DRAFT" /\ n <= buy.ordered - buy.received
      /\ delivery' = x /\ UNCHANGED <<buy, supplier, levelVars, batch>>
  BY DEF AddDelivered
<1>2. row \in Row /\ row.qty = n
  BY GivenBuys DEF Row
<1> HIDE DEF row
<1>3. /\ x \in [Deliveries -> Delivery]
      /\ \A e \in Deliveries :
           /\ x[e].rows = IF e = d THEN rows ELSE delivery[e].rows
           /\ x[e].status = delivery[e].status
      /\ Len(rows) = Len(delivery[d].rows) + 1
      /\ Len(delivery[d].rows) = 0 => rows[1] = row
  BY <1>2, DeliveryGains
<1> HIDE DEF x, rows
<1>4. buy \in Buy /\ supplier \in Supplier /\ Len(delivery[d].rows) \in Nat
  BY BuyIs
<1>5. Buying(buy, x, supplier)
  <2>1. Buying(buy, delivery, supplier)
    BY DEF AllBought
  <2>2. Filed(x)
    BY <1>1, <1>3, <2>1 DEF Buying, Filed
  <2>3. ~With("lot_clash") => Lone(x)
    <3>1. ASSUME ~With("lot_clash"), NEW e \in Deliveries PROVE Len(x[e].rows) <= 1
      <4>1. Len(delivery[d].rows) = 0
        BY <1>4, <3>1 DEF Only
      <4>2. Len(delivery[e].rows) <= 1
        BY <2>1, <3>1 DEF Buying, Lone
      <4>3. Len(rows) = 1
        BY <1>3, <4>1
      <4>4. CASE e = d
        <5>1. x[e].rows = rows
          BY <1>3, <4>4
        <5>2. Len(x[e].rows) = 1
          BY <4>3, <5>1
        <5> QED BY <5>2
      <4>5. CASE e # d
        <5>1. x[e].rows = delivery[e].rows
          BY <1>3, <4>5
        <5> QED BY <4>2, <5>1
      <4> QED BY <4>4, <4>5
    <3> QED BY <3>1 DEF Lone
  <2>4. ~With("late_delivery") => Awaited(buy, x)
    <3>1. ASSUME ~With("late_delivery") PROVE Awaited(buy, x)
      <4>1. Sole(d) /\ Len(delivery[d].rows) = 0
        BY <3>1 DEF Only, Sole
      <4>2. \A e \in Deliveries \ {d} : delivery[e].status # "DRAFT"
        BY <4>1 DEF Sole
      <4>3. x[d].rows = rows /\ Len(rows) <= 1 /\ rows[1].qty = n
        BY <1>2, <1>3, <4>1
      <4>4. buy.status \in {"CONFIRMED", "PARTIAL"}
        BY <1>1, <2>1, <3>1 DEF Buying, Awaited
      <4> QED BY <1>1, <1>3, <4>2, <4>3, <4>4 DEF Awaited
    <3> QED BY <3>1
  <2> QED BY <2>1, <2>2, <2>3, <2>4 DEF Buying
<1> QED BY <1>1, <1>3, <1>4, <1>5, BuyQuiet

\* What a delivery that is completed does to levels and batches.
LEMMA DeliveredIs ==
  ASSUME TypeOK, NEW rows \in Seq(Row),
         Bought \in Tracked => Cardinality(DOMAIN batch) + Len(rows) <= NumBatches,
         level' = Put(level, Dock, Just(Bought, Total(rows))), batch' = BatchPerRow(rows), setting' = setting
  PROVE  /\ Sound /\ HeldStays /\ Matched
         /\ \A g \in Goods : StockedBy(g, IF g = Bought THEN Total(rows) ELSE 0)
<1> DEFINE n == Total(rows)
<1>1. n \in Nat /\ Bought \in Goods /\ Dock \in Places /\ level \in Table /\ Batches(batch)
  BY TotalIs, GivenBuys, StockIs
<1>2. /\ Batches(batch') /\ Grown(batch, batch')
      /\ \A h \in Tracked, r \in Places :
           Batched(batch', h, r) = Batched(batch, h, r) + (IF h = Bought /\ r = Dock THEN n ELSE 0)
  BY <1>1, BatchPerRowIs
<1> HIDE DEF n
<1>3. /\ level' \in Table
      /\ \A h \in Goods, r \in Places :
           /\ level'[<<h, r>>].held = level[<<h, r>>].held
           /\ level'[<<h, r>>].qty = level[<<h, r>>].qty + (IF h = Bought /\ r = Dock THEN n ELSE 0)
      /\ \A h \in Goods : Stocked(level', h) = Stocked(level, h) + (IF h = Bought THEN n ELSE 0)
  <2> DEFINE m == Put(level, Dock, Just(Bought, n))
  <2>1. /\ m \in Table
        /\ \A h \in Goods, r \in Places :
             /\ m[<<h, r>>].held = level[<<h, r>>].held
             /\ m[<<h, r>>].qty = level[<<h, r>>].qty + (IF h = Bought /\ r = Dock THEN n ELSE 0)
        /\ \A h \in Goods : Stocked(m, h) = Stocked(level, h) + (IF h = Bought THEN n ELSE 0)
    BY <1>1, PutsOne
  <2>2. level' = m
    BY DEF n
  <2> HIDE DEF m
  <2> QED BY <2>1, <2>2
<1>4. Sound /\ HeldStays
  BY <1>2, <1>3 DEF Sound, HeldStays
<1>5. Matched
  <2>1. ASSUME NEW h \in Tracked, NEW p \in Places PROVE Match(h, p)
    <3> DEFINE a == Batched(batch, h, p)
               b == level[<<h, p>>].qty
    <3>1. a \in Int /\ b \in Int /\ h \in Goods
      BY StockIs, LyingIs, GivenGoods
    <3>2. /\ Batched(batch', h, p) = a + (IF h = Bought /\ p = Dock THEN n ELSE 0)
          /\ level'[<<h, p>>].qty = b + (IF h = Bought /\ p = Dock THEN n ELSE 0)
      BY <1>2, <1>3, <3>1
    <3> HIDE DEF a, b
    <3>3. Batched(batch', h, p) - a = level'[<<h, p>>].qty - b
      BY <1>1, <3>1, <3>2
    <3> QED BY <3>3 DEF Match, a, b
  <2> QED BY <2>1 DEF Matched
<1>6. \A g \in Goods : StockedBy(g, IF g = Bought THEN n ELSE 0)
  BY <1>3 DEF StockedBy
<1> QED BY <1>4, <1>5, <1>6 DEF n

LEMMA RowsThere ==
  ASSUME NEW rows \in Seq(Row), rows # <<>>
  PROVE  Len(rows) # 0
OBVIOUS

LEMMA OwedIs ==
  ASSUME NEW s \in Supplier, NEW n \in Nat
  PROVE  /\ Owed(s, n) \in Supplier /\ Owed(s, n).balance = s.balance + n
         /\ Owed(s, n).paid = s.paid /\ Owed(s, n).active = s.active
<1> DEFINE x == s.balance + n
           y == s.due + n
           t == [s EXCEPT !.balance = x]
<1>1. /\ s.active \in BOOLEAN /\ s.balance \in Int /\ s.due \in Nat /\ s.paid \in Nat /\ s.lots \subseteq Lots
      /\ s = [active |-> s.active, balance |-> s.balance, due |-> s.due, paid |-> s.paid, lots |-> s.lots]
  BY DEF Supplier
<1>2. x \in Int /\ y \in Nat
  BY <1>1
<1> HIDE DEF x
<1>3. t = [active |-> s.active, balance |-> x, due |-> s.due, paid |-> s.paid, lots |-> s.lots]
  BY <1>1
<1>4. Owed(s, n) = [t EXCEPT !.due = y]
  <2>1. t.due = s.due
    BY <1>3
  <2> QED BY <2>1 DEF Owed, x
<1> HIDE DEF t, y
<1>5. Owed(s, n) = [active |-> s.active, balance |-> x, due |-> y, paid |-> s.paid, lots |-> s.lots]
  BY <1>3, <1>4
<1> QED BY <1>1, <1>2, <1>5 DEF Supplier, x

LEMMA LottedIs ==
  ASSUME TypeOK, NEW named \in SUBSET Lots
  PROVE  LET s == [supplier EXCEPT !.lots = @ \cup named]
         IN  /\ s \in Supplier /\ s.balance = supplier.balance
             /\ s.paid = supplier.paid /\ s.active = supplier.active
<1> DEFINE x == supplier.lots \cup named
           s == [supplier EXCEPT !.lots = x]
<1>1. /\ supplier.active \in BOOLEAN /\ supplier.balance \in Int
      /\ supplier.due \in Nat /\ supplier.paid \in Nat /\ x \subseteq Lots
      /\ supplier = [active |-> supplier.active, balance |-> supplier.balance,
                     due |-> supplier.due, paid |-> supplier.paid, lots |-> supplier.lots]
  BY BuyIs
<1> HIDE DEF x
<1>2. s = [active |-> supplier.active, balance |-> supplier.balance,
           due |-> supplier.due, paid |-> supplier.paid, lots |-> x]
  BY <1>1
<1> QED BY <1>1, <1>2 DEF Supplier, x

\* complete books all rows of a delivery, or those before one whose batch number is taken.
LEMMA CompleteDeliveryKeeps ==
  ASSUME TypeOK, AllBought, NEW d \in Deliveries, CompleteDelivery(d)
  PROVE  BuyKeeps
<1> DEFINE rows == delivery[d].rows
           done == Booked(rows)
           n == Total(done)
           named == {done[k].lot : k \in DOMAIN done} \ {NoLot}
           lotted == [supplier EXCEPT !.lots = @ \cup named]
           sum == buy.received + n
<1>1. /\ delivery[d].status = "DRAFT" /\ rows # <<>>
      /\ Bought \in Tracked => Cardinality(DOMAIN batch) + Len(done) <= NumBatches
      /\ level' = Put(level, Dock, Just(Bought, n)) /\ batch' = BatchPerRow(done) /\ setting' = setting
      /\ done = rows => /\ delivery' = [delivery EXCEPT ![d].status = "COMPLETED"]
                        /\ buy' = [buy EXCEPT !.received = sum, !.status = StatusAfter(sum)]
                        /\ supplier' = Owed(lotted, n)
      /\ done # rows => /\ buy' = [buy EXCEPT !.received = sum]
                        /\ supplier' = lotted /\ delivery' = delivery
  BY BuyIs DEF CompleteDelivery
<1>2. /\ buy.status \in BuyStatus /\ buy.ordered \in Nat /\ buy.received \in Nat
      /\ buy = [status |-> buy.status, ordered |-> buy.ordered, received |-> buy.received]
      /\ supplier \in Supplier /\ supplier.balance \in Int /\ supplier.paid \in Nat
      /\ delivery \in [Deliveries -> Delivery] /\ rows \in Seq(Row) /\ Len(rows) \in Nat
  BY BuyIs
<1>3. /\ done \in Seq(Row) /\ Len(done) <= Len(rows)
      /\ Len(rows) <= 1 => done \in {rows, <<>>}
  BY <1>2, BookedIs
<1>4. n \in Nat /\ (done = <<>> => n = 0) /\ (Len(done) = 1 => n = done[1].qty)
  BY <1>3, TotalIs
<1>5. named \subseteq Lots
  <2>1. \A k \in DOMAIN done : done[k].lot \in Lots \cup {NoLot}
    <3>1. ASSUME NEW k \in DOMAIN done PROVE done[k] \in Row
      BY <1>3
    <3> QED BY <3>1 DEF Row
  <2> QED BY <2>1
<1> HIDE DEF named, done
<1>6. /\ lotted \in Supplier /\ lotted.balance = supplier.balance
      /\ lotted.paid = supplier.paid /\ lotted.active = supplier.active
  BY <1>5, LottedIs
<1>7. /\ Sound /\ HeldStays /\ Matched
      /\ \A g \in Goods : StockedBy(g, IF g = Bought THEN n ELSE 0)
  BY <1>1, <1>3, DeliveredIs
<1> HIDE DEF rows, lotted, n
<1>8. sum \in Nat /\ sum = buy.received + n
  BY <1>2, <1>4
<1> HIDE DEF sum
<1>9. Buying(buy, delivery, supplier)
  BY DEF AllBought
<1>10. CASE done # rows
  <2> DEFINE st == buy.status
             ord == buy.ordered
             b == BuyRow(st, ord, sum)
  <2>1. buy' = b
    BY <1>1, <1>2, <1>10 DEF BuyRow
  <2>2. st \in BuyStatus /\ ord \in Nat
    BY <1>2
  <2> HIDE DEF st, ord
  <2>3. b \in Buy /\ b.status = st /\ b.ordered = ord /\ b.received = sum
    BY <1>8, <2>2, BuyRowIs
  <2> HIDE DEF b
  <2>4. Buying(b, delivery, lotted)
    <3>1. ~With("lot_clash") => Owing(b, lotted)
      <4>1. ASSUME ~With("lot_clash") PROVE Owing(b, lotted)
        <5>1. n = 0 /\ Owing(buy, supplier)
          BY <1>3, <1>4, <1>9, <1>10, <4>1 DEF Buying, Lone, rows
        <5> QED BY <1>2, <1>6, <1>8, <2>3, <5>1 DEF Owing
      <4> QED BY <4>1
    <3>2. ~With("late_delivery") => Awaited(b, delivery) /\ Open(b, lotted)
      <4>1. ASSUME ~With("late_delivery") PROVE Awaited(b, delivery) /\ Open(b, lotted)
        <5>1. n = 0 /\ Awaited(buy, delivery) /\ Open(buy, supplier)
          BY <1>1, <1>3, <1>4, <1>9, <1>10, <4>1 DEF Buying, Awaited, rows
        <5>2. sum = buy.received
          BY <1>2, <1>8, <5>1
        <5>3. b.status = buy.status /\ b.ordered = buy.ordered /\ b.received = buy.received
          BY <2>3, <5>2 DEF st, ord
        <5>4. Awaited(b, delivery)
          BY <5>1, <5>3 DEF Awaited
        <5>5. Open(b, lotted)
          BY <1>6, <5>1, <5>3 DEF Open
        <5> QED BY <5>4, <5>5
      <4> QED BY <4>1
    <3> QED BY <1>9, <3>1, <3>2 DEF Buying
  <2>5. buy' = b /\ delivery' = delivery /\ supplier' = lotted
    BY <1>1, <1>10, <2>1
  <2>6. b.received - buy.received = n
    BY <1>2, <1>4, <1>8, <2>3
  <2>7. \A g \in Goods : StockedBy(g, IF g = Bought THEN buy'.received - buy.received ELSE 0)
    BY <1>7, <2>5, <2>6
  <2> QED BY <1>2, <1>6, <1>7, <2>3, <2>4, <2>5, <2>7 DEF BuyKeeps
<1>11. CASE done = rows
  <2> DEFINE st == StatusAfter(sum)
             ord == buy.ordered
             b == BuyRow(st, ord, sum)
             c == "COMPLETED"
             x == [delivery EXCEPT ![d].status = c]
             owed == Owed(lotted, n)
  <2>1. buy' = [buy EXCEPT !.received = sum, !.status = st] /\ delivery' = x /\ supplier' = owed
    BY <1>1, <1>11
  <2>2. /\ st \in BuyStatus /\ ord \in Nat
        /\ buy.status \in {"CONFIRMED", "PARTIAL"} => st \in {"RECEIVED", "PARTIAL", buy.status}
        /\ buy.status \in {"CONFIRMED", "PARTIAL"} => st \notin {"none", "DRAFT"}
    BY <1>2 DEF StatusAfter, BuyStatus
  <2>3. c \in {"none", "DRAFT", "COMPLETED"} /\ c # "DRAFT" /\ c # "none"
    OBVIOUS
  <2> HIDE DEF st, c
  <2>4. buy' = b
    <3> DEFINE a == [buy EXCEPT !.received = sum]
    <3>1. a = [status |-> buy.status, ordered |-> buy.ordered, received |-> sum]
      BY <1>2
    <3>2. buy' = [a EXCEPT !.status = st]
      BY <2>1
    <3> HIDE DEF a
    <3> QED BY <3>1, <3>2 DEF BuyRow
  <2> HIDE DEF ord
  <2>5. b \in Buy /\ b.status = st /\ b.ordered = ord /\ b.received = sum
    BY <1>8, <2>2, BuyRowIs
  <2>6. /\ x \in [Deliveries -> Delivery]
        /\ \A e \in Deliveries : /\ x[e].rows = delivery[e].rows
                                 /\ x[e].status = IF e = d THEN c ELSE delivery[e].status
    <3>1. Became(x, d, c)
      BY <2>3, DeliveryBecomes
    <3> HIDE DEF x
    <3> QED BY <3>1 DEF Became
  <2>7. /\ owed \in Supplier /\ owed.balance = supplier.balance + n
        /\ owed.paid = supplier.paid /\ owed.active = supplier.active
    BY <1>4, <1>6, OwedIs
  <2> HIDE DEF b, x, owed
  <2>8. Buying(b, x, owed)
    <3>1. Filed(x) /\ (Lone(delivery) => Lone(x))
      BY <1>9, <2>3, <2>6 DEF Buying, Filed, Lone
    <3>2. Owing(buy, supplier) => Owing(b, owed)
      BY <1>2, <1>4, <1>8, <2>5, <2>7 DEF Owing
    <3>3. ~With("late_delivery") => Awaited(b, x) /\ Open(b, owed)
      <4>1. ASSUME ~With("late_delivery") PROVE Awaited(b, x) /\ Open(b, owed)
        <5>1. Awaited(buy, delivery) /\ Open(buy, supplier)
          BY <1>9, <4>1 DEF Buying
        <5>2. /\ buy.status \in {"CONFIRMED", "PARTIAL"} /\ Len(rows) <= 1
              /\ rows[1].qty <= buy.ordered - buy.received
          BY <1>1, <5>1 DEF Awaited, rows
        <5>3. n <= buy.ordered - buy.received
          <6>1. Len(rows) = 1
            <7>1. Len(rows) # 0
              BY <1>1, <1>2, RowsThere DEF rows
            <7>2. Len(rows) \in Nat /\ Len(rows) <= 1
              BY <1>2, <5>2
            <7> DEFINE k == Len(rows)
            <7>3. k \in Nat /\ k <= 1 /\ k # 0
              BY <7>1, <7>2
            <7> HIDE DEF k
            <7>4. k = 1
              BY <7>3
            <7> QED BY <7>4 DEF k
          <6> QED BY <1>4, <1>11, <5>2, <6>1
        <5>4. sum <= ord
          BY <1>2, <1>4, <1>8, <5>3 DEF ord
        <5>5. Open(b, owed)
          BY <2>2, <2>5, <2>7, <5>1, <5>2, <5>4 DEF Open, Pending
        <5>6. \A e \in Deliveries : x[e].status # "DRAFT"
          BY <1>1, <2>3, <2>6, <5>1 DEF Awaited
        <5> QED BY <5>5, <5>6 DEF Awaited
      <4> QED BY <4>1
    <3> QED BY <1>9, <3>1, <3>2, <3>3 DEF Buying
  <2>9. b.received - buy.received = n
    BY <1>2, <1>4, <1>8, <2>5
  <2>10. \A g \in Goods : StockedBy(g, IF g = Bought THEN buy'.received - buy.received ELSE 0)
    BY <1>7, <2>4, <2>9
  <2> QED BY <1>7, <2>1, <2>4, <2>5, <2>6, <2>7, <2>8, <2>10 DEF BuyKeeps
<1> QED BY <1>10, <1>11

\* A step of the buying is one of these.
LEMMA BuyStepKeeps ==
  ASSUME TypeOK, AllBought, BuyStep
  PROVE  BuyKeeps
<1>1. CASE \E n \in 0 .. MaxOrdered : CreateBuy(n)
  BY <1>1, CreateBuyKeeps
<1>2. CASE \E n \in 1 .. MaxOrdered : AddLine(n) \/ UpdateLine(n)
  BY <1>2, LineKeeps
<1>3. CASE \/ SendBuy \/ ConfirmBuy
           \/ Only("late_delivery", \E d \in Deliveries : delivery[d].status = "DRAFT") /\ CancelBuy
  BY <1>3, SendBuyKeeps
<1>4. CASE \E d \in Deliveries : Only("late_delivery", ~Sole(d)) /\ CreateDelivery(d)
  BY <1>4, CreateDeliveryKeeps
<1>5. CASE \E d \in Deliveries, n \in 1 .. MaxOrdered, lot \in Lots \cup {NoLot} :
             /\ Only("late_delivery", ~Sole(d))
             /\ Only("lot_clash", lot \in supplier.lots \/ Len(delivery[d].rows) > 0)
             /\ AddDelivered(d, n, lot)
  BY <1>5, AddDeliveredKeeps
<1>6. CASE \E d \in Deliveries : CompleteDelivery(d)
  BY <1>6, CompleteDeliveryKeeps
<1>7. CASE (\E n \in 1 .. MaxPaid : PaySupplier(n)) \/ DeactivateSupplier
  BY <1>7, PaySupplierKeeps
<1> QED BY <1>1, <1>2, <1>3, <1>4, <1>5, <1>6, <1>7 DEF BuyStep

-----------------------------------------------------------------------------
(* Stock counts.                                                           *)

RecordedIn(r) == {line \in r.lines : r.counted[line] >= 0}
Known(b, r) == \A i \in r.lines \cap BatchIds : i \in DOMAIN b /\ b[i].place = r.place
\* A count starts with nothing recorded.
Fresh(r) == r.status \in {"none", "DRAFT"} => RecordedIn(r) = {}
\* What was recorded of a good is what its level says, or less by what was lost.
Near(l, a, lo, r) ==
  r.status \in {"IN_PROGRESS", "PENDING_APPROVAL"} =>
    \A g \in RecordedIn(r) \ BatchIds :
      LET x == <<g, r.place>>
          off == r.counted[g] - l[x].qty
      IN  a[x] <= off /\ off <= a[x] + lo[x]
Counted(cs, b, l, a, lo) ==
  \A c \in Counts : /\ Known(b, cs[c]) /\ Fresh(cs[c])
                    /\ ~With("moved_while_counted") => Near(l, a, lo, cs[c])
AllCounted == Counted(count, batch, level, astray, lost)
\* What is astray was lost.
Truth(a, lo) == \A x \in Goods \X Places : -lo[x] <= a[x] /\ a[x] <= 0
Truthful == ~With("moved_while_counted") => Truth(astray, lost)

\* The corrections of a good, at all places.
Corrected(k, g) == SumFunction([p \in Places |-> k[<<g, p>>]])
Cells == [Goods \X Places -> Int]
Losses == [Goods \X Places -> Nat]

\* What a step of the counts leaves behind.
CountKeeps ==
  /\ count' \in [Counts -> Count] /\ astray' \in Cells /\ lost' \in Losses /\ corrected' \in Cells
  /\ Counted(count', batch', level', astray', lost')
  /\ ~With("moved_while_counted") => Truth(astray', lost')
  /\ Sound /\ HeldStays /\ Matched
  /\ \A g \in Goods : StockedBy(g, Corrected(corrected', g) - Corrected(corrected, g))

LEMMA CountsAre ==
  ASSUME TypeOK
  PROVE  /\ count \in [Counts -> Count]
         /\ astray \in Cells /\ lost \in Losses /\ corrected \in Cells
         /\ \A x \in Goods \X Places : astray[x] \in Int /\ lost[x] \in Nat /\ corrected[x] \in Int
BY DEF TypeOK, Cells, Losses

LEMMA CountRowsAre ==
  ASSUME TypeOK, AllCounted, NEW c \in Counts
  PROVE  /\ count[c] \in Count /\ Recorded(c) = RecordedIn(count[c])
         /\ Known(batch, count[c]) /\ Knows(c) /\ Fresh(count[c])
         /\ ~With("moved_while_counted") => Near(level, astray, lost, count[c])
BY CountsAre DEF AllCounted, Counted, Recorded, RecordedIn, Knows, Known

LEMMA CountFields ==
  ASSUME NEW r \in Count
  PROVE  /\ r.status \in {"none", "DRAFT", "IN_PROGRESS", "PENDING_APPROVAL", "APPROVED", "CANCELED"}
         /\ r.place \in Places /\ r.auto \in BOOLEAN /\ r.lines \subseteq Lines
         /\ r.counted \in [Lines -> Nat \cup {-1}] /\ \A x \in Lines : r.counted[x] \in Int
         /\ r = [status |-> r.status, place |-> r.place, auto |-> r.auto, lines |-> r.lines,
                 counted |-> r.counted]
         /\ \A x \in RecordedIn(r) \ BatchIds : x \in Goods \ Tracked
<1>1. /\ r.status \in {"none", "DRAFT", "IN_PROGRESS", "PENDING_APPROVAL", "APPROVED", "CANCELED"}
      /\ r.place \in Places /\ r.auto \in BOOLEAN /\ r.lines \subseteq Lines
      /\ r.counted \in [Lines -> Nat \cup {-1}]
      /\ r = [status |-> r.status, place |-> r.place, auto |-> r.auto, lines |-> r.lines,
                 counted |-> r.counted]
  BY DEF Count
<1>2. \A x \in RecordedIn(r) \ BatchIds : x \in Goods \ Tracked
  BY <1>1 DEF RecordedIn, Lines
<1>3. \A x \in Lines : r.counted[x] \in Int
  <2>1. \A x \in Lines : r.counted[x] \in Nat \cup {-1}
    BY <1>1
  <2> QED BY <2>1
<1> QED BY <1>1, <1>2, <1>3

CountRow(st, p, au, li, co) ==
  [status |-> st, place |-> p, auto |-> au, lines |-> li, counted |-> co]
LEMMA CountRowIs ==
  ASSUME NEW st \in {"none", "DRAFT", "IN_PROGRESS", "PENDING_APPROVAL", "APPROVED", "CANCELED"},
         NEW p \in Places, NEW au \in BOOLEAN, NEW li \in SUBSET Lines, NEW co \in [Lines -> Nat \cup {-1}]
  PROVE  /\ CountRow(st, p, au, li, co) \in Count
         /\ CountRow(st, p, au, li, co).status = st /\ CountRow(st, p, au, li, co).place = p
         /\ CountRow(st, p, au, li, co).auto = au /\ CountRow(st, p, au, li, co).lines = li
         /\ CountRow(st, p, au, li, co).counted = co
BY DEF CountRow, Count

\* A count goes on to another status.
LEMMA CountGoesOn ==
  ASSUME NEW r \in Count,
         NEW st \in {"none", "DRAFT", "IN_PROGRESS", "PENDING_APPROVAL", "APPROVED", "CANCELED"}
  PROVE  LET s == [r EXCEPT !.status = st]
         IN  /\ s \in Count /\ s.status = st /\ s.place = r.place /\ s.lines = r.lines
             /\ s.counted = r.counted /\ RecordedIn(s) = RecordedIn(r)
             /\ \A b : Known(b, r) => Known(b, s)
<1> DEFINE s == [r EXCEPT !.status = st]
<1>1. /\ r.place \in Places /\ r.auto \in BOOLEAN /\ r.lines \subseteq Lines
      /\ r.counted \in [Lines -> Nat \cup {-1}]
      /\ r = [status |-> r.status, place |-> r.place, auto |-> r.auto, lines |-> r.lines,
              counted |-> r.counted]
  BY CountFields
<1>2. s = CountRow(st, r.place, r.auto, r.lines, r.counted)
  BY <1>1 DEF CountRow
<1> HIDE DEF s
<1>3. s \in Count /\ s.status = st /\ s.place = r.place /\ s.lines = r.lines /\ s.counted = r.counted
  BY <1>1, <1>2, CountRowIs
<1>4. RecordedIn(s) = RecordedIn(r) /\ \A b : Known(b, r) => Known(b, s)
  BY <1>3 DEF RecordedIn, Known
<1> QED BY <1>3, <1>4 DEF s

\* A step that changes one count only.
LEMMA CountQuiet ==
  ASSUME TypeOK, AllCounted, Truthful, NEW c \in Counts, NEW r \in Count, CountOnly(c, r),
         Known(batch, r), Fresh(r), ~With("moved_while_counted") => Near(level, astray, lost, r)
  PROVE  CountKeeps
<1>1. /\ count' = [count EXCEPT ![c] = r] /\ UNCHANGED <<levelVars, batch>>
      /\ astray' = astray /\ lost' = lost /\ corrected' = corrected
  BY DEF CountOnly
<1>2. /\ Sound /\ HeldStays /\ Matched /\ level' = level /\ batch' = batch
      /\ \A g \in Goods : StockedBy(g, 0) /\ Stocked(level, g) \in Int
  BY <1>1, Quiet
<1>3. count' \in [Counts -> Count] /\ \A d \in Counts : count'[d] = IF d = c THEN r ELSE count[d]
  BY <1>1, CountsAre
<1>4. Counted(count', batch', level', astray', lost')
  BY <1>1, <1>2, <1>3 DEF AllCounted, Counted
<1>5. \A g \in Goods : StockedBy(g, Corrected(corrected', g) - Corrected(corrected, g))
  <2>1. ASSUME NEW g \in Goods PROVE Corrected(corrected', g) - Corrected(corrected, g) = 0
    <3>1. Corrected(corrected, g) \in Int
      <4> DEFINE f == [p \in Places |-> corrected[<<g, p>>]]
      <4>1. \A p \in Places : f[p] \in Int
        BY CountsAre
      <4>2. Corrected(corrected, g) = SumFunctionOnSet(f, Places)
        BY DEF Corrected, SumFunction
      <4> HIDE DEF f
      <4> QED BY <4>1, <4>2, GivenGoods, SumIsInt
    <3> QED BY <1>1, <3>1
  <2> QED BY <1>2, <2>1
<1>6. ~With("moved_while_counted") => Truth(astray', lost')
  BY <1>1 DEF Truthful
<1>7. astray' \in Cells /\ lost' \in Losses /\ corrected' \in Cells
  BY <1>1, CountsAre
<1> QED BY <1>2, <1>3, <1>4, <1>5, <1>6, <1>7 DEF CountKeeps

LEMMA CreateCountKeeps ==
  ASSUME TypeOK, AllCounted, Truthful, NEW c \in Counts, NEW p \in Places, NEW scope \in Scopes,
         NEW auto \in BOOLEAN, CreateCount(c, p, scope, auto)
  PROVE  CountKeeps
<1> DEFINE st == "DRAFT"
           none == [l \in Lines |-> -1]
           lines == Populated(p, scope)
           r == CountRow(st, p, auto, lines, none)
<1>1. CountOnly(c, [NoCount EXCEPT !.status = st, !.place = p, !.auto = auto, !.lines = lines])
  BY DEF CreateCount
<1>2. [NoCount EXCEPT !.status = st, !.place = p, !.auto = auto, !.lines = lines] = r
  <2> DEFINE w == CHOOSE q \in Places : TRUE
             e == FALSE
             u == [NoCount EXCEPT !.status = st]
             v == [u EXCEPT !.place = p]
             y == [v EXCEPT !.auto = auto]
  <2>1. NoCount = [status |-> "none", place |-> w, auto |-> e, lines |-> {}, counted |-> none]
    BY DEF NoCount
  <2>2. [NoCount EXCEPT !.status = st, !.place = p, !.auto = auto, !.lines = lines] = [y EXCEPT !.lines = lines]
    OBVIOUS
  <2> HIDE DEF w, e, none, lines, st
  <2>3. u = [status |-> st, place |-> w, auto |-> e, lines |-> {}, counted |-> none]
    BY <2>1
  <2> HIDE DEF u
  <2>4. v = [status |-> st, place |-> p, auto |-> e, lines |-> {}, counted |-> none]
    BY <2>3
  <2> HIDE DEF v
  <2>5. y = [status |-> st, place |-> p, auto |-> auto, lines |-> {}, counted |-> none]
    BY <2>4
  <2> HIDE DEF y
  <2> QED BY <2>2, <2>5 DEF CountRow
<1>3. CountOnly(c, r)
  BY <1>1, <1>2
<1>4. lines \subseteq Lines
  <2>1. Batches(batch) /\ DOMAIN batch \subseteq BatchIds
    BY StockIs, BatchesAre
  <2>2. scope \subseteq Goods
    BY GivenCounts
  <2> QED BY <2>1, <2>2 DEF Populated, Lines
<1>5. \A i \in lines \cap BatchIds : i \in DOMAIN batch /\ batch[i].place = p
  BY GivenCounts DEF Populated
<1>6. none \in [Lines -> Nat \cup {-1}] /\ \A x \in Lines : ~(none[x] >= 0)
  OBVIOUS
<1>7. st \in {"none", "DRAFT", "IN_PROGRESS", "PENDING_APPROVAL", "APPROVED", "CANCELED"} /\ st = "DRAFT"
  OBVIOUS
<1> HIDE DEF none, lines, st
<1>8. r \in Count /\ r.status = st /\ r.place = p /\ r.lines = lines /\ r.counted = none
  BY <1>4, <1>6, <1>7, CountRowIs
<1> HIDE DEF r
<1>9. Known(batch, r)
  BY <1>5, <1>8 DEF Known
<1>10. Fresh(r)
  BY <1>4, <1>6, <1>8 DEF Fresh, RecordedIn
<1>11. Near(level, astray, lost, r)
  BY <1>7, <1>8 DEF Near
<1> QED BY <1>3, <1>8, <1>9, <1>10, <1>11, CountQuiet

\* A count whose numbers are not touched goes on.
LEMMA CountGoesOnKeeps ==
  ASSUME TypeOK, AllCounted, Truthful, NEW c \in Counts,
         NEW st \in {"IN_PROGRESS", "PENDING_APPROVAL", "APPROVED", "CANCELED"},
         count[c].status \in {"DRAFT", "IN_PROGRESS", "PENDING_APPROVAL"},
         CountOnly(c, [count[c] EXCEPT !.status = st])
  PROVE  CountKeeps
<1> DEFINE r == [count[c] EXCEPT !.status = st]
<1>1. /\ count[c] \in Count /\ Known(batch, count[c]) /\ Fresh(count[c])
      /\ ~With("moved_while_counted") => Near(level, astray, lost, count[c])
  BY CountRowsAre
<1>2. /\ r \in Count /\ r.status = st /\ r.place = count[c].place /\ r.lines = count[c].lines
      /\ r.counted = count[c].counted /\ RecordedIn(r) = RecordedIn(count[c])
      /\ Known(batch, count[c]) => Known(batch, r)
  <2>1. st \in {"none", "DRAFT", "IN_PROGRESS", "PENDING_APPROVAL", "APPROVED", "CANCELED"}
    OBVIOUS
  <2> QED BY <1>1, <2>1, CountGoesOn
<1>3. CountOnly(c, r)
  OBVIOUS
<1> HIDE DEF r
<1>4. Fresh(r)
  BY <1>2 DEF Fresh
<1>5. ASSUME ~With("moved_while_counted") PROVE Near(level, astray, lost, r)
  <2>1. CASE count[c].status = "DRAFT"
    <3>1. RecordedIn(r) = {}
      BY <1>1, <1>2, <2>1 DEF Fresh
    <3> QED BY <3>1 DEF Near
  <2>2. CASE count[c].status # "DRAFT"
    BY <1>1, <1>2, <1>5, <2>2 DEF Near
  <2> QED BY <2>1, <2>2
<1> QED BY <1>1, <1>2, <1>3, <1>4, <1>5, CountQuiet

LEMMA RecordCountKeeps ==
  ASSUME TypeOK, AllCounted, Truthful, NEW c \in Counts, NEW line \in count[c].lines, RecordCount(c, line)
  PROVE  CountKeeps
<1> DEFINE old == count[c]
           st == "IN_PROGRESS"
           cell == <<line, old.place>>
<1>1. /\ old \in Count /\ Known(batch, old) /\ Fresh(old)
      /\ ~With("moved_while_counted") => Near(level, astray, lost, old)
      /\ old.status \in {"DRAFT", "IN_PROGRESS"}
  BY CountRowsAre DEF RecordCount
<1>2. /\ old.place \in Places /\ old.auto \in BOOLEAN /\ old.lines \subseteq Lines
      /\ old.counted \in [Lines -> Nat \cup {-1}] /\ \A x \in Lines : old.counted[x] \in Int
      /\ old = [status |-> old.status, place |-> old.place, auto |-> old.auto, lines |-> old.lines,
                counted |-> old.counted]
      /\ \A x \in RecordedIn(old) \ BatchIds : x \in Goods \ Tracked
  BY <1>1, CountFields
<1>3. PICK n \in There(c, line) :
        n >= 0 /\ CountOnly(c, [old EXCEPT !.status = "IN_PROGRESS", !.counted[line] = n])
  BY DEF RecordCount
<1>4. line \in Lines /\ (line \in Goods <=> line \notin BatchIds) /\ (line \in Goods => line \notin Tracked)
  BY <1>2, LinesAre
<1>5. /\ n \in Nat
      /\ line \in Goods => n = level[cell].qty + astray[cell]
  <2>1. CASE line \in Goods
    <3>1. cell \in Goods \X Places
      BY <1>2, <2>1
    <3>2. n = level[cell].qty + astray[cell]
      BY <2>1 DEF There
    <3>3. level[cell].qty \in Int /\ astray[cell] \in Int
      BY <3>1, StockIs, CountsAre
    <3> QED BY <1>3, <3>2, <3>3
  <2>2. CASE line \notin Goods
    <3>1. line \in DOMAIN batch
      BY <1>1, <1>4, <2>2 DEF Known
    <3>2. batch[line].qty \in Nat
      BY <3>1, StockIs, BatchesAre
    <3>3. n \in 0 .. batch[line].qty
      BY <2>2 DEF There
    <3> QED BY <2>2, <3>2, <3>3
  <2> QED BY <2>1, <2>2
<1> DEFINE co == [old.counted EXCEPT ![line] = n]
           s == [old EXCEPT !.status = st]
           r == CountRow(st, old.place, old.auto, old.lines, co)
<1>6. CountOnly(c, r)
  <2>1. [old EXCEPT !.status = "IN_PROGRESS", !.counted[line] = n] = [s EXCEPT !.counted[line] = n]
    OBVIOUS
  <2> HIDE DEF old, st
  <2>2. s = [status |-> st, place |-> old.place, auto |-> old.auto, lines |-> old.lines,
             counted |-> old.counted]
    BY <1>2
  <2> HIDE DEF s
  <2>3. [s EXCEPT !.counted[line] = n] = r
    BY <2>2 DEF CountRow
  <2>4. CountOnly(c, [s EXCEPT !.counted[line] = n])
    BY <1>3, <2>1
  <2> QED BY <2>3, <2>4
<1>7. /\ co \in [Lines -> Nat \cup {-1}]
      /\ \A x \in Lines : co[x] = IF x = line THEN n ELSE old.counted[x]
  BY <1>2, <1>4, <1>5
<1>8. st \in {"none", "DRAFT", "IN_PROGRESS", "PENDING_APPROVAL", "APPROVED", "CANCELED"} /\ st = "IN_PROGRESS"
  OBVIOUS
<1> HIDE DEF co, st
<1>9. r \in Count /\ r.status = st /\ r.place = old.place /\ r.lines = old.lines /\ r.counted = co
  BY <1>2, <1>7, <1>8, CountRowIs
<1> HIDE DEF r, old
<1>10. Known(batch, r)
  BY <1>1, <1>9 DEF Known
<1>11. Fresh(r)
  BY <1>8, <1>9 DEF Fresh
<1>12. ASSUME ~With("moved_while_counted") PROVE Near(level, astray, lost, r)
  <2>1. ASSUME NEW g \in RecordedIn(r) \ BatchIds
        PROVE  /\ astray[<<g, r.place>>] <= r.counted[g] - level[<<g, r.place>>].qty
               /\ r.counted[g] - level[<<g, r.place>>].qty <= astray[<<g, r.place>>] + lost[<<g, r.place>>]
    <3>1. g \in Lines /\ g \in Goods
      BY <1>2, <1>9, LinesAre DEF RecordedIn
    <3> DEFINE x == <<g, r.place>>
               a == astray[x]
               b == level[x].qty
               l == lost[x]
    <3>2. a \in Int /\ b \in Int /\ l \in Nat
      <4>1. x \in Goods \X Places
        BY <1>2, <1>9, <3>1
      <4> QED BY <4>1, CountsAre, StockIs
    <3>3. CASE g = line
      <4>1. r.counted[g] = b + a
        BY <1>5, <1>7, <1>9, <3>1, <3>3
      <4> HIDE DEF a, b, l
      <4>2. a <= r.counted[g] - b /\ r.counted[g] - b <= a + l
        BY <3>2, <4>1
      <4> QED BY <4>2 DEF a, b, l
    <3>4. CASE g # line
      <4>1. r.counted[g] = old.counted[g]
        BY <1>7, <1>9, <3>1, <3>4
      <4>2. g \in RecordedIn(old) \ BatchIds
        BY <1>9, <4>1 DEF RecordedIn
      <4>3. old.status = "IN_PROGRESS"
        BY <1>1, <4>2 DEF Fresh
      <4>4. a <= old.counted[g] - b /\ old.counted[g] - b <= a + l
        BY <1>1, <1>9, <1>12, <4>2, <4>3 DEF Near
      <4> QED BY <4>1, <4>4
    <3> QED BY <3>3, <3>4
  <2> QED BY <2>1 DEF Near
<1> QED BY <1>6, <1>9, <1>10, <1>11, <1>12, CountQuiet

\* A piece is lost.
LEMMA LoseKeeps ==
  ASSUME TypeOK, AllCounted, Truthful, NEW g \in Goods, NEW p \in Places, Lose(g, p)
  PROVE  CountKeeps
<1> DEFINE x == <<g, p>>
<1>1. /\ astray' = [astray EXCEPT ![x] = @ - 1] /\ lost' = [lost EXCEPT ![x] = @ + 1]
      /\ count' = count /\ corrected' = corrected /\ UNCHANGED <<levelVars, batch>>
  BY DEF Lose
<1>2. x \in Goods \X Places
  OBVIOUS
<1> HIDE DEF x
<1>3. /\ astray' \in Cells /\ lost' \in Losses
      /\ \A y \in Goods \X Places : /\ astray'[y] = IF y = x THEN astray[y] - 1 ELSE astray[y]
                                    /\ lost'[y] = IF y = x THEN lost[y] + 1 ELSE lost[y]
  BY <1>1, <1>2, CountsAre DEF Cells, Losses
<1>4. /\ Sound /\ HeldStays /\ Matched /\ level' = level /\ batch' = batch
      /\ \A h \in Goods : StockedBy(h, 0) /\ Stocked(level, h) \in Int
  BY <1>1, Quiet
<1>5. ~With("moved_while_counted") => Truth(astray', lost')
  <2>1. ASSUME ~With("moved_while_counted"), NEW y \in Goods \X Places
        PROVE  -lost'[y] <= astray'[y] /\ astray'[y] <= 0
    <3>1. astray[y] \in Int /\ lost[y] \in Nat /\ -lost[y] <= astray[y] /\ astray[y] <= 0
      BY <2>1, CountsAre DEF Truthful, Truth
    <3> QED BY <1>3, <3>1
  <2> QED BY <2>1 DEF Truth
<1>6. Counted(count', batch', level', astray', lost')
  <2>1. ASSUME NEW c \in Counts, ~With("moved_while_counted") PROVE Near(level, astray', lost', count[c])
    <3> DEFINE r == count[c]
    <3>1. ASSUME NEW h \in RecordedIn(r) \ BatchIds, r.status \in {"IN_PROGRESS", "PENDING_APPROVAL"}
          PROVE  /\ astray'[<<h, r.place>>] <= r.counted[h] - level[<<h, r.place>>].qty
                 /\ r.counted[h] - level[<<h, r.place>>].qty <= astray'[<<h, r.place>>] + lost'[<<h, r.place>>]
      <4> DEFINE y == <<h, r.place>>
                 off == r.counted[h] - level[y].qty
      <4>1. /\ h \in Goods /\ r.place \in Places
            /\ astray[y] <= off /\ off <= astray[y] + lost[y] /\ r.counted[h] \in Int
        <5>1. r \in Count /\ Near(level, astray, lost, r)
          BY <2>1, CountRowsAre
        <5>2. h \in Goods /\ r.place \in Places /\ h \in Lines /\ r.counted[h] \in Int
          BY <3>1, <5>1, CountFields DEF RecordedIn
        <5> QED BY <3>1, <5>1, <5>2 DEF Near
      <4>2. y \in Goods \X Places
        BY <4>1
      <4>3. astray[y] \in Int /\ lost[y] \in Nat /\ off \in Int
        <5>1. astray[y] \in Int /\ lost[y] \in Nat
          BY <4>2, CountsAre
        <5>2. level[y].qty \in Int
          BY <4>2, StockIs
        <5> QED BY <4>1, <5>1, <5>2
      <4>4. /\ astray'[y] = IF y = x THEN astray[y] - 1 ELSE astray[y]
            /\ lost'[y] = IF y = x THEN lost[y] + 1 ELSE lost[y]
        BY <1>3, <4>2
      <4>5. astray[y] <= off /\ off <= astray[y] + lost[y]
        BY <4>1
      <4> HIDE DEF y, off
      <4>6. astray'[y] <= off /\ off <= astray'[y] + lost'[y]
        BY <4>3, <4>4, <4>5
      <4> QED BY <4>6 DEF y, off
    <3> QED BY <3>1 DEF Near
  <2> QED BY <1>1, <1>4, <2>1 DEF AllCounted, Counted
<1>7. \A h \in Goods : StockedBy(h, Corrected(corrected', h) - Corrected(corrected, h))
  <2>1. ASSUME NEW h \in Goods PROVE Corrected(corrected', h) - Corrected(corrected, h) = 0
    <3>1. Corrected(corrected, h) \in Int
      <4> DEFINE f == [q \in Places |-> corrected[<<h, q>>]]
      <4>1. \A q \in Places : f[q] \in Int
        BY CountsAre
      <4>2. Corrected(corrected, h) = SumFunctionOnSet(f, Places)
        BY DEF Corrected, SumFunction
      <4> HIDE DEF f
      <4> QED BY <4>1, <4>2, GivenGoods, SumIsInt
    <3> QED BY <1>1, <3>1
  <2> QED BY <1>4, <2>1
<1> QED BY <1>1, <1>3, <1>4, <1>5, <1>6, <1>7, CountsAre DEF CountKeeps

\* The corrections of a good, when one place changes.
LEMMA CorrectedMoves ==
  ASSUME NEW k \in Cells, NEW m \in Cells, NEW g \in Goods, NEW p \in Places, NEW n \in Int,
         \A r \in Places : m[<<g, r>>] = k[<<g, r>>] + (IF r = p THEN n ELSE 0)
  PROVE  Corrected(m, g) = Corrected(k, g) + n /\ Corrected(k, g) \in Int
<1> DEFINE f == [r \in Places |-> k[<<g, r>>]]
           h == [r \in Places |-> m[<<g, r>>]]
<1>1. \A r \in Places : f[r] \in Int /\ h[r] = f[r] + (IF r = p THEN n ELSE 0)
  BY DEF Cells
<1>2. /\ Corrected(k, g) = SumFunctionOnSet(f, Places)
      /\ Corrected(m, g) = SumFunctionOnSet(h, Places)
  BY DEF Corrected, SumFunction
<1> HIDE DEF f, h
<1>3. \A r \in Places : f[r] \in Int /\ h[r] \in Int
  BY <1>1
<1>4. SumFunctionOnSet(h, Places) = SumFunctionOnSet(f, Places) - f[p] + h[p]
  BY <1>1, <1>3, GivenGoods, SumChanges
<1>5. SumFunctionOnSet(f, Places) \in Int
  BY <1>1, GivenGoods, SumIsInt
<1> QED BY <1>1, <1>2, <1>4, <1>5

\* A count that is applied corrects the levels, and what is astray by as much.
LEMMA ApplyMoves ==
  ASSUME TypeOK, AllCounted, NEW c \in Counts, Apply(c, "APPROVED")
  PROVE  LET p == count[c].place
             q == Correction(c)
         IN  /\ q \in Amount /\ Sound /\ HeldStays /\ Matched
             /\ \A g \in Goods : StockedBy(g, q[g])
             /\ corrected' \in Cells /\ astray' \in Cells /\ lost' = lost
             /\ \A g \in Goods, r \in Places :
                  /\ level'[<<g, r>>].qty = level[<<g, r>>].qty + (IF r = p THEN q[g] ELSE 0)
                  /\ corrected'[<<g, r>>] = corrected[<<g, r>>] + (IF r = p THEN q[g] ELSE 0)
                  /\ astray'[<<g, r>>] = astray[<<g, r>>]
                                           - (IF r = p /\ g \notin Tracked THEN q[g] ELSE 0)
<1> DEFINE p == count[c].place
           q == Correction(c)
           l == Put(level, p, q)
           b == BatchesSet(c)
           k == [x \in DOMAIN corrected |->
                   IF x[2] = p THEN corrected[x] + q[x[1]] ELSE corrected[x]]
           a == [x \in DOMAIN astray |->
                   IF x[2] = p /\ x[1] \notin Tracked THEN astray[x] - q[x[1]] ELSE astray[x]]
<1>1. level' = l /\ batch' = b /\ corrected' = k /\ astray' = a /\ lost' = lost /\ setting' = setting
  BY DEF Apply
<1>2. Knows(c) /\ p \in Places
  BY CountRowsAre, CountIs
<1>3. q \in Amount
  BY <1>2, CorrectionIs
<1>4. /\ Batches(b) /\ Grown(batch, b)
      /\ \A g \in Tracked, r \in Places :
           Batched(b, g, r) = Batched(batch, g, r) + (IF r = p THEN q[g] ELSE 0)
  BY <1>2, BatchesSetIs
<1>5. level \in Table /\ Batches(batch)
  BY StockIs
<1> HIDE DEF p, q, b
<1>6. /\ l \in Table
      /\ \A g \in Goods, r \in Places :
           /\ l[<<g, r>>].qty = level[<<g, r>>].qty + (IF r = p THEN q[g] ELSE 0)
           /\ l[<<g, r>>].held = level[<<g, r>>].held
  BY <1>2, <1>3, <1>5, PutIs
<1>7. k \in Cells /\ a \in Cells
  <2>1. \A x \in Goods \X Places : x[1] \in Goods /\ q[x[1]] \in Int
    BY <1>3 DEF Amount
  <2>2. corrected \in Cells /\ astray \in Cells
    BY CountsAre
  <2> QED BY <2>1, <2>2 DEF Cells
<1>8. ASSUME NEW g \in Goods, NEW r \in Places
      PROVE  /\ k[<<g, r>>] = corrected[<<g, r>>] + (IF r = p THEN q[g] ELSE 0)
             /\ a[<<g, r>>] = astray[<<g, r>>] - (IF r = p /\ g \notin Tracked THEN q[g] ELSE 0)
  <2> DEFINE x == <<g, r>>
  <2>1. x \in Goods \X Places /\ x[1] = g /\ x[2] = r
    OBVIOUS
  <2>2. x \in DOMAIN corrected /\ x \in DOMAIN astray /\ corrected[x] \in Int /\ astray[x] \in Int
    BY <2>1, CountsAre DEF Cells
  <2>3. q[g] \in Int
    BY <1>3 DEF Amount
  <2>4. /\ k[x] = IF r = p THEN corrected[x] + q[g] ELSE corrected[x]
        /\ a[x] = IF r = p /\ g \notin Tracked THEN astray[x] - q[g] ELSE astray[x]
    BY <2>1, <2>2
  <2> HIDE DEF x, k, a
  <2>5. /\ k[x] = corrected[x] + (IF r = p THEN q[g] ELSE 0)
        /\ a[x] = astray[x] - (IF r = p /\ g \notin Tracked THEN q[g] ELSE 0)
    BY <2>2, <2>3, <2>4
  <2> QED BY <2>5 DEF x
<1> HIDE DEF l, k, a
<1>9. /\ level' \in Table
      /\ \A g \in Goods, r \in Places :
           /\ level'[<<g, r>>].qty = level[<<g, r>>].qty + (IF r = p THEN q[g] ELSE 0)
           /\ level'[<<g, r>>].held = level[<<g, r>>].held
  BY <1>1, <1>6
<1>10. Sound /\ HeldStays
  BY <1>1, <1>4, <1>9 DEF Sound, HeldStays
<1>11. Matched
  <2>1. ASSUME NEW g \in Tracked, NEW r \in Places PROVE Match(g, r)
    <3>1. Batched(batch', g, r) = Batched(batch, g, r) + (IF r = p THEN q[g] ELSE 0)
      BY <1>1, <1>4
    <3>2. g \in Goods /\ Batched(batch, g, r) \in Nat /\ level[<<g, r>>].qty \in Int /\ q[g] \in Int
      BY <1>3, <1>5, GivenGoods, LyingIs, StockIs DEF Amount
    <3>3. level'[<<g, r>>].qty = level[<<g, r>>].qty + (IF r = p THEN q[g] ELSE 0)
      BY <1>9, <3>2
    <3> QED BY <3>1, <3>2, <3>3 DEF Match
  <2> QED BY <2>1 DEF Matched
<1>12. \A g \in Goods : StockedBy(g, q[g])
  BY <1>2, <1>3, <1>9, PutsAt
<1> QED BY <1>1, <1>3, <1>7, <1>8, <1>9, <1>10, <1>11, <1>12 DEF p, q

LEMMA ApplyKeeps ==
  ASSUME TypeOK, AllCounted, Truthful, NEW c \in Counts, Apply(c, "APPROVED"),
         count[c].status \in {"IN_PROGRESS", "PENDING_APPROVAL"}
  PROVE  CountKeeps
<1> DEFINE p == count[c].place
           q == Correction(c)
           st == "APPROVED"
           row == [count[c] EXCEPT !.status = st]
<1>1. /\ q \in Amount /\ Sound /\ HeldStays /\ Matched
      /\ \A g \in Goods : StockedBy(g, q[g])
      /\ corrected' \in Cells /\ astray' \in Cells /\ lost' = lost
      /\ \A g \in Goods, r \in Places :
           /\ level'[<<g, r>>].qty = level[<<g, r>>].qty + (IF r = p THEN q[g] ELSE 0)
           /\ corrected'[<<g, r>>] = corrected[<<g, r>>] + (IF r = p THEN q[g] ELSE 0)
           /\ astray'[<<g, r>>] = astray[<<g, r>>] - (IF r = p /\ g \notin Tracked THEN q[g] ELSE 0)
  BY ApplyMoves
<1>2. /\ count[c] \in Count /\ Known(batch, count[c]) /\ Knows(c) /\ p \in Places
      /\ Recorded(c) = RecordedIn(count[c])
      /\ ~With("moved_while_counted") => Near(level, astray, lost, count[c])
  BY CountRowsAre, CountIs
<1>3. \A g \in Goods \ Tracked :
        q[g] = IF g \in Recorded(c) THEN count[c].counted[g] - level[<<g, p>>].qty ELSE 0
  BY <1>2, CorrectionIs
<1>4. row \in Count /\ row.status = "APPROVED" /\ (Known(batch, count[c]) => Known(batch, row))
  <2>1. st \in {"none", "DRAFT", "IN_PROGRESS", "PENDING_APPROVAL", "APPROVED", "CANCELED"} /\ st = "APPROVED"
    OBVIOUS
  <2> HIDE DEF st
  <2> QED BY <1>2, <2>1, CountGoesOn
<1>5. count' = [count EXCEPT ![c] = row]
  BY CountsAre DEF Apply
<1> HIDE DEF p, q, row
<1>6. count' \in [Counts -> Count] /\ \A d \in Counts : count'[d] = IF d = c THEN row ELSE count[d]
  BY <1>4, <1>5, CountsAre
<1>7. ASSUME NEW d \in Counts PROVE Known(batch', count'[d]) /\ Fresh(count'[d])
  <2>1. Known(batch, count'[d]) /\ Fresh(count'[d])
    BY <1>2, <1>4, <1>6, CountRowsAre DEF Fresh
  <2> QED BY <1>1, <2>1 DEF Sound, Grown, Known
<1>8. ASSUME NEW d \in Counts, ~With("moved_while_counted")
      PROVE  Near(level', astray', lost', count'[d])
  <2>1. CASE d = c
    BY <1>4, <1>6, <2>1 DEF Near
  <2>2. CASE d # c
    <3> DEFINE r == count[d]
    <3>1. ASSUME NEW h \in RecordedIn(r) \ BatchIds, r.status \in {"IN_PROGRESS", "PENDING_APPROVAL"}
          PROVE  /\ astray'[<<h, r.place>>] <= r.counted[h] - level'[<<h, r.place>>].qty
                 /\ r.counted[h] - level'[<<h, r.place>>].qty <= astray'[<<h, r.place>>] + lost'[<<h, r.place>>]
      <4> DEFINE y == <<h, r.place>>
                 n == IF r.place = p THEN q[h] ELSE 0
                 v == level[y].qty
                 w == level'[y].qty
                 a == astray[y]
                 e == astray'[y]
                 o == lost[y]
                 t == r.counted[h]
      <4>1. /\ h \in Goods \ Tracked /\ r.place \in Places /\ t \in Int
            /\ a <= t - v /\ t - v <= a + o
        <5>1. r \in Count /\ Near(level, astray, lost, r)
          BY <1>8, CountRowsAre
        <5>2. h \in Goods \ Tracked /\ r.place \in Places /\ h \in Lines /\ r.counted[h] \in Int
          BY <3>1, <5>1, CountFields DEF RecordedIn
        <5> QED BY <3>1, <5>1, <5>2 DEF Near
      <4>2. n \in Int /\ w = v + n /\ e = a - n
        <5>1. q[h] \in Int
          BY <1>1, <4>1 DEF Amount
        <5> QED BY <1>1, <4>1, <5>1
      <4>3. v \in Int /\ a \in Int /\ o \in Nat
        BY <4>1, StockIs, CountsAre
      <4> HIDE DEF y, n, v, w, a, e, o, t
      <4>4. e <= t - w /\ t - w <= e + o
        BY <4>1, <4>2, <4>3
      <4> QED BY <1>1, <4>4 DEF y, w, e, o, t
    <3>2. Near(level', astray', lost', r)
      BY <3>1 DEF Near
    <3> QED BY <1>6, <2>2, <3>2
  <2> QED BY <2>1, <2>2
<1>9. ASSUME ~With("moved_while_counted") PROVE Truth(astray', lost')
  <2>1. ASSUME NEW g \in Goods, NEW r \in Places
        PROVE  -lost'[<<g, r>>] <= astray'[<<g, r>>] /\ astray'[<<g, r>>] <= 0
    <3> DEFINE y == <<g, r>>
               a == astray[y]
               e == astray'[y]
               o == lost[y]
    <3>1. a \in Int /\ o \in Nat /\ -o <= a /\ a <= 0
      BY <1>9, CountsAre DEF Truthful, Truth
    <3>2. CASE r = p /\ g \notin Tracked /\ g \in Recorded(c)
      <4> DEFINE t == count[c].counted[g]
                 v == level[y].qty
      <4>1. g \in RecordedIn(count[c]) \ BatchIds /\ g \in Lines
        BY <1>2, <3>2, CountIs, LinesAre
      <4>2. a <= t - v /\ t - v <= a + o
        BY <1>2, <1>9, <3>2, <4>1 DEF Near, p
      <4>3. t \in Int /\ v \in Int
        BY <4>1, CountIs, StockIs
      <4>4. e = a - (t - v)
        BY <1>1, <1>3, <3>2
      <4> HIDE DEF y, a, e, o, t, v
      <4>5. -o <= e /\ e <= 0
        BY <3>1, <4>2, <4>3, <4>4
      <4> QED BY <1>1, <4>5 DEF y, e, o
    <3>3. CASE ~(r = p /\ g \notin Tracked /\ g \in Recorded(c))
      <4>1. e = a
        <5>1. r = p /\ g \notin Tracked => q[g] = 0
          BY <1>3, <3>3
        <5> QED BY <1>1, <3>1, <5>1
      <4> QED BY <1>1, <3>1, <4>1
    <3> QED BY <3>2, <3>3
  <2>2. ASSUME NEW x \in Goods \X Places PROVE -lost'[x] <= astray'[x] /\ astray'[x] <= 0
    <3>1. x = <<x[1], x[2]>> /\ x[1] \in Goods /\ x[2] \in Places
      OBVIOUS
    <3> QED BY <2>1, <3>1
  <2> QED BY <2>2 DEF Truth
<1>10. ASSUME NEW g \in Goods PROVE StockedBy(g, Corrected(corrected', g) - Corrected(corrected, g))
  <2> DEFINE n == q[g]
             k == corrected'
  <2>1. n \in Int /\ k \in Cells /\ corrected \in Cells
        /\ \A r \in Places : k[<<g, r>>] = corrected[<<g, r>>] + (IF r = p THEN n ELSE 0)
    BY <1>1, CountsAre DEF Amount
  <2> HIDE DEF n, k
  <2>2. Corrected(k, g) = Corrected(corrected, g) + n /\ Corrected(corrected, g) \in Int
    BY <1>2, <2>1, CorrectedMoves
  <2>3. Corrected(k, g) - Corrected(corrected, g) = n
    BY <2>1, <2>2
  <2> QED BY <1>1, <2>3 DEF n, k
<1>11. lost' \in Losses
  BY <1>1, CountsAre
<1>12. Counted(count', batch', level', astray', lost')
  BY <1>7, <1>8 DEF Counted
<1> QED BY <1>1, <1>6, <1>9, <1>10, <1>11, <1>12 DEF CountKeeps

\* A step of the counts is one of these.
LEMMA CountStepKeeps ==
  ASSUME TypeOK, AllCounted, Truthful, CountStep
  PROVE  CountKeeps
<1>1. ASSUME NEW c \in Counts, NEW p \in Places, NEW scope \in Scopes, NEW auto \in BOOLEAN,
             CreateCount(c, p, scope, auto)
      PROVE  CountKeeps
  BY <1>1, CreateCountKeeps
<1>2. ASSUME NEW c \in Counts, StartCount(c) PROVE CountKeeps
  <2> DEFINE st == "IN_PROGRESS"
  <2>1. /\ st \in {"IN_PROGRESS", "PENDING_APPROVAL", "APPROVED", "CANCELED"}
        /\ count[c].status \in {"DRAFT", "IN_PROGRESS", "PENDING_APPROVAL"}
        /\ CountOnly(c, [count[c] EXCEPT !.status = st])
    BY <1>2 DEF StartCount
  <2> HIDE DEF st
  <2> QED BY <2>1, CountGoesOnKeeps
<1>3. ASSUME NEW c \in Counts, NEW line \in count[c].lines, RecordCount(c, line) PROVE CountKeeps
  BY <1>3, RecordCountKeeps
<1>4. ASSUME NEW c \in Counts, CompleteCount(c) \/ \E apply \in BOOLEAN : ApproveCount(c, apply)
      PROVE  CountKeeps
  <2>1. count[c].status \in {"IN_PROGRESS", "PENDING_APPROVAL"}
    BY <1>4 DEF CompleteCount, ApproveCount
  <2>2. \/ CountOnly(c, [count[c] EXCEPT !.status = "PENDING_APPROVAL"])
        \/ CountOnly(c, [count[c] EXCEPT !.status = "APPROVED"])
        \/ Apply(c, "APPROVED")
    BY <1>4 DEF CompleteCount, ApproveCount
  <2>3. ASSUME NEW st \in {"PENDING_APPROVAL", "APPROVED"},
               CountOnly(c, [count[c] EXCEPT !.status = st])
        PROVE  CountKeeps
    <3>1. /\ st \in {"IN_PROGRESS", "PENDING_APPROVAL", "APPROVED", "CANCELED"}
          /\ count[c].status \in {"DRAFT", "IN_PROGRESS", "PENDING_APPROVAL"}
      BY <2>1
    <3> QED BY <2>3, <3>1, CountGoesOnKeeps
  <2>4. CASE Apply(c, "APPROVED")
    BY <2>1, <2>4, ApplyKeeps
  <2> QED BY <2>2, <2>3, <2>4
<1>5. ASSUME NEW c \in Counts, CancelCount(c) PROVE CountKeeps
  <2> DEFINE st == "CANCELED"
  <2>1. /\ st \in {"IN_PROGRESS", "PENDING_APPROVAL", "APPROVED", "CANCELED"}
        /\ count[c].status \in {"DRAFT", "IN_PROGRESS", "PENDING_APPROVAL"}
        /\ CountOnly(c, [count[c] EXCEPT !.status = st])
    BY <1>5 DEF CancelCount
  <2> HIDE DEF st
  <2> QED BY <2>1, CountGoesOnKeeps
<1>6. ASSUME NEW g \in Goods, NEW p \in Places, Lose(g, p) PROVE CountKeeps
  BY <1>6, LoseKeeps
<1> QED BY <1>1, <1>2, <1>3, <1>4, <1>5, <1>6 DEF CountStep

-----------------------------------------------------------------------------
(* Levels that are adjusted by hand, and counts that others disturb.       *)

LEMMA HandStepKeeps ==
  ASSUME TypeOK, HandStep
  PROVE  /\ Sound /\ HeldStays /\ Matched /\ corrected' \in Cells
         /\ UNCHANGED <<count, astray, lost>>
         /\ \A g \in Goods : StockedBy(g, Corrected(corrected', g) - Corrected(corrected, g))
<1>1. PICK g \in Handled : \E p \in Places, n \in {-1, 1} : AdjustByHand(g, p, n)
  BY DEF HandStep
<1>2. PICK p \in Places : \E n \in {-1, 1} : AdjustByHand(g, p, n)
  BY <1>1
<1>3. PICK n \in {-1, 1} : AdjustByHand(g, p, n)
  BY <1>2
<1> DEFINE x == <<g, p>>
           q == [h \in Goods |-> IF h = g THEN n ELSE 0]
<1>4. /\ level' = [level EXCEPT ![x].qty = @ + n] /\ corrected' = [corrected EXCEPT ![x] = @ + n]
      /\ UNCHANGED <<count, astray, lost, setting, batch>>
  BY <1>3 DEF AdjustByHand
<1>5. g \in Goods /\ g \notin Tracked /\ n \in Int
  BY <1>3, GivenCounts
<1>6. q \in Amount /\ \A h \in Goods : q[h] = IF h = g THEN n ELSE 0
  BY <1>5 DEF Amount
<1>7. level \in Table /\ x \in Goods \X Places /\ level[x].qty \in Int /\ level[x].held \in Int
  BY <1>5, StockIs
<1>8. /\ level' \in Table
      /\ \A h \in Goods, r \in Places :
           /\ level'[<<h, r>>].qty = level[<<h, r>>].qty + (IF r = p THEN q[h] ELSE 0)
           /\ level'[<<h, r>>].held = level[<<h, r>>].held
  <2> DEFINE v == level[x]
             w == [v EXCEPT !.qty = @ + n]
  <2>1. level' = [level EXCEPT ![x] = w]
    BY <1>4
  <2>2. v = [qty |-> v.qty, held |-> v.held]
    BY <1>7 DEF Table, Level
  <2>3. v.qty \in Int /\ v.held \in Int
    BY <1>7
  <2> HIDE DEF v
  <2>4. w = [qty |-> v.qty + n, held |-> v.held]
    BY <2>2
  <2>5. w \in Level /\ w.qty = v.qty + n /\ w.held = v.held
    BY <1>5, <2>3, <2>4 DEF Level
  <2> HIDE DEF w, x
  <2>6. level' \in Table /\ \A y \in Goods \X Places : level'[y] = IF y = x THEN w ELSE level[y]
    BY <1>7, <2>1, <2>5 DEF Table
  <2>7. ASSUME NEW h \in Goods, NEW r \in Places
        PROVE  /\ level'[<<h, r>>].qty = level[<<h, r>>].qty + (IF r = p THEN q[h] ELSE 0)
               /\ level'[<<h, r>>].held = level[<<h, r>>].held
    <3>1. level[<<h, r>>].qty \in Int
      BY StockIs
    <3>2. <<h, r>> \in Goods \X Places /\ (<<h, r>> = x <=> h = g /\ r = p)
      BY DEF x
    <3> QED BY <1>6, <2>5, <2>6, <3>1, <3>2 DEF v
  <2> QED BY <2>6, <2>7
<1>9. corrected' \in Cells /\ \A h \in Goods, r \in Places :
        corrected'[<<h, r>>] = corrected[<<h, r>>] + (IF r = p THEN q[h] ELSE 0)
  <2>1. corrected \in Cells /\ corrected[x] \in Int
    BY <1>7, CountsAre
  <2>2. corrected' \in Cells
    BY <1>4, <1>5, <1>7, <2>1 DEF Cells
  <2>3. ASSUME NEW h \in Goods, NEW r \in Places
        PROVE  corrected'[<<h, r>>] = corrected[<<h, r>>] + (IF r = p THEN q[h] ELSE 0)
    <3>1. <<h, r>> \in Goods \X Places /\ (<<h, r>> = x <=> h = g /\ r = p) /\ corrected[<<h, r>>] \in Int
      BY <2>1 DEF Cells
    <3> HIDE DEF x
    <3>2. corrected'[<<h, r>>] = IF <<h, r>> = x THEN corrected[x] + n ELSE corrected[<<h, r>>]
      BY <1>4, <2>1, <3>1 DEF Cells
    <3> QED BY <1>6, <3>1, <3>2
  <2> QED BY <2>2, <2>3
<1> HIDE DEF q, x
<1>10. Sound /\ HeldStays
  <2>1. Batches(batch)
    BY StockIs
  <2> QED BY <1>4, <1>8, <2>1 DEF Sound, HeldStays, Grown
<1>11. Matched
  <2>1. ASSUME NEW h \in Tracked, NEW r \in Places PROVE Match(h, r)
    <3>1. h \in Goods /\ h # g /\ Batched(batch, h, r) \in Nat /\ level[<<h, r>>].qty \in Int
      BY <1>5, GivenGoods, LyingIs, StockIs
    <3>2. level'[<<h, r>>].qty = level[<<h, r>>].qty /\ batch' = batch
      BY <1>4, <1>6, <1>8, <3>1
    <3> QED BY <3>1, <3>2 DEF Match
  <2> QED BY <2>1 DEF Matched
<1>12. \A h \in Goods : StockedBy(h, q[h])
  BY <1>6, <1>8, PutsAt
<1>13. ASSUME NEW h \in Goods PROVE StockedBy(h, Corrected(corrected', h) - Corrected(corrected, h))
  <2> DEFINE m == q[h]
             k == corrected'
  <2>1. m \in Int /\ k \in Cells /\ corrected \in Cells
        /\ \A r \in Places : k[<<h, r>>] = corrected[<<h, r>>] + (IF r = p THEN m ELSE 0)
    BY <1>6, <1>9, CountsAre DEF Amount
  <2> HIDE DEF m, k
  <2>2. Corrected(k, h) = Corrected(corrected, h) + m /\ Corrected(corrected, h) \in Int
    BY <2>1, CorrectedMoves
  <2>3. Corrected(k, h) - Corrected(corrected, h) = m
    BY <2>1, <2>2
  <2> QED BY <1>12, <2>3 DEF m, k
<1> QED BY <1>4, <1>9, <1>10, <1>11, <1>13

\* A step of another document leaves the counts alone, and does not move what is counted.
LEMMA CountsStand ==
  ASSUME TypeOK, AllCounted, Grown(batch, batch'), Still, UNCHANGED <<count, astray, lost>>
  PROVE  Counted(count', batch', level', astray', lost')
<1>1. ASSUME NEW c \in Counts PROVE Known(batch', count[c]) /\ Fresh(count[c])
  <2>1. Known(batch, count[c]) /\ Fresh(count[c])
    BY CountRowsAre
  <2> QED BY <2>1 DEF Grown, Known
<1>2. ASSUME NEW c \in Counts, ~With("moved_while_counted") PROVE Near(level', astray, lost, count[c])
  <2>1. Near(level, astray, lost, count[c]) /\ Recorded(c) = RecordedIn(count[c])
    BY <1>2, CountRowsAre
  <2>2. CASE level' = level
    BY <2>1, <2>2
  <2>3. CASE level' # level
    <3>1. ~Counting
      BY <1>2, <2>3 DEF Still
    <3>2. count[c].status \in {"IN_PROGRESS", "PENDING_APPROVAL"} => RecordedIn(count[c]) = {}
      BY <2>1, <3>1 DEF Counting
    <3> QED BY <3>2 DEF Near
  <2> QED BY <2>2, <2>3
<1> QED BY <1>1, <1>2 DEF Counted

-----------------------------------------------------------------------------
(* What all documents of a kind say of a good.                             *)

TakenOf(bk, g) == SumFunction([o \in Orders |-> TakenIn(bk[o])[g]])
Share(t, b, g) == IF t.status = "CANCELED" THEN 0 ELSE HeldIn(b)[g]
ReservedOf(tk, bk, g) == SumFunction([o \in Orders |-> Share(tk[o], bk[o], g)])
HeldForMakes(mk, g) == SumFunction([m \in Makes |-> HeldOf(m, mk[m])[g]])
MadeOfAll(mk, g) == SumFunction([m \in Makes |-> MadeOf(m, mk[m])[g]])
UnderWay(mv, g) == SumFunction([t \in Moves |-> OnWay(mv[t], g)])
OpeningOf(g) == SumFunction([p \in Places |-> Opening[<<g, p>>]])

Reserved(l, tk, bk, mk) ==
  \A g \in Goods, p \in Places :
    l[<<g, p>>].held = (IF p = Counter THEN ReservedOf(tk, bk, g) ELSE 0)
                       + (IF p = Workshop THEN HeldForMakes(mk, g) ELSE 0)
Documented(g, l, bk, mk, mv, by, k) ==
  Stocked(l, g) = OpeningOf(g) + (IF g = Bought THEN by.received ELSE 0) - TakenOf(bk, g)
                    + MadeOfAll(mk, g) - UnderWay(mv, g) + Corrected(k, g)

LEMMA HeldIsReservedIs ==
  HeldIsReserved <=> ("odd_cancel" \notin scene => Reserved(level, ticket, book, make))
BY DEF HeldIsReserved, Reserved, ReservedOf, Share, HeldIn, HeldBy, HeldForMakes, HeldOf, HeldByMake

LEMMA HeldIsReservedNext ==
  HeldIsReserved' <=> ("odd_cancel" \notin scene' => Reserved(level', ticket', book', make'))
BY DEF HeldIsReserved, Reserved, ReservedOf, Share, HeldIn, HeldBy, HeldForMakes, HeldOf, HeldByMake

LEMMA LevelsMatchIs ==
  LevelsMatchDocuments <=>
    ("two_completes" \notin scene =>
       \A g \in Goods : Documented(g, level, book, make, move, buy, corrected))
BY DEF LevelsMatchDocuments, Documented, OpeningOf, TakenOf, TakenIn, Taken, MadeOfAll, MadeOf, MadeBy,
       UnderWay, OnWay, InTransit, Corrected

LEMMA LevelsMatchNext ==
  LevelsMatchDocuments' <=>
    ("two_completes" \notin scene' =>
       \A g \in Goods : Documented(g, level', book', make', move', buy', corrected'))
<1>1. LevelsMatchDocuments' <=>
        ("two_completes" \notin scene' =>
          \A g \in Goods :
            Stocked(level', g) =
              SumFunction([p \in Places |-> Opening[<<g, p>>]])
              + (IF g = Bought THEN buy'.received ELSE 0)
              - SumFunction([o \in Orders |-> Minus(book'[o].sold, book'[o].back)[g]])
              + SumFunction([m \in Makes |-> MadeOf(m, make'[m])[g]])
              - SumFunction([t \in Moves |-> OnWay(move'[t], g)])
              + SumFunction([p \in Places |-> corrected'[<<g, p>>]]))
  BY DEF LevelsMatchDocuments, Stocked, Taken, MadeOf, MadeBy, OnWay, InTransit
<1> QED BY <1>1 DEF Documented, OpeningOf, TakenOf, TakenIn, MadeOfAll, UnderWay, Corrected

\* Each is a sum, of which a step changes one part.
LEMMA TakenChanges ==
  ASSUME NEW bk \in [Orders -> Book], NEW o \in Orders, NEW b \in Book, NEW g \in Goods
  PROVE  /\ TakenOf([bk EXCEPT ![o] = b], g) = TakenOf(bk, g) - TakenIn(bk[o])[g] + TakenIn(b)[g]
         /\ TakenOf(bk, g) \in Int /\ TakenIn(bk[o])[g] \in Int /\ TakenIn(b)[g] \in Int
<1> DEFINE c == [bk EXCEPT ![o] = b]
           f == [x \in Orders |-> TakenIn(bk[x])[g]]
           h == [x \in Orders |-> TakenIn(c[x])[g]]
<1>1. \A x \in Orders : c[x] = IF x = o THEN b ELSE bk[x]
  OBVIOUS
<1> HIDE DEF c
<1>2. \A y \in Book : TakenIn(y)[g] \in Int
  BY BookIs DEF Amount
<1>3. \A x \in Orders : f[x] \in Int /\ h[x] \in Int
  BY <1>1, <1>2
<1>4. \A x \in Orders \ {o} : f[x] = h[x]
  BY <1>1
<1>5. f[o] = TakenIn(bk[o])[g] /\ h[o] = TakenIn(b)[g]
  BY <1>1
<1>6. TakenOf(bk, g) = SumFunctionOnSet(f, Orders) /\ TakenOf(c, g) = SumFunctionOnSet(h, Orders)
  BY DEF TakenOf, SumFunction
<1> HIDE DEF f, h
<1>7. SumFunctionOnSet(h, Orders) = SumFunctionOnSet(f, Orders) - f[o] + h[o]
  BY <1>3, <1>4, GivenGoods, SumChanges
<1>8. SumFunctionOnSet(f, Orders) \in Int
  BY <1>3, GivenGoods, SumIsInt
<1> QED BY <1>2, <1>5, <1>6, <1>7, <1>8 DEF c

LEMMA ReservedChanges ==
  ASSUME NEW tk \in [Orders -> Ticket], NEW bk \in [Orders -> Book], NEW o \in Orders,
         NEW t \in Ticket, NEW b \in Book, NEW g \in Goods
  PROVE  /\ ReservedOf([tk EXCEPT ![o] = t], [bk EXCEPT ![o] = b], g)
              = ReservedOf(tk, bk, g) - Share(tk[o], bk[o], g) + Share(t, b, g)
         /\ ReservedOf(tk, bk, g) \in Int
         /\ Share(tk[o], bk[o], g) \in Nat /\ Share(t, b, g) \in Nat
         /\ Share(tk[o], bk[o], g) <= ReservedOf(tk, bk, g)
<1> DEFINE c == [bk EXCEPT ![o] = b]
           d == [tk EXCEPT ![o] = t]
           f == [x \in Orders |-> Share(tk[x], bk[x], g)]
           h == [x \in Orders |-> Share(d[x], c[x], g)]
<1>1. \A x \in Orders : c[x] = (IF x = o THEN b ELSE bk[x]) /\ d[x] = (IF x = o THEN t ELSE tk[x])
  OBVIOUS
<1> HIDE DEF c, d
<1>2. \A x, y : y \in Book => Share(x, y, g) \in Nat
  BY BookIs DEF Share, Quantities
<1>3. \A x \in Orders : f[x] \in Nat /\ h[x] \in Nat
  BY <1>1, <1>2
<1>4. \A x \in Orders \ {o} : f[x] = h[x]
  BY <1>1
<1>5. f[o] = Share(tk[o], bk[o], g) /\ h[o] = Share(t, b, g)
  BY <1>1
<1>6. ReservedOf(tk, bk, g) = SumFunctionOnSet(f, Orders) /\ ReservedOf(d, c, g) = SumFunctionOnSet(h, Orders)
  BY DEF ReservedOf, SumFunction
<1> HIDE DEF f, h
<1>7. \A x \in Orders : f[x] \in Int /\ h[x] \in Int
  BY <1>3
<1>8. SumFunctionOnSet(h, Orders) = SumFunctionOnSet(f, Orders) - f[o] + h[o]
  BY <1>4, <1>7, GivenGoods, SumChanges
<1>9. SumFunctionOnSet(f, Orders) \in Int
  BY <1>7, GivenGoods, SumIsInt
<1>10. f[o] <= SumFunctionOnSet(f, Orders)
  <2>1. SumFunctionOnSet(f, Orders) = f[o] + SumFunctionOnSet(f, Orders \ {o})
    BY <1>7, GivenGoods, SumTakes
  <2>2. IsFiniteSet(Orders \ {o}) /\ \A x \in Orders \ {o} : f[x] \in Nat
    BY <1>3, GivenGoods, FS_Subset
  <2>3. SumFunctionOnSet(f, Orders \ {o}) \in Nat
    BY <2>2, SumIsNat
  <2> QED BY <1>3, <2>1, <2>3
<1> QED BY <1>3, <1>5, <1>6, <1>8, <1>9, <1>10 DEF c, d

LEMMA MakesChange ==
  ASSUME NEW mk \in [Makes -> Make], NEW m \in Makes, NEW r \in Make, NEW g \in Goods
  PROVE  /\ HeldForMakes([mk EXCEPT ![m] = r], g)
              = HeldForMakes(mk, g) - HeldOf(m, mk[m])[g] + HeldOf(m, r)[g]
         /\ MadeOfAll([mk EXCEPT ![m] = r], g) = MadeOfAll(mk, g) - MadeOf(m, mk[m])[g] + MadeOf(m, r)[g]
         /\ HeldForMakes(mk, g) \in Nat /\ HeldOf(m, mk[m])[g] \in Int /\ HeldOf(m, r)[g] \in Int
         /\ MadeOfAll(mk, g) \in Int /\ MadeOf(m, mk[m])[g] \in Int /\ MadeOf(m, r)[g] \in Int
<1> DEFINE c == [mk EXCEPT ![m] = r]
           f == [x \in Makes |-> HeldOf(x, mk[x])[g]]
           h == [x \in Makes |-> HeldOf(x, c[x])[g]]
           e == [x \in Makes |-> MadeOf(x, mk[x])[g]]
           k == [x \in Makes |-> MadeOf(x, c[x])[g]]
<1>1. \A x \in Makes : c[x] = IF x = m THEN r ELSE mk[x]
  OBVIOUS
<1> HIDE DEF c
<1>2. \A x \in Makes, y \in Make : HeldOf(x, y)[g] \in Nat /\ MadeOf(x, y)[g] \in Int
  BY MakeIs DEF Amount, Quantities
<1>3. \A x \in Makes : f[x] \in Nat /\ h[x] \in Nat /\ e[x] \in Int /\ k[x] \in Int
  BY <1>1, <1>2
<1>4. \A x \in Makes \ {m} : f[x] = h[x] /\ e[x] = k[x]
  BY <1>1
<1>5. f[m] = HeldOf(m, mk[m])[g] /\ h[m] = HeldOf(m, r)[g] /\ e[m] = MadeOf(m, mk[m])[g] /\ k[m] = MadeOf(m, r)[g]
  BY <1>1
<1>6. /\ HeldForMakes(mk, g) = SumFunctionOnSet(f, Makes) /\ HeldForMakes(c, g) = SumFunctionOnSet(h, Makes)
      /\ MadeOfAll(mk, g) = SumFunctionOnSet(e, Makes) /\ MadeOfAll(c, g) = SumFunctionOnSet(k, Makes)
  BY DEF HeldForMakes, MadeOfAll, SumFunction
<1> HIDE DEF f, h, e, k
<1>7. \A x \in Makes : f[x] \in Int /\ h[x] \in Int
  BY <1>3
<1>8. SumFunctionOnSet(h, Makes) = SumFunctionOnSet(f, Makes) - f[m] + h[m]
  BY <1>4, <1>7, GivenGoods, SumChanges
<1>9. SumFunctionOnSet(k, Makes) = SumFunctionOnSet(e, Makes) - e[m] + k[m]
  BY <1>3, <1>4, GivenGoods, SumChanges
<1>10. SumFunctionOnSet(f, Makes) \in Nat
  BY <1>3, GivenGoods, SumIsNat
<1>11. SumFunctionOnSet(e, Makes) \in Int
  BY <1>3, GivenGoods, SumIsInt
<1> QED BY <1>3, <1>5, <1>6, <1>8, <1>9, <1>10, <1>11 DEF c

LEMMA OnWayIs ==
  ASSUME NEW r \in Move, NEW g
  PROVE  OnWay(r, g) \in Nat
<1>1. r.item.qty \in Nat
  BY MoveIs
<1> QED BY <1>1 DEF OnWay

LEMMA MovesChange ==
  ASSUME NEW mv \in [Moves -> Move], NEW t \in Moves, NEW r \in Move, NEW g \in Goods
  PROVE  /\ UnderWay([mv EXCEPT ![t] = r], g) = UnderWay(mv, g) - OnWay(mv[t], g) + OnWay(r, g)
         /\ UnderWay(mv, g) \in Int /\ OnWay(mv[t], g) \in Int /\ OnWay(r, g) \in Int
<1> DEFINE c == [mv EXCEPT ![t] = r]
           f == [x \in Moves |-> OnWay(mv[x], g)]
           h == [x \in Moves |-> OnWay(c[x], g)]
<1>1. \A x \in Moves : c[x] = IF x = t THEN r ELSE mv[x]
  OBVIOUS
<1> HIDE DEF c
<1>2. \A y \in Move : OnWay(y, g) \in Int
  BY OnWayIs
<1>3. \A x \in Moves : f[x] \in Int /\ h[x] \in Int
  BY <1>1, <1>2
<1>4. \A x \in Moves \ {t} : f[x] = h[x]
  BY <1>1
<1>5. f[t] = OnWay(mv[t], g) /\ h[t] = OnWay(r, g)
  BY <1>1
<1>6. UnderWay(mv, g) = SumFunctionOnSet(f, Moves) /\ UnderWay(c, g) = SumFunctionOnSet(h, Moves)
  BY DEF UnderWay, SumFunction
<1> HIDE DEF f, h
<1>7. SumFunctionOnSet(h, Moves) = SumFunctionOnSet(f, Moves) - f[t] + h[t]
  BY <1>3, <1>4, GivenGoods, SumChanges
<1>8. SumFunctionOnSet(f, Moves) \in Int
  BY <1>3, GivenGoods, SumIsInt
<1> QED BY <1>2, <1>5, <1>6, <1>7, <1>8 DEF c

LEMMA CorrectedIsInt ==
  ASSUME NEW k \in Cells, NEW g \in Goods
  PROVE  Corrected(k, g) \in Int
<1> DEFINE f == [p \in Places |-> k[<<g, p>>]]
<1>1. \A p \in Places : f[p] \in Int
  BY DEF Cells
<1>2. Corrected(k, g) = SumFunctionOnSet(f, Places)
  BY DEF Corrected, SumFunction
<1> HIDE DEF f
<1> QED BY <1>1, <1>2, GivenGoods, SumIsInt

LEMMA StockedIsInt ==
  ASSUME NEW l \in Table, NEW g \in Goods
  PROVE  Stocked(l, g) \in Int
<1> DEFINE f == [p \in Places |-> l[<<g, p>>].qty]
<1>1. \A p \in Places : f[p] \in Int
  BY DEF Table, Level
<1>2. Stocked(l, g) = SumFunctionOnSet(f, Places)
  BY DEF Stocked, SumFunction
<1> HIDE DEF f
<1> QED BY <1>1, <1>2, GivenGoods, SumIsInt

\* The sums are integers.
LEMMA SumsAre ==
  ASSUME TypeOK, NEW g \in Goods
  PROVE  /\ TakenOf(book, g) \in Int /\ ReservedOf(ticket, book, g) \in Nat
         /\ HeldForMakes(make, g) \in Nat /\ MadeOfAll(make, g) \in Int
         /\ UnderWay(move, g) \in Int /\ OpeningOf(g) \in Int /\ Corrected(corrected, g) \in Int
         /\ Stocked(level, g) \in Int /\ buy.received \in Int
<1> DEFINE f == [o \in Orders |-> TakenIn(book[o])[g]]
           e == [o \in Orders |-> Share(ticket[o], book[o], g)]
           h == [m \in Makes |-> HeldOf(m, make[m])[g]]
           k == [m \in Makes |-> MadeOf(m, make[m])[g]]
           w == [t \in Moves |-> OnWay(move[t], g)]
           n == [p \in Places |-> Opening[<<g, p>>]]
<1>1. /\ \A o \in Orders : book[o] \in Book
      /\ \A m \in Makes : make[m] \in Make
      /\ \A t \in Moves : move[t] \in Move
  BY DEF TypeOK
<1>2. \A o \in Orders : f[o] \in Int /\ e[o] \in Nat
  BY <1>1, BookIs DEF Amount, Share, Quantities
<1>3. \A m \in Makes : h[m] \in Nat /\ k[m] \in Int
  BY <1>1, MakeIs DEF Amount, Quantities
<1>4. \A t \in Moves : w[t] \in Int
  BY <1>1, OnWayIs
<1>5. \A p \in Places : n[p] \in Int
  BY GivenGoods
<1>6. /\ TakenOf(book, g) = SumFunctionOnSet(f, Orders)
      /\ ReservedOf(ticket, book, g) = SumFunctionOnSet(e, Orders)
  BY DEF TakenOf, ReservedOf, SumFunction
<1>7. /\ HeldForMakes(make, g) = SumFunctionOnSet(h, Makes)
      /\ MadeOfAll(make, g) = SumFunctionOnSet(k, Makes)
  BY DEF HeldForMakes, MadeOfAll, SumFunction
<1>8. UnderWay(move, g) = SumFunctionOnSet(w, Moves) /\ OpeningOf(g) = SumFunctionOnSet(n, Places)
  BY DEF UnderWay, OpeningOf, SumFunction
<1> HIDE DEF f, e, h, k, w, n
<1>9. SumFunctionOnSet(f, Orders) \in Int /\ SumFunctionOnSet(k, Makes) \in Int
  BY <1>2, <1>3, GivenGoods, SumIsInt
<1>10. SumFunctionOnSet(e, Orders) \in Nat /\ SumFunctionOnSet(h, Makes) \in Nat
  BY <1>2, <1>3, GivenGoods, SumIsNat
<1>11. SumFunctionOnSet(w, Moves) \in Int /\ SumFunctionOnSet(n, Places) \in Int
  BY <1>4, <1>5, GivenGoods, SumIsInt
<1>12. Corrected(corrected, g) \in Int /\ Stocked(level, g) \in Int /\ buy.received \in Int
  BY CountsAre, StockIs, CorrectedIsInt, StockedIsInt, BuyIs
<1> QED BY <1>6, <1>7, <1>8, <1>9, <1>10, <1>11, <1>12

-----------------------------------------------------------------------------
(* The inductive invariant.                                                *)

IInv ==
  /\ TypeOK /\ AllOrdered /\ AllServed /\ AllPlanned /\ OnceMade /\ AllItemized /\ AllParked
  /\ AllBought /\ AllCounted /\ Truthful
  /\ HeldIsReserved /\ BatchesMatchLevels /\ LevelsMatchDocuments

LEMMA TypeNext ==
  ASSUME TypeOK, UNCHANGED <<scene, setting>>, level' \in Table, Batches(batch'),
         ticket' \in [Orders -> Ticket], book' \in [Orders -> Book], make' \in [Makes -> Make],
         move' \in [Moves -> Move], buy' \in Buy, delivery' \in [Deliveries -> Delivery],
         supplier' \in Supplier, count' \in [Counts -> Count], astray' \in Cells, lost' \in Losses,
         corrected' \in Cells
  PROVE  TypeOK'
BY DEF TypeOK, Table, Batches, Cells, Losses

\* What a step does not touch stays as it was.
LEMMA OrdersStand ==
  ASSUME AllOrdered, AllServed, UNCHANGED <<scene, setting, ticket, book>>
  PROVE  AllOrdered' /\ AllServed'
BY DEF AllOrdered, Ordered, With, AllServed, Orderly, Served, Serves, Exact

LEMMA MakesStand ==
  ASSUME AllPlanned, OnceMade, UNCHANGED <<scene, make>>
  PROVE  AllPlanned' /\ OnceMade'
BY DEF AllPlanned, Planned, OnceMade, With

LEMMA MovesStand ==
  ASSUME AllItemized, AllParked, Grown(batch, batch'), UNCHANGED <<scene, move>>
  PROVE  AllItemized' /\ AllParked'
<1>1. ASSUME NEW t \in Moves
      PROVE  /\ Itemized(batch', move'[t])
             /\ ~With("relocate") => Parked(batch', move'[t])
  BY CarriesOn DEF AllItemized, AllParked
<1> QED BY <1>1 DEF AllItemized, AllParked, With

LEMMA BuysStand ==
  ASSUME AllBought, UNCHANGED <<scene, buyVars>>
  PROVE  AllBought'
BY DEF AllBought, Buying, With, buyVars

LEMMA CountedNext ==
  ASSUME UNCHANGED scene, Counted(count', batch', level', astray', lost'),
         ~With("moved_while_counted") => Truth(astray', lost')
  PROVE  AllCounted' /\ Truthful'
BY DEF AllCounted, Counted, Truthful, With

LEMMA BatchesMatchNext ==
  ASSUME TypeOK, BatchesMatchLevels, UNCHANGED scene, Sound, Straight => InBatchesMatched
  PROVE  BatchesMatchLevels'
<1>1. ASSUME Straight, NEW g \in InBatches, NEW p \in Places
      PROVE  Batched(batch', g, p) = level'[<<g, p>>].qty
  <2>1. g \in Goods
    BY GivenGoods DEF InBatches
  <2>2. Batched(batch, g, p) = level[<<g, p>>].qty
    BY <1>1 DEF BatchesMatchLevels, Straight
  <2>3. Batched(batch', g, p) \in Nat /\ Batched(batch, g, p) \in Nat
    BY StockIs, LyingIs DEF Sound
  <2>4. level'[<<g, p>>].qty \in Int
    BY <2>1 DEF Sound, Table, Level
  <2>5. Match(g, p)
    BY <1>1 DEF InBatchesMatched
  <2> QED BY <2>2, <2>3, <2>4, <2>5 DEF Match
<1> QED BY <1>1 DEF BatchesMatchLevels, Straight, InBatches

LEMMA HeldNext ==
  ASSUME HeldIsReserved, UNCHANGED <<scene, ticket, book, make>>, HeldStays
  PROVE  HeldIsReserved'
<1>1. ASSUME "odd_cancel" \notin scene PROVE Reserved(level', ticket, book, make)
  <2>1. Reserved(level, ticket, book, make)
    BY <1>1, HeldIsReservedIs
  <2> QED BY <2>1 DEF Reserved, HeldStays
<1> QED BY <1>1, HeldIsReservedNext

\* A good's levels change by what the documents say of it.
LEMMA DocumentedNext ==
  ASSUME TypeOK, LevelsMatchDocuments, UNCHANGED scene,
         ~With("two_completes") => \A g \in Goods :
           /\ TakenOf(book', g) \in Int /\ MadeOfAll(make', g) \in Int /\ UnderWay(move', g) \in Int
           /\ Corrected(corrected', g) \in Int /\ buy'.received \in Int
           /\ StockedBy(g, (IF g = Bought THEN buy'.received - buy.received ELSE 0)
                             - (TakenOf(book', g) - TakenOf(book, g))
                             + (MadeOfAll(make', g) - MadeOfAll(make, g))
                             - (UnderWay(move', g) - UnderWay(move, g))
                             + (Corrected(corrected', g) - Corrected(corrected, g)))
  PROVE  LevelsMatchDocuments'
<1>1. ASSUME ~With("two_completes"), NEW g \in Goods
      PROVE  Documented(g, level', book', make', move', buy', corrected')
  <2>1. Documented(g, level, book, make, move, buy, corrected)
    BY <1>1, LevelsMatchIs DEF With
  <2> DEFINE a == TakenOf(book, g)
             b == MadeOfAll(make, g)
             c == UnderWay(move, g)
             d == Corrected(corrected, g)
             e == buy.received
             s == Stocked(level, g)
             a1 == TakenOf(book', g)
             b1 == MadeOfAll(make', g)
             c1 == UnderWay(move', g)
             d1 == Corrected(corrected', g)
             e1 == buy'.received
             s1 == Stocked(level', g)
             n == OpeningOf(g)
  <2>2. a \in Int /\ b \in Int /\ c \in Int /\ d \in Int /\ e \in Int /\ s \in Int /\ n \in Int
    BY SumsAre
  <2>3. a1 \in Int /\ b1 \in Int /\ c1 \in Int /\ d1 \in Int /\ e1 \in Int
    BY <1>1
  <2>4. s1 = s + ((IF g = Bought THEN e1 - e ELSE 0) - (a1 - a) + (b1 - b) - (c1 - c) + (d1 - d))
    BY <1>1 DEF StockedBy
  <2>5. s = n + (IF g = Bought THEN e ELSE 0) - a + b - c + d
    BY <2>1 DEF Documented
  <2> HIDE DEF a, b, c, d, e, s, a1, b1, c1, d1, e1, s1, n
  <2>6. s1 = n + (IF g = Bought THEN e1 ELSE 0) - a1 + b1 - c1 + d1
    BY <2>2, <2>3, <2>4, <2>5
  <2> QED BY <2>6 DEF Documented, a1, b1, c1, d1, e1, s1, n
<1> QED BY <1>1, LevelsMatchNext DEF With

\* A step of a production order keeps the invariant.
LEMMA MakesKeepIt ==
  ASSUME IInv, MakeStep, Still, UNCHANGED <<scene, ticket, book, move, buyVars, countVars>>
  PROVE  IInv'
<1>1. PICK m \in Makes : \E r : MakeKeeps(m, r)
  BY MakeStepKeeps DEF IInv
<1>2. PICK r : MakeKeeps(m, r)
  BY <1>1
<1>3. /\ make' = [make EXCEPT ![m] = r] /\ r \in Make /\ Planned(r)
      /\ ~With("two_completes") => Once(r)
      /\ Sound /\ InBatchesMatched
      /\ level' \in Table /\ Batches(batch') /\ Grown(batch, batch') /\ setting' = setting
  BY <1>2 DEF MakeKeeps, Sound
<1>4. /\ make \in [Makes -> Make] /\ ticket \in [Orders -> Ticket] /\ book \in [Orders -> Book]
      /\ move \in [Moves -> Move] /\ TypeOK /\ corrected \in Cells /\ astray \in Cells /\ lost \in Losses
      /\ count \in [Counts -> Count]
  BY CountsAre DEF IInv, TypeOK
<1>5. make' \in [Makes -> Make] /\ \A x \in Makes : make'[x] = IF x = m THEN r ELSE make[x]
  BY <1>3, <1>4
<1>6. /\ buy' = buy /\ delivery' = delivery /\ supplier' = supplier
      /\ count' = count /\ astray' = astray /\ lost' = lost /\ corrected' = corrected
  BY DEF buyVars, countVars
<1>7. TypeOK'
  BY <1>3, <1>4, <1>5, <1>6, BuyIs, TypeNext
<1>8. AllPlanned' /\ OnceMade'
  <2>1. \A x \in Makes : Planned(make'[x]) /\ (~With("two_completes") => Once(make'[x]))
    BY <1>3, <1>5 DEF IInv, AllPlanned, OnceMade
  <2> QED BY <2>1 DEF AllPlanned, Planned, OnceMade, With
<1>9. AllOrdered' /\ AllServed' /\ AllItemized' /\ AllParked' /\ AllBought'
  BY <1>3, OrdersStand, MovesStand, BuysStand DEF IInv
<1>10. AllCounted' /\ Truthful'
  <2>1. Counted(count', batch', level', astray', lost')
    BY <1>3, <1>6, CountsStand DEF IInv
  <2>2. ~With("moved_while_counted") => Truth(astray', lost')
    BY <1>6 DEF IInv, Truthful
  <2> QED BY <2>1, <2>2, CountedNext
<1>11. BatchesMatchLevels'
  BY <1>3, BatchesMatchNext DEF IInv
<1>12. HeldIsReserved'
  <2>1. ASSUME ~With("odd_cancel"), NEW g \in Goods, NEW p \in Places
        PROVE  level'[<<g, p>>].held = (IF p = Counter THEN ReservedOf(ticket, book, g) ELSE 0)
                                         + (IF p = Workshop THEN HeldForMakes(make', g) ELSE 0)
    <3> DEFINE a == ReservedOf(ticket, book, g)
               b == HeldForMakes(make, g)
               c == HeldOf(m, make[m])[g]
               d == HeldOf(m, r)[g]
               e == HeldForMakes(make', g)
    <3>1. level[<<g, p>>].held = (IF p = Counter THEN a ELSE 0) + (IF p = Workshop THEN b ELSE 0)
      BY <2>1, HeldIsReservedIs DEF IInv, With, Reserved
    <3>2. level'[<<g, p>>].held = level[<<g, p>>].held + (IF p = Workshop THEN d - c ELSE 0)
      BY <1>2, <2>1 DEF MakeKeeps
    <3>3. a \in Int
      BY <1>4, SumsAre
    <3>4. e = b - c + d /\ b \in Int /\ c \in Int /\ d \in Int
      <4>1. b \in Nat /\ c \in Int /\ d \in Int
        BY <1>3, <1>4, MakesChange
      <4>2. e = b - c + d
        BY <1>3, <1>4, MakesChange
      <4> HIDE DEF b, c, d, e
      <4> QED BY <4>1, <4>2
    <3> HIDE DEF a, b, c, d, e
    <3>5. level'[<<g, p>>].held = (IF p = Counter THEN a ELSE 0) + (IF p = Workshop THEN e ELSE 0)
      BY <3>1, <3>2, <3>3, <3>4
    <3> QED BY <3>5 DEF a, e
  <2> QED BY <2>1, HeldIsReservedNext DEF Reserved, With
<1>13. LevelsMatchDocuments'
  <2>1. ASSUME ~With("two_completes"), NEW g \in Goods
        PROVE  /\ MadeOfAll(make', g) \in Int
               /\ StockedBy(g, (IF g = Bought THEN buy.received - buy.received ELSE 0)
                             - (TakenOf(book, g) - TakenOf(book, g))
                             + (MadeOfAll(make', g) - MadeOfAll(make, g))
                             - (UnderWay(move, g) - UnderWay(move, g))
                             + (Corrected(corrected, g) - Corrected(corrected, g)))
    <3> DEFINE b == MadeOfAll(make, g)
               c == MadeOf(m, make[m])[g]
               d == MadeOf(m, r)[g]
               e == MadeOfAll(make', g)
               f == TakenOf(book, g)
               h == UnderWay(move, g)
               i == Corrected(corrected, g)
               j == buy.received
               n == (IF g = Bought THEN j - j ELSE 0) - (f - f) + (e - b) - (h - h) + (i - i)
    <3>1. StockedBy(g, d - c)
      BY <1>2, <2>1 DEF MakeKeeps
    <3>2. e = b - c + d /\ b \in Int /\ c \in Int /\ d \in Int
      BY <1>3, <1>4, MakesChange
    <3>3. f \in Int /\ h \in Int /\ i \in Int /\ j \in Int
      BY <1>4, SumsAre
    <3> HIDE DEF b, c, d, e, f, h, i, j
    <3>4. n = d - c /\ e \in Int
      BY <3>2, <3>3
    <3>5. StockedBy(g, n)
      BY <3>1, <3>4
    <3> QED BY <3>4, <3>5 DEF b, e, f, h, i, j
  <2> QED BY <1>4, <1>6, <2>1, SumsAre, DocumentedNext DEF IInv
<1> QED BY <1>7, <1>8, <1>9, <1>10, <1>11, <1>12, <1>13 DEF IInv

\* A step of a transfer keeps it.
LEMMA MovesKeepIt ==
  ASSUME IInv, MoveStep, Still, UNCHANGED <<scene, ticket, book, make, buyVars, countVars>>
  PROVE  IInv'
<1>1. PICK t \in Moves : \E r : MoveKeeps(t, r)
  BY MoveStepKeeps DEF IInv
<1>2. PICK r : MoveKeeps(t, r)
  BY <1>1
<1>3. /\ move' = [move EXCEPT ![t] = r] /\ r \in Move /\ Itemized(batch', r)
      /\ ~With("relocate") => Parked(batch', r)
      /\ Sound /\ HeldStays /\ (Straight => Matched)
      /\ level' \in Table /\ Batches(batch') /\ Grown(batch, batch') /\ setting' = setting
  BY <1>2 DEF MoveKeeps, Sound
<1>4. /\ make \in [Makes -> Make] /\ ticket \in [Orders -> Ticket] /\ book \in [Orders -> Book]
      /\ move \in [Moves -> Move] /\ TypeOK /\ corrected \in Cells /\ astray \in Cells /\ lost \in Losses
      /\ count \in [Counts -> Count]
  BY CountsAre DEF IInv, TypeOK
<1>5. move' \in [Moves -> Move] /\ \A x \in Moves : move'[x] = IF x = t THEN r ELSE move[x]
  BY <1>3, <1>4
<1>6. /\ buy' = buy /\ delivery' = delivery /\ supplier' = supplier
      /\ count' = count /\ astray' = astray /\ lost' = lost /\ corrected' = corrected
  BY DEF buyVars, countVars
<1>7. TypeOK'
  BY <1>3, <1>4, <1>5, <1>6, BuyIs, TypeNext
<1>8. AllItemized' /\ AllParked'
  <2>1. ASSUME NEW x \in Moves
        PROVE  Itemized(batch', move'[x]) /\ (~With("relocate") => Parked(batch', move'[x]))
    <3>1. CASE x = t
      BY <1>3, <1>5, <3>1
    <3>2. CASE x # t
      <4>1. Itemized(batch, move[x]) /\ (~With("relocate") => Parked(batch, move[x]))
        BY DEF IInv, AllItemized, AllParked
      <4> QED BY <1>3, <1>5, <3>2, <4>1, CarriesOn
    <3> QED BY <3>1, <3>2
  <2> QED BY <2>1 DEF AllItemized, AllParked, With
<1>9. AllOrdered' /\ AllServed' /\ AllPlanned' /\ OnceMade' /\ AllBought'
  BY <1>3, OrdersStand, MakesStand, BuysStand DEF IInv
<1>10. AllCounted' /\ Truthful'
  <2>1. Counted(count', batch', level', astray', lost')
    BY <1>3, <1>6, CountsStand DEF IInv
  <2>2. ~With("moved_while_counted") => Truth(astray', lost')
    BY <1>6 DEF IInv, Truthful
  <2> QED BY <2>1, <2>2, CountedNext
<1>11. BatchesMatchLevels'
  <2>1. Straight => InBatchesMatched
    BY <1>3 DEF Matched, InBatchesMatched, InBatches
  <2> QED BY <1>3, <2>1, BatchesMatchNext DEF IInv
<1>12. HeldIsReserved'
  BY <1>3, HeldNext DEF IInv
<1>13. LevelsMatchDocuments'
  <2>1. ASSUME NEW g \in Goods
        PROVE  /\ UnderWay(move', g) \in Int
               /\ StockedBy(g, (IF g = Bought THEN buy.received - buy.received ELSE 0)
                             - (TakenOf(book, g) - TakenOf(book, g))
                             + (MadeOfAll(make, g) - MadeOfAll(make, g))
                             - (UnderWay(move', g) - UnderWay(move, g))
                             + (Corrected(corrected, g) - Corrected(corrected, g)))
    <3> DEFINE b == UnderWay(move, g)
               c == OnWay(move[t], g)
               d == OnWay(r, g)
               e == UnderWay(move', g)
               f == TakenOf(book, g)
               h == MadeOfAll(make, g)
               i == Corrected(corrected, g)
               j == buy.received
               n == (IF g = Bought THEN j - j ELSE 0) - (f - f) + (h - h) - (e - b) + (i - i)
    <3>1. StockedBy(g, c - d)
      BY <1>2 DEF MoveKeeps
    <3>2. e = b - c + d /\ b \in Int /\ c \in Int /\ d \in Int
      BY <1>3, <1>4, MovesChange
    <3>3. f \in Int /\ h \in Int /\ i \in Int /\ j \in Int
      BY <1>4, SumsAre
    <3> HIDE DEF b, c, d, e, f, h, i, j
    <3>4. n = c - d /\ e \in Int
      BY <3>2, <3>3
    <3>5. StockedBy(g, n)
      BY <3>1, <3>4
    <3> QED BY <3>4, <3>5 DEF b, e, f, h, i, j
  <2> QED BY <1>4, <1>6, <2>1, SumsAre, DocumentedNext DEF IInv
<1> QED BY <1>7, <1>8, <1>9, <1>10, <1>11, <1>12, <1>13 DEF IInv

\* A step of the buying keeps it.
LEMMA BuysKeepIt ==
  ASSUME IInv, BuyStep, Still, UNCHANGED <<scene, ticket, book, make, move, countVars>>
  PROVE  IInv'
<1>1. BuyKeeps
  BY BuyStepKeeps DEF IInv
<1>2. /\ buy' \in Buy /\ delivery' \in [Deliveries -> Delivery] /\ supplier' \in Supplier
      /\ Buying(buy', delivery', supplier') /\ Sound /\ HeldStays /\ Matched
      /\ level' \in Table /\ Batches(batch') /\ Grown(batch, batch') /\ setting' = setting
  BY <1>1 DEF BuyKeeps, Sound
<1>3. /\ make \in [Makes -> Make] /\ ticket \in [Orders -> Ticket] /\ book \in [Orders -> Book]
      /\ move \in [Moves -> Move] /\ TypeOK /\ corrected \in Cells /\ astray \in Cells /\ lost \in Losses
      /\ count \in [Counts -> Count]
  BY CountsAre DEF IInv, TypeOK
<1>4. count' = count /\ astray' = astray /\ lost' = lost /\ corrected' = corrected
  BY DEF countVars
<1>5. TypeOK'
  BY <1>2, <1>3, <1>4, TypeNext
<1>6. AllBought'
  BY <1>2 DEF AllBought, Buying, With
<1>7. AllOrdered' /\ AllServed' /\ AllPlanned' /\ OnceMade' /\ AllItemized' /\ AllParked'
  BY <1>2, OrdersStand, MakesStand, MovesStand DEF IInv
<1>8. AllCounted' /\ Truthful'
  <2>1. Counted(count', batch', level', astray', lost')
    BY <1>2, <1>4, CountsStand DEF IInv
  <2>2. ~With("moved_while_counted") => Truth(astray', lost')
    BY <1>4 DEF IInv, Truthful
  <2> QED BY <2>1, <2>2, CountedNext
<1>9. BatchesMatchLevels'
  <2>1. InBatchesMatched
    BY <1>2 DEF Matched, InBatchesMatched, InBatches
  <2> QED BY <1>2, <2>1, BatchesMatchNext DEF IInv
<1>10. HeldIsReserved'
  BY <1>2, HeldNext DEF IInv
<1>11. LevelsMatchDocuments'
  <2>1. buy'.received \in Int
    BY <1>2 DEF Buy
  <2>2. ASSUME NEW g \in Goods
        PROVE  StockedBy(g, (IF g = Bought THEN buy'.received - buy.received ELSE 0)
                             - (TakenOf(book, g) - TakenOf(book, g))
                             + (MadeOfAll(make, g) - MadeOfAll(make, g))
                             - (UnderWay(move, g) - UnderWay(move, g))
                             + (Corrected(corrected, g) - Corrected(corrected, g)))
    <3> DEFINE f == TakenOf(book, g)
               h == MadeOfAll(make, g)
               i == Corrected(corrected, g)
               w == UnderWay(move, g)
               j == IF g = Bought THEN buy'.received - buy.received ELSE 0
               n == j - (f - f) + (h - h) - (w - w) + (i - i)
    <3>1. StockedBy(g, j)
      BY <1>1 DEF BuyKeeps
    <3>2. f \in Int /\ h \in Int /\ i \in Int /\ w \in Int /\ j \in Int
      BY <1>3, <2>1, SumsAre
    <3> HIDE DEF f, h, i, w, j
    <3>3. n = j
      BY <3>2
    <3>4. StockedBy(g, n)
      BY <3>1, <3>3
    <3> QED BY <3>4 DEF f, h, i, w, j
  <2> QED BY <1>3, <1>4, <2>1, <2>2, SumsAre, DocumentedNext DEF IInv
<1> QED BY <1>5, <1>6, <1>7, <1>8, <1>9, <1>10, <1>11 DEF IInv

\* A step of the counts, or an adjustment by hand, keeps it.
LEMMA CountsKeepIt ==
  ASSUME IInv, CountStep \/ (HandStep /\ Still),
         UNCHANGED <<scene, ticket, book, make, move, buyVars>>
  PROVE  IInv'
<1>1. CountKeeps
  <2>1. CASE CountStep
    BY <2>1, CountStepKeeps DEF IInv
  <2>2. CASE HandStep /\ Still
    <3>1. /\ Sound /\ HeldStays /\ Matched /\ corrected' \in Cells
          /\ count' = count /\ astray' = astray /\ lost' = lost
          /\ \A g \in Goods : StockedBy(g, Corrected(corrected', g) - Corrected(corrected, g))
      BY <2>2, HandStepKeeps DEF IInv
    <3>2. Counted(count', batch', level', astray', lost')
      BY <2>2, <3>1, CountsStand DEF IInv, Sound
    <3>3. ~With("moved_while_counted") => Truth(astray', lost')
      BY <3>1 DEF IInv, Truthful
    <3>4. count' \in [Counts -> Count] /\ astray' \in Cells /\ lost' \in Losses
      BY <3>1, CountsAre DEF IInv
    <3> QED BY <3>1, <3>2, <3>3, <3>4 DEF CountKeeps
  <2> QED BY <2>1, <2>2
<1>2. /\ count' \in [Counts -> Count] /\ astray' \in Cells /\ lost' \in Losses /\ corrected' \in Cells
      /\ Counted(count', batch', level', astray', lost')
      /\ ~With("moved_while_counted") => Truth(astray', lost')
      /\ Sound /\ HeldStays /\ Matched
      /\ level' \in Table /\ Batches(batch') /\ Grown(batch, batch') /\ setting' = setting
  BY <1>1 DEF CountKeeps, Sound
<1>3. /\ make \in [Makes -> Make] /\ ticket \in [Orders -> Ticket] /\ book \in [Orders -> Book]
      /\ move \in [Moves -> Move] /\ TypeOK
  BY DEF IInv, TypeOK
<1>4. buy' = buy /\ delivery' = delivery /\ supplier' = supplier
  BY DEF buyVars
<1>5. TypeOK'
  BY <1>2, <1>3, <1>4, BuyIs, TypeNext
<1>6. AllCounted' /\ Truthful'
  BY <1>2, CountedNext
<1>7. AllOrdered' /\ AllServed' /\ AllPlanned' /\ OnceMade' /\ AllItemized' /\ AllParked' /\ AllBought'
  BY <1>2, OrdersStand, MakesStand, MovesStand, BuysStand DEF IInv
<1>8. BatchesMatchLevels'
  <2>1. InBatchesMatched
    BY <1>2 DEF Matched, InBatchesMatched, InBatches
  <2> QED BY <1>2, <2>1, BatchesMatchNext DEF IInv
<1>9. HeldIsReserved'
  BY <1>2, HeldNext DEF IInv
<1>10. LevelsMatchDocuments'
  <2>1. ASSUME NEW g \in Goods
        PROVE  /\ Corrected(corrected', g) \in Int
               /\ StockedBy(g, (IF g = Bought THEN buy.received - buy.received ELSE 0)
                             - (TakenOf(book, g) - TakenOf(book, g))
                             + (MadeOfAll(make, g) - MadeOfAll(make, g))
                             - (UnderWay(move, g) - UnderWay(move, g))
                             + (Corrected(corrected', g) - Corrected(corrected, g)))
    <3> DEFINE f == TakenOf(book, g)
               h == MadeOfAll(make, g)
               w == UnderWay(move, g)
               j == buy.received
               d == Corrected(corrected', g)
               e == Corrected(corrected, g)
               n == (IF g = Bought THEN j - j ELSE 0) - (f - f) + (h - h) - (w - w) + (d - e)
    <3>1. StockedBy(g, d - e)
      BY <1>1 DEF CountKeeps
    <3>2. f \in Int /\ h \in Int /\ w \in Int /\ j \in Int /\ e \in Int
      BY <1>3, SumsAre
    <3>3. d \in Int
      <4> DEFINE k == corrected'
      <4>1. k \in Cells
        BY <1>2
      <4> HIDE DEF k
      <4>2. Corrected(k, g) \in Int
        BY <4>1, CorrectedIsInt
      <4> QED BY <4>2 DEF k
    <3> HIDE DEF f, h, w, j, d, e
    <3>4. n = d - e
      BY <3>2, <3>3
    <3>5. StockedBy(g, n)
      BY <3>1, <3>4
    <3> QED BY <3>3, <3>5 DEF f, h, w, j, d, e
  <2> QED BY <1>3, <1>4, <2>1, SumsAre, DocumentedNext DEF IInv
<1> QED BY <1>5, <1>6, <1>7, <1>8, <1>9, <1>10 DEF IInv

\* What is reserved for an order can be released.
LEMMA CanReleaseIt ==
  ASSUME TypeOK, Reserved(level, ticket, book, make), NEW o \in Orders, ticket[o].status # "CANCELED"
  PROVE  CanRelease(level, Counter, HeldBy(o))
<1>1. ASSUME NEW g \in Goods PROVE level[<<g, Counter>>].held >= HeldBy(o)[g]
  <2> DEFINE a == ReservedOf(ticket, book, g)
             b == HeldForMakes(make, g)
             c == Share(ticket[o], book[o], g)
  <2>1. ticket \in [Orders -> Ticket] /\ book \in [Orders -> Book] /\ ticket[o] \in Ticket /\ book[o] \in Book
    BY DEF TypeOK
  <2>2. c \in Nat /\ c <= a /\ a \in Int
    BY <2>1, ReservedChanges
  <2>3. b \in Nat
    BY SumsAre
  <2>4. level[<<g, Counter>>].held = a + (IF Counter = Workshop THEN b ELSE 0)
    BY GivenOrders DEF Reserved
  <2>5. HeldBy(o)[g] = c
    BY OrderIs DEF Share
  <2> HIDE DEF a, b, c
  <2> QED BY <2>2, <2>3, <2>4, <2>5
<1> QED BY <1>1 DEF CanRelease

\* A step of an order keeps it.
LEMMA OrdersKeepIt ==
  ASSUME IInv, OrderStep, Still, UNCHANGED <<scene, batch, make, move, buyVars, countVars>>
  PROVE  IInv'
<1>1. PICK o \in Orders : \E t, s : Becomes(o, t, s) /\ OrderKeeps(o, t, s)
  BY OrderStepKeeps DEF IInv
<1>2. PICK t, s : Becomes(o, t, s) /\ OrderKeeps(o, t, s)
  BY <1>1
<1> DEFINE old == book[o]
           new == s.book
           l == s.level
<1>3. /\ ticket' = [ticket EXCEPT ![o] = t] /\ level' = l /\ book' = [book EXCEPT ![o] = new]
      /\ setting' = setting
      /\ t \in Ticket /\ t.status # "none" /\ ticket[o].status # "CANCELED"
      /\ s \in Pair /\ Follows(Books(o), s) /\ Ordered(t, new) /\ (Orderly => Served(t, new))
      /\ (t.status = "CANCELED" /\ setting.reserve /\ CanRelease(level, Counter, HeldBy(o)))
           => HeldIn(new) = Nothing
  BY <1>2 DEF Becomes, OrderKeeps
<1>4. /\ l \in Table /\ new \in Book /\ old \in Book /\ Books(o).level = level /\ Books(o).book = old
      /\ Ordered(ticket[o], old) /\ HeldBy(o) = HeldIn(old) /\ setting.reserve \in BOOLEAN
  BY <1>3, OrderIs, PairIs, SettingIs DEF IInv, AllOrdered, TypeOK
<1>5. /\ make \in [Makes -> Make] /\ ticket \in [Orders -> Ticket] /\ book \in [Orders -> Book]
      /\ move \in [Moves -> Move] /\ TypeOK /\ corrected \in Cells /\ astray \in Cells /\ lost \in Losses
      /\ count \in [Counts -> Count]
  BY CountsAre DEF IInv, TypeOK
<1>6. /\ \A g \in Goods, p \in Places \ {Counter} :
           l[<<g, p>>].qty = level[<<g, p>>].qty /\ l[<<g, p>>].held = level[<<g, p>>].held
      /\ \A g \in Goods :
           /\ l[<<g, Counter>>].qty + TakenIn(new)[g] = level[<<g, Counter>>].qty + TakenIn(old)[g]
           /\ l[<<g, Counter>>].held - HeldIn(new)[g] = level[<<g, Counter>>].held - HeldIn(old)[g]
  BY <1>3, <1>4 DEF Follows
<1> HIDE DEF l, new, old
<1>7. /\ ticket' \in [Orders -> Ticket] /\ book' \in [Orders -> Book]
      /\ \A x \in Orders : /\ ticket'[x] = IF x = o THEN t ELSE ticket[x]
                           /\ book'[x] = IF x = o THEN new ELSE book[x]
  BY <1>3, <1>4, <1>5
<1>8. /\ buy' = buy /\ delivery' = delivery /\ supplier' = supplier
      /\ count' = count /\ astray' = astray /\ lost' = lost /\ corrected' = corrected
      /\ make' = make /\ move' = move /\ batch' = batch /\ scene' = scene
  BY DEF buyVars, countVars
<1>9. Batches(batch') /\ Grown(batch, batch')
  BY <1>5, <1>8, StockIs DEF Grown
<1>10. TypeOK'
  BY <1>3, <1>4, <1>5, <1>7, <1>8, <1>9, BuyIs, TypeNext
<1>11. AllOrdered' /\ AllServed'
  <2>1. \A x \in Orders : Ordered(ticket'[x], book'[x])
    BY <1>3, <1>7 DEF IInv, AllOrdered
  <2>2. Orderly => \A x \in Orders : Served(ticket'[x], book'[x])
    BY <1>3, <1>7 DEF IInv, AllServed
  <2>3. AllOrdered'
    BY <1>3, <1>8, <2>1 DEF AllOrdered, Ordered, With
  <2>4. AllServed'
    BY <1>3, <1>8, <2>2 DEF AllServed, Orderly, Served, Serves, With, Exact
  <2> QED BY <2>3, <2>4
<1>12. AllPlanned' /\ OnceMade' /\ AllItemized' /\ AllParked' /\ AllBought'
  BY <1>9, MakesStand, MovesStand, BuysStand DEF IInv
<1>13. AllCounted' /\ Truthful'
  <2>1. Counted(count', batch', level', astray', lost')
    BY <1>8, <1>9, CountsStand DEF IInv
  <2>2. ~With("moved_while_counted") => Truth(astray', lost')
    BY <1>8 DEF IInv, Truthful
  <2> QED BY <2>1, <2>2, CountedNext
<1>14. ASSUME NEW g \in Goods
       PROVE  /\ TakenIn(old)[g] \in Int /\ TakenIn(new)[g] \in Int
              /\ HeldIn(old)[g] \in Nat /\ HeldIn(new)[g] \in Nat
  BY <1>4, BookIs DEF Amount, Quantities
<1>15. BatchesMatchLevels'
  <2>1. ASSUME NEW g \in InBatches, NEW p \in Places PROVE Match(g, p)
    <3>1. g \in Goods /\ g \in Unsold
      BY GivenGoods DEF InBatches, Unsold
    <3>2. TakenIn(old)[g] = 0 /\ TakenIn(new)[g] = 0
      <4>1. old.sold[g] = 0 /\ old.back[g] = 0 /\ new.sold[g] = 0 /\ new.back[g] = 0
        BY <1>3, <1>4, <3>1 DEF Ordered
      <4> QED BY <1>4, <3>1, <4>1, BookIs
    <3>3. level[<<g, p>>].qty \in Int /\ l[<<g, p>>].qty \in Int
      BY <1>4, <1>5, <3>1, StockIs DEF Table, Level
    <3>4. l[<<g, p>>].qty = level[<<g, p>>].qty
      <4>1. CASE p = Counter
        BY <1>6, <3>1, <3>2, <3>3, <4>1
      <4>2. CASE p # Counter
        BY <1>6, <3>1, <4>2
      <4> QED BY <4>1, <4>2
    <3>5. Batched(batch, g, p) \in Nat
      BY <1>5, StockIs, LyingIs
    <3> QED BY <1>3, <1>8, <3>3, <3>4, <3>5 DEF Match
  <2>2. Sound
    BY <1>3, <1>4, <1>9 DEF Sound
  <2>3. InBatchesMatched
    BY <2>1 DEF InBatchesMatched
  <2> QED BY <1>8, <2>2, <2>3, BatchesMatchNext DEF IInv
<1>16. HeldIsReserved'
  <2>1. ASSUME ~With("odd_cancel"), NEW g \in Goods, NEW p \in Places
        PROVE  l[<<g, p>>].held = (IF p = Counter THEN ReservedOf(ticket', book', g) ELSE 0)
                                    + (IF p = Workshop THEN HeldForMakes(make, g) ELSE 0)
    <3> DEFINE a == ReservedOf(ticket, book, g)
               b == HeldForMakes(make, g)
               c == Share(ticket[o], old, g)
               d == Share(t, new, g)
               e == ReservedOf(ticket', book', g)
               x == level[<<g, p>>].held
               y == l[<<g, p>>].held
    <3>1. Reserved(level, ticket, book, make)
      BY <2>1, HeldIsReservedIs DEF IInv, With
    <3>2. x = (IF p = Counter THEN a ELSE 0) + (IF p = Workshop THEN b ELSE 0)
      BY <3>1 DEF Reserved
    <3>3. b \in Nat
      BY <1>5, SumsAre
    <3>4. e = a - c + d /\ a \in Int /\ c \in Nat /\ d \in Nat
      BY <1>3, <1>4, <1>5, ReservedChanges DEF old
    <3>5. c = HeldIn(old)[g]
      BY <1>3 DEF Share
    <3>6. d = HeldIn(new)[g]
      <4>1. CASE t.status # "CANCELED"
        BY <4>1 DEF Share
      <4>2. CASE t.status = "CANCELED"
        <5>1. CanRelease(level, Counter, HeldBy(o))
          BY <1>3, <1>5, <3>1, CanReleaseIt
        <5>2. HeldIn(new) = Nothing
          BY <1>3, <1>4, <4>2, <5>1 DEF Ordered, HeldIn
        <5> QED BY <4>2, <5>2, NothingIsNothing DEF Share
      <4> QED BY <4>1, <4>2
    <3>7. p = Counter => y - d = x - c
      BY <1>6, <3>5, <3>6
    <3>8. p # Counter => y = x
      BY <1>6
    <3>9. x \in Int /\ y \in Int
      BY <1>4, <1>5, StockIs DEF Table, Level
    <3> HIDE DEF a, b, c, d, e, x, y
    <3>10. y = (IF p = Counter THEN e ELSE 0) + (IF p = Workshop THEN b ELSE 0)
      BY <3>2, <3>3, <3>4, <3>7, <3>8, <3>9
    <3> QED BY <3>10 DEF b, e, y
  <2>2. ~With("odd_cancel") => Reserved(level', ticket', book', make')
    BY <1>3, <1>8, <2>1 DEF Reserved
  <2> QED BY <1>8, <2>2, HeldIsReservedNext DEF With
<1>17. LevelsMatchDocuments'
  <2> DEFINE q == [g \in Goods |-> TakenIn(old)[g] - TakenIn(new)[g]]
  <2>1. q \in Amount /\ \A g \in Goods : q[g] = TakenIn(old)[g] - TakenIn(new)[g]
    BY <1>14 DEF Amount
  <2> HIDE DEF q
  <2>2. ASSUME NEW g \in Goods, NEW p \in Places
        PROVE  level'[<<g, p>>].qty = level[<<g, p>>].qty + (IF p = Counter THEN q[g] ELSE 0)
    <3> DEFINE x == level[<<g, p>>].qty
               y == l[<<g, p>>].qty
               a == TakenIn(old)[g]
               b == TakenIn(new)[g]
    <3>1. x \in Int /\ y \in Int
      BY <1>4, <1>5, StockIs DEF Table, Level
    <3>2. p = Counter => y + b = x + a
      BY <1>6
    <3>3. p # Counter => y = x
      BY <1>6
    <3>4. a \in Int /\ b \in Int /\ q[g] = a - b
      BY <1>14, <2>1
    <3> HIDE DEF x, y, a, b
    <3>5. y = x + (IF p = Counter THEN q[g] ELSE 0)
      BY <3>1, <3>2, <3>3, <3>4
    <3> QED BY <1>3, <3>5 DEF x, y
  <2>3. \A g \in Goods : StockedBy(g, q[g])
    BY <1>3, <1>4, <1>5, <2>1, <2>2, GivenOrders, PutsAt
  <2>4. ASSUME NEW g \in Goods
        PROVE  /\ TakenOf(book', g) \in Int
               /\ StockedBy(g, (IF g = Bought THEN buy.received - buy.received ELSE 0)
                             - (TakenOf(book', g) - TakenOf(book, g))
                             + (MadeOfAll(make, g) - MadeOfAll(make, g))
                             - (UnderWay(move, g) - UnderWay(move, g))
                             + (Corrected(corrected, g) - Corrected(corrected, g)))
    <3> DEFINE b == TakenOf(book, g)
               c == TakenIn(old)[g]
               d == TakenIn(new)[g]
               e == TakenOf(book', g)
               f == UnderWay(move, g)
               h == MadeOfAll(make, g)
               i == Corrected(corrected, g)
               j == buy.received
               n == (IF g = Bought THEN j - j ELSE 0) - (e - b) + (h - h) - (f - f) + (i - i)
    <3>1. StockedBy(g, q[g]) /\ q[g] = c - d
      BY <2>1, <2>3
    <3>2. e = b - c + d /\ b \in Int /\ c \in Int /\ d \in Int
      BY <1>3, <1>4, <1>5, TakenChanges DEF old
    <3>3. f \in Int /\ h \in Int /\ i \in Int /\ j \in Int
      BY <1>5, SumsAre
    <3> HIDE DEF b, c, d, e, f, h, i, j
    <3>4. n = q[g] /\ e \in Int
      BY <3>1, <3>2, <3>3
    <3>5. StockedBy(g, n)
      BY <3>1, <3>4
    <3> QED BY <3>4, <3>5 DEF b, e, f, h, i, j
  <2> QED BY <1>5, <1>8, <2>4, SumsAre, DocumentedNext DEF IInv
<1> QED BY <1>10, <1>11, <1>12, <1>13, <1>15, <1>16, <1>17 DEF IInv

LEMMA NothingKeepsIt ==
  ASSUME IInv, UNCHANGED vars
  PROVE  IInv'
<1>1. /\ scene' = scene /\ setting' = setting /\ level' = level /\ batch' = batch
      /\ ticket' = ticket /\ book' = book /\ make' = make /\ move' = move
      /\ buy' = buy /\ delivery' = delivery /\ supplier' = supplier
      /\ count' = count /\ astray' = astray /\ lost' = lost /\ corrected' = corrected
  BY DEF vars, levelVars, documents, buyVars, countVars
<1>2. TypeOK'
  BY <1>1 DEF IInv, TypeOK
<1>3. Grown(batch, batch') /\ buyVars' = buyVars
  BY <1>1 DEF Grown, buyVars
<1>4. AllOrdered' /\ AllServed' /\ AllPlanned' /\ OnceMade' /\ AllItemized' /\ AllParked' /\ AllBought'
  BY <1>1, <1>3, OrdersStand, MakesStand, MovesStand, BuysStand DEF IInv
<1>5. AllCounted' /\ Truthful'
  <2>1. Counted(count', batch', level', astray', lost')
    BY <1>1 DEF IInv, AllCounted
  <2>2. ~With("moved_while_counted") => Truth(astray', lost')
    BY <1>1 DEF IInv, Truthful
  <2> QED BY <1>1, <2>1, <2>2, CountedNext
<1>6. HeldIsReserved'
  BY <1>1, HeldNext DEF IInv, HeldStays
<1>7. BatchesMatchLevels'
  BY <1>1 DEF IInv, BatchesMatchLevels
<1>8. LevelsMatchDocuments'
  BY <1>1, LevelsMatchIs, LevelsMatchNext DEF IInv
<1> QED BY <1>2, <1>4, <1>5, <1>6, <1>7, <1>8 DEF IInv

\* At first there is the opening stock, and no document.
LEMMA InitRows ==
  ASSUME Init
  PROVE  /\ \A o \in Orders : book[o] = NoBook /\ ticket[o].status = "none" /\ ticket[o].edits = 0
         /\ \A m \in Makes : /\ make[m].status = "none" /\ make[m].inputs = "PENDING"
                             /\ make[m].checked = 0
         /\ \A t \in Moves : move[t].status = "none" /\ move[t].item = NoItem
         /\ \A d \in Deliveries : delivery[d].status = "none" /\ delivery[d].rows = <<>>
         /\ buy.status = "none" /\ buy.received = 0 /\ buy.ordered = 0
         /\ supplier.balance = 0 /\ supplier.paid = 0
         /\ \A c \in Counts : count[c].status = "none" /\ count[c].lines = {}
         /\ \A x \in Goods \X Places : /\ astray[x] = 0 /\ lost[x] = 0 /\ corrected[x] = 0
                                       /\ level[x].qty = Opening[x] /\ level[x].held = 0
         /\ batch = FirstBatches
<1>1. \A o \in Orders : book[o] = NoBook /\ ticket[o].status = "none" /\ ticket[o].edits = 0
  BY DEF Init, OrdersInit, NoBook
<1>2. \A m \in Makes : make[m].status = "none" /\ make[m].inputs = "PENDING" /\ make[m].checked = 0
  BY DEF Init, MakesInit
<1>3. \A t \in Moves : move[t].status = "none" /\ move[t].item = NoItem
  BY DEF Init, MovesInit
<1>4. /\ \A d \in Deliveries : delivery[d].status = "none" /\ delivery[d].rows = <<>>
      /\ buy.status = "none" /\ buy.received = 0 /\ buy.ordered = 0
      /\ supplier.balance = 0 /\ supplier.paid = 0
  BY DEF Init, BuysInit
<1>5. \A c \in Counts : count[c].status = "none" /\ count[c].lines = {}
  BY DEF Init, CountsInit, NoCount
<1>6. \A x \in Goods \X Places : /\ astray[x] = 0 /\ lost[x] = 0 /\ corrected[x] = 0
                                 /\ level[x].qty = Opening[x] /\ level[x].held = 0
  BY DEF Init, CountsInit, LevelsInit
<1> QED BY <1>1, <1>2, <1>3, <1>4, <1>5, <1>6 DEF Init, BatchesInit

LEMMA InitTypes ==
  ASSUME Init
  PROVE  TypeOK
<1>1. scene \in DOMAIN Scenes /\ setting \in Scenes[scene]
  BY DEF Init
<1>2. level \in [Goods \X Places -> Level]
  BY GivenGoods DEF Init, LevelsInit, Level
<1>3. \E n \in 0 .. NumBatches : batch \in [1 .. n -> Batch]
  BY GivenBatches DEF Init, BatchesInit
<1>4. ticket \in [Orders -> Ticket] /\ book \in [Orders -> Book]
  BY NothingIsNothing DEF Init, OrdersInit, Ticket, Book
<1>5. make \in [Makes -> Make]
  BY NothingIsNothing DEF Init, MakesInit, Make, MakeStatus
<1>6. move \in [Moves -> Move]
  <2>1. (CHOOSE p \in Places : TRUE) \in Places
    BY GivenOrders
  <2> QED BY <2>1, NoItemIs DEF Init, MovesInit, Move, MoveStatus
<1>7. buy \in Buy /\ supplier \in Supplier
  BY DEF Init, BuysInit, Buy, BuyStatus, Supplier
<1>8. delivery \in [Deliveries -> Delivery]
  BY DEF Init, BuysInit, Delivery
<1>9. count \in [Counts -> Count]
  <2>1. (CHOOSE p \in Places : TRUE) \in Places
    BY GivenOrders
  <2> QED BY <2>1 DEF Init, CountsInit, NoCount, Count
<1>10. /\ astray \in [Goods \X Places -> Int] /\ lost \in [Goods \X Places -> Nat]
       /\ corrected \in [Goods \X Places -> Int]
  BY DEF Init, CountsInit
<1> QED BY <1>1, <1>2, <1>3, <1>4, <1>5, <1>6, <1>7, <1>8, <1>9, <1>10 DEF TypeOK

\* Then every sum is zero, save that of the opening stock.
LEMMA InitSums ==
  ASSUME Init, NEW g \in Goods
  PROVE  /\ TakenOf(book, g) = 0 /\ ReservedOf(ticket, book, g) = 0
         /\ HeldForMakes(make, g) = 0 /\ MadeOfAll(make, g) = 0 /\ UnderWay(move, g) = 0
         /\ Corrected(corrected, g) = 0 /\ Stocked(level, g) = OpeningOf(g) /\ OpeningOf(g) \in Int
<1> DEFINE f == [o \in Orders |-> TakenIn(book[o])[g]]
           e == [o \in Orders |-> Share(ticket[o], book[o], g)]
           h == [m \in Makes |-> HeldOf(m, make[m])[g]]
           k == [m \in Makes |-> MadeOf(m, make[m])[g]]
           w == [t \in Moves |-> OnWay(move[t], g)]
           c == [p \in Places |-> corrected[<<g, p>>]]
           l == [p \in Places |-> level[<<g, p>>].qty]
           n == [p \in Places |-> Opening[<<g, p>>]]
<1>1. Nothing[g] = 0 /\ TakenIn(NoBook)[g] = 0 /\ HeldIn(NoBook)[g] = 0
  <2>1. Nothing[g] = 0 /\ Minus(Nothing, Nothing) = Nothing
    BY NothingIsNothing, PlusNothing
  <2> QED BY <2>1, NoBookIs DEF TakenIn, HeldIn
<1>2. \A o \in Orders : f[o] = 0 /\ e[o] = 0
  BY <1>1, InitRows DEF Share
<1>3. \A m \in Makes : h[m] = 0 /\ k[m] = 0
  BY <1>1, InitRows DEF HeldOf, MadeOf
<1>4. \A t \in Moves : w[t] = 0
  BY InitRows DEF OnWay
<1>5. \A p \in Places : c[p] = 0 /\ l[p] = n[p] /\ n[p] \in Int
  BY InitRows, GivenGoods
<1>6. /\ TakenOf(book, g) = SumFunctionOnSet(f, Orders)
      /\ ReservedOf(ticket, book, g) = SumFunctionOnSet(e, Orders)
  BY DEF TakenOf, ReservedOf, SumFunction
<1>7. /\ HeldForMakes(make, g) = SumFunctionOnSet(h, Makes)
      /\ MadeOfAll(make, g) = SumFunctionOnSet(k, Makes)
  BY DEF HeldForMakes, MadeOfAll, SumFunction
<1>8. UnderWay(move, g) = SumFunctionOnSet(w, Moves) /\ OpeningOf(g) = SumFunctionOnSet(n, Places)
  BY DEF UnderWay, OpeningOf, SumFunction
<1>9. Corrected(corrected, g) = SumFunctionOnSet(c, Places) /\ Stocked(level, g) = SumFunctionOnSet(l, Places)
  BY DEF Corrected, Stocked, SumFunction
<1> HIDE DEF f, e, h, k, w, n, c, l
<1>10. SumFunctionOnSet(f, Orders) = 0 /\ SumFunctionOnSet(e, Orders) = 0
  BY <1>2, GivenGoods, SumOfZeros
<1>11. SumFunctionOnSet(h, Makes) = 0 /\ SumFunctionOnSet(k, Makes) = 0
  BY <1>3, GivenGoods, SumOfZeros
<1>12. SumFunctionOnSet(w, Moves) = 0 /\ SumFunctionOnSet(c, Places) = 0
  BY <1>4, <1>5, GivenGoods, SumOfZeros
<1>13. SumFunctionOnSet(l, Places) = SumFunctionOnSet(n, Places) /\ SumFunctionOnSet(n, Places) \in Int
  BY <1>5, GivenGoods, SumSame, SumIsInt
<1> QED BY <1>6, <1>7, <1>8, <1>9, <1>10, <1>11, <1>12, <1>13

LEMMA InitKeepsIt ==
  ASSUME Init
  PROVE  IInv
<1>1. TypeOK
  BY InitTypes
<1>2. AllOrdered /\ AllServed
  <2>1. ASSUME NEW o \in Orders PROVE Ordered(ticket[o], book[o]) /\ Served(ticket[o], book[o])
    <3>1. book[o] = NoBook /\ ticket[o].status = "none" /\ ticket[o].edits = 0
      BY InitRows
    <3>2. \A g \in Unsold : Nothing[g] = 0
      BY NothingIsNothing DEF Unsold
    <3>3. ~(ticket[o].edits > 0)
      BY <3>1
    <3>4. Ordered(ticket[o], book[o])
      BY <3>1, <3>2, <3>3, NoBookIs DEF Ordered
    <3>5. Serves(ticket[o], book[o])
      BY <3>1, NoBookIs DEF Serves
    <3>6. Served(ticket[o], book[o])
      BY <3>1, <3>5, NoBookIs DEF Served
    <3> QED BY <3>4, <3>6
  <2> QED BY <2>1 DEF AllOrdered, AllServed
<1>3. AllPlanned /\ OnceMade
  BY InitRows DEF AllPlanned, Planned, OnceMade, Once
<1>4. AllItemized /\ AllParked
  <2>1. \A t \in Moves : move[t].item.qty = 0 /\ move[t].item.batch = 0
    BY InitRows, NoItemIs
  <2> QED BY <2>1 DEF AllItemized, Itemized, AllParked, Parked
<1>5. AllBought
  <2>1. Filed(delivery)
    BY InitRows DEF Filed
  <2>2. Lone(delivery)
    BY InitRows DEF Lone
  <2>3. Owing(buy, supplier)
    BY InitRows DEF Owing
  <2>4. Awaited(buy, delivery)
    BY InitRows DEF Awaited
  <2>5. Open(buy, supplier)
    BY InitRows DEF Open, Pending
  <2> QED BY <2>1, <2>2, <2>3, <2>4, <2>5 DEF AllBought, Buying
<1>6. AllCounted /\ Truthful
  <2>1. ASSUME NEW c \in Counts
        PROVE  Known(batch, count[c]) /\ Fresh(count[c]) /\ Near(level, astray, lost, count[c])
    <3>1. count[c].status = "none" /\ count[c].lines = {}
      BY InitRows
    <3> QED BY <3>1 DEF Known, Fresh, RecordedIn, Near
  <2>2. Truth(astray, lost)
    BY InitRows DEF Truth
  <2> QED BY <2>1, <2>2 DEF AllCounted, Counted, Truthful
<1>7. HeldIsReserved
  <2>1. ASSUME NEW g \in Goods, NEW p \in Places
        PROVE  level[<<g, p>>].held = (IF p = Counter THEN ReservedOf(ticket, book, g) ELSE 0)
                                        + (IF p = Workshop THEN HeldForMakes(make, g) ELSE 0)
    <3>1. level[<<g, p>>].held = 0
      BY InitRows
    <3>2. ReservedOf(ticket, book, g) = 0 /\ HeldForMakes(make, g) = 0
      BY InitSums
    <3> QED BY <3>1, <3>2
  <2> QED BY <2>1, HeldIsReservedIs DEF Reserved
<1>8. BatchesMatchLevels
  <2>1. ASSUME NEW g \in InBatches, NEW p \in Places PROVE Batched(batch, g, p) = level[<<g, p>>].qty
    <3>1. g \in Tracked /\ g \in Goods
      BY GivenGoods DEF InBatches
    <3>2. level[<<g, p>>].qty = Opening[<<g, p>>] /\ batch = FirstBatches
      BY <3>1, InitRows
    <3> QED BY <3>1, <3>2, GivenBatches
  <2> QED BY <2>1 DEF BatchesMatchLevels
<1>9. LevelsMatchDocuments
  <2>1. ASSUME NEW g \in Goods PROVE Documented(g, level, book, make, move, buy, corrected)
    <3>1. buy.received = 0
      BY InitRows
    <3> QED BY <3>1, InitSums DEF Documented
  <2> QED BY <2>1, LevelsMatchIs
<1> QED BY <1>1, <1>2, <1>3, <1>4, <1>5, <1>6, <1>7, <1>8, <1>9 DEF IInv

LEMMA NextKeepsIt ==
  ASSUME IInv, Next
  PROVE  IInv'
<1>1. scene' = scene
  BY DEF Next
<1>2. CASE OrderStep /\ Still /\ UNCHANGED <<batch, make, move, buyVars, countVars>>
  BY <1>1, <1>2, OrdersKeepIt
<1>3. CASE MakeStep /\ Still /\ UNCHANGED <<ticket, book, move, buyVars, countVars>>
  BY <1>1, <1>3, MakesKeepIt
<1>4. CASE MoveStep /\ Still /\ UNCHANGED <<ticket, book, make, buyVars, countVars>>
  BY <1>1, <1>4, MovesKeepIt
<1>5. CASE BuyStep /\ Still /\ UNCHANGED <<ticket, book, make, move, countVars>>
  BY <1>1, <1>5, BuysKeepIt
<1>6. CASE CountStep /\ UNCHANGED <<ticket, book, make, move, buyVars>>
  BY <1>1, <1>6, CountsKeepIt
<1>7. CASE HandStep /\ Still /\ UNCHANGED <<ticket, book, make, move, buyVars>>
  BY <1>1, <1>7, CountsKeepIt
<1> QED BY <1>2, <1>3, <1>4, <1>5, <1>6, <1>7 DEF Next

LEMMA Inductive == Spec => []IInv
<1>1. Init => IInv
  BY InitKeepsIt
<1>2. IInv /\ [Next]_vars => IInv'
  BY NextKeepsIt, NothingKeepsIt
<1> QED BY <1>1, <1>2, PTL DEF Spec

-----------------------------------------------------------------------------

\* Every variable of the stock keeps its type, whatever documents move it.
THEOREM StockTypeCorrect == Spec => []TypeOK
<1>1. IInv => TypeOK
  BY DEF IInv
<1> QED BY <1>1, Inductive, PTL

\* What is reserved of a good is what the open orders and production orders reserved of
\* it: release_reservation gives back what reserve took, once, and nothing else.
THEOREM ReservationsHold == Spec => []HeldIsReserved
<1>1. IInv => HeldIsReserved
  BY DEF IInv
<1> QED BY <1>1, Inductive, PTL

\* deduct_for_order takes what the lines of an order need, or nothing, also after edits
\* where negative stock is allowed and edits are followed, and reverse_deduction gives back all that it took.
THEOREM OrdersTakeTheirNeeds == Spec => []OrdersTakeWhatTheyNeed
<1>1. IInv => OrdersTakeWhatTheyNeed
  <2> SUFFICES ASSUME IInv, Orderly
               PROVE  /\ "edit_cancel" \notin scene => CanceledGivesBack
                      /\ "edit" \notin scene \/ (setting.negative /\ setting.adjusts) =>
                           \A o \in Orders : ticket[o].status # "CANCELED" =>
                                               Taken(o) \in {Nothing, Needs(ticket[o].lines)}
    BY DEF OrdersTakeWhatTheyNeed, Orderly
  <2>1. \A o \in Orders : /\ ticket[o] \in Ticket /\ book[o] \in Book
                          /\ Ordered(ticket[o], book[o]) /\ Served(ticket[o], book[o])
    BY DEF IInv, TypeOK, AllOrdered, AllServed
  <2>2. ASSUME "edit_cancel" \notin scene, NEW o \in Orders, ticket[o].status = "CANCELED"
        PROVE  Taken(o) = Nothing
    <3>1. book[o].sold = book[o].back /\ book[o].sold \in Quantities
      BY <2>1, <2>2, BookIs DEF Served, With
    <3> QED BY <3>1, PlusNothing DEF Taken
  <2>3. ASSUME "edit" \notin scene \/ Exact, NEW o \in Orders, ticket[o].status # "CANCELED"
        PROVE  Taken(o) \in {Nothing, Needs(ticket[o].lines)}
    <3>1. Serves(ticket[o], book[o])
      <4>1. CASE Exact
        BY <2>1, <2>3, <4>1 DEF Served
      <4>2. CASE "edit" \notin scene
        <5>1. ticket[o].edits \in Nat /\ ~(ticket[o].edits > 0)
          BY <2>1, <4>2, TicketIs DEF Ordered, With
        <5>2. ticket[o].edits = 0
          BY <5>1
        <5> QED BY <2>1, <2>3, <5>2 DEF Served
      <4> QED BY <2>3, <4>1, <4>2
    <3>2. book[o].sold = Nothing => Taken(o) = Nothing
      BY <3>1, PlusNothing, NothingIsNothing DEF Serves, Taken
    <3> QED BY <3>1, <3>2 DEF Serves, Taken
  <2> QED BY <2>2, <2>3 DEF CanceledGivesBack, Exact
<1> QED BY <1>1, Inductive, PTL

\* The batches of a good that nothing takes past them hold what its level says, at every
\* place: every document that moves the level moves a batch by as much.
THEOREM BatchesFollowLevels == Spec => []BatchesMatchLevels
<1>1. IInv => BatchesMatchLevels
  BY DEF IInv
<1> QED BY <1>1, Inductive, PTL

\* The levels of a good add up to its opening stock and what the documents say of it: no
\* handler moves stock without the row that says so, and none books a row twice.
THEOREM LevelsFollowDocuments == Spec => []LevelsMatchDocuments
<1>1. IInv => LevelsMatchDocuments
  BY DEF IInv
<1> QED BY <1>1, Inductive, PTL

\* The supplier is owed what was received and not paid, no more is received than was
\* ordered, and one with an open order stays active.
THEOREM SupplierIsOwedRightly == Spec => []SupplierIsOwed
<1>1. IInv => SupplierIsOwed
  BY DEF IInv, AllBought, Buying, Owing, Open, SupplierIsOwed, With
<1> QED BY <1>1, Inductive, PTL

\* A count that is applied corrects the levels towards what is there: they claim no more
\* than was lost beyond it, and never less than there is.
THEOREM CountsTellTheTruth == Spec => []CountsFindTheTruth
<1>1. IInv => CountsFindTheTruth
  <2> SUFFICES ASSUME IInv, "moved_while_counted" \notin scene, NEW x \in Goods \X Places
               PROVE  astray[x] \in -lost[x] .. 0
    BY DEF CountsFindTheTruth
  <2>1. astray[x] \in Int /\ lost[x] \in Nat
    BY CountsAre DEF IInv
  <2>2. -lost[x] <= astray[x] /\ astray[x] <= 0
    BY DEF IInv, Truthful, Truth, With
  <2> QED BY <2>1, <2>2
<1> QED BY <1>1, Inductive, PTL
=============================================================================

SPECIFICATION Spec
CONSTANTS
  flour = flour
  dough = dough
  cheese = cheese
  cake = cake
  kitchen = kitchen
  store = store
  pizza = pizza
  bread = bread
  m1 = m1
  m2 = m2
  Goods = {flour, dough, cheese, cake}
  Places = {kitchen, store}
  Tracked = {flour, cake}
  Opening <- Few
  FirstBatches <- FewBatches
  NumBatches = 4
  Orders = {"o1", "o2"}
  Products = {pizza, bread}
  Uses <- Dishes
  Baskets <- SmallBaskets
  Counter = kitchen
  MaxEdits = 2
  MaxSold = 3
  Makes = {m1, m2}
  Ingredients <- Plans
  Output <- Made
  Yields <- Amounts
  Besides <- Extra
  Workshop = kitchen
  Shelf = kitchen
  Moves = {"t1", "t2"}
  MaxAsked = 1
  Bought = flour
  Dock = store
  Deliveries = {"d1", "d2"}
  Lots = {"lot"}
  NoLot = "no_lot"
  MaxOrdered = 2
  MaxPaid = 2
  Counts = {"c1", "c2"}
  Scopes = {{flour, dough}}
  Handled = {dough}
  MaxLost = 1
  Scenes <- EditCancel
INVARIANTS CanceledGivesBack
CHECK_DEADLOCK FALSE

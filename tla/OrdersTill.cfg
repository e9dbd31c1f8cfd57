SPECIFICATION Spec
CONSTANTS
  o1 = o1
  i1 = i1
  i2 = i2
  o2 = o2
  t1 = t1
  Orders = {o1, o2}
  Items = {i1, i2}
  Instant = {i2}
  Price <- WholeSoums
  Cashiers = {"cashier"}
  Waiters = {"waiter"}
  Admins = {}
  SelfService = TRUE
  Tables = {t1}
  TableOf <- FirstAtTable
  Percents = {0, 50}
  Unit = 2
  MaxQuantity = 1
  MaxTotal = 2
  MaxCash = 20
  NoTable = NoTable
  NoStaff = NoStaff
CHECK_DEADLOCK FALSE
INVARIANT ReadyMeansCooked
PROPERTIES CanceledIsTerminal PaidBillFrozen ImplementsDrawer

SPECIFICATION CancelSpec
CONSTANTS
  o1 = o1
  i1 = i1
  i2 = i2
  o2 = o2
  t1 = t1
  Orders = {o1}
  Items = {i1}
  Instant = {}
  Price <- OnePrice
  Cashiers = {"cashier"}
  Waiters = {}
  Admins = {"admin"}
  SelfService = FALSE
  Tables = {}
  TableOf <- NoTables
  Percents = {0}
  Unit = 1
  MaxQuantity = 2
  MaxTotal = 2
  MaxCash = 4
  NoTable = NoTable
  NoStaff = NoStaff
INVARIANT DrawerReconciles
CHECK_DEADLOCK FALSE

SPECIFICATION RaceSpec
CONSTANTS
  o1 = o1
  i1 = i1
  i2 = i2
  Orders = {o1}
  Items = {i1, i2}
  Instant = {}
  Price <- OnePrice
  Cashiers = {"cashier"}
  Waiters = {}
  Admins = {"admin"}
  SelfService = FALSE
  Tables = {}
  TableOf <- NoTables
  Percents = {0}
  Unit = 1
  MaxQuantity = 2
  MaxTotal = 2
  MaxCash = 1
  NoTable = NoTable
  NoStaff = NoStaff
  OfficeWork = {"none", "alone", "edit", "pair", "save"}
  w1 = w1
  w2 = w2
  Crew <- TwoAtWork
  OnSale <- OneForTheOffice
  Workers = {w1, w2}
INVARIANT BillMatchesLines
PROPERTIES PaidOrdersStand
CHECK_DEADLOCK FALSE

SPECIFICATION Spec
CHECK_DEADLOCK FALSE
CONSTANTS
  c1 = c1 c2 = c2 c3 = c3 soup = soup cake = cake ann = ann
  Codes = {c1, c2, c3}
  Kinds = {k1, k2}
  TypesOfDiscount = {"PERCENTAGE", "BUY_X_GET_Y"}
  Bills = {b1, b2}
  Guests = {g1, g2}
  Dishes = {soup, cake}
  Price <- Prices
  Baskets <- SmallBills
  Printed <- AtFirst
  FirstKind = k1
  Offers <- OnOffer
  LastDay = 2
  MaxAsks = 2
  MaxChanges = 1
  Employees = {ann}
  Wage <- Wages
  LastMonth = 2
  Amounts = {1}
  Expenses = {x1, x2}
  Costs = {0, 2}
  Categories = {e1}
  TillAtFirst = 3
  MaxRows = 1
  MaxCashDeeds = 2
  Staff = {ann}
  LeaveTypes = {t1}
  Quotas = {0, 2}
  Carryovers = {1}
  YearOf <- DayYear
  Leaves = {r1, r2}
  MaxTypeEdits = 1
  People = {ann}
  Departments = {d1}
  Contracts = {p1, p2, p3}
  Reviews = {v1}
  Goals = {o1}
  Papers = {f1}
  Texts = {tA, tB}
  Steps = {0, 100}
  Hours = {8, 12, 20, 30, 50}
  Sales = {s1}
  Types = {"SALE", "REFUND"}
  Tickets <- SmallTickets
  Callers = {w1, w2}
  MaxAttempts = 2
  MaxSends = 2
  MaxTaken = 2
  Threads = {h1, h2}
  Expiries = {2}
  Grace = 1
  Ttl = 2
  HostLag = 1
  LastInstant = 4
  MaxCalls = 2
  MaxLicenceDeeds = 1
  Notes = {"n1", "n2"}
  Chats = {"a", "b"}
  BucketOf <- OneBucket
  MaxPending = 1
  Offices = {o1, o2}
  MaxMutes = 1
  MaxRuns = 2
  Goods = {g1, g2}
  GoodPrices = {1, 2}
  MaxUpdates = 4
  Handlers = {h1, h2}
  LineCap = 2
  CartCap = 1
  MaxCarts = 2
  MaxMenus = 1
  Phones = {"p"}
  Meals = {"m1", "m2", "m3"}
  PhoneOf <- WhoseMeal
  NoPhone = "-"
  Stamps = {1, 2}
  Rewards = {1, 2}
  MaxTurns = 5
  StockCategories = {"c1", "c2"}
  StockLocations = {"l1", "l2", "l3"}
  StockUnits = {"u1", "u2"}
  StockItems = {"i1", "i2"}
  Suppliers = {"s1", "s2"}
  Recipes = {"r1"}
  Products = {"p1"}
  Links = {"k1", "k2"}
  UnitTypes = {"t1"}
  RowLists <- AskedLists
  Users = {"u1"}
  Sessions = {"s1", "s2"}
  Requests = {"r1", "r2"}
  Clerks = {"c1"}
  Roles = {"CASHIER", "MANAGER"}
  Managing = {"MANAGER"}
  Panels = {"p1"}
  Tokens = {1}
  MaxLaunches = 2
  MaxClicks = 2
  MenuCategories = {"m1", "m2"}
  MenuProducts = {"p1"}
  MenuPrices = {1, 2}
  Slugs = {1, 2}
  Editors = {"e1", "e2"}
  Viewers = {"v1"}
  MaxMenuEdits = 3
  FloorPlaces = {"hall", "bar"}
  FloorTables = {"t1", "t2"}
  Labels = {"1", "2"}
  Hosts = {"h1", "h2"}
  Sittings = {"o1", "o2"}
  MaxFloorDeeds = 3
INVARIANTS DiscountsAddUp PaidOnce LeaveBooks ReceiptsAreTrue LicenceFollows NoticesArrive
  CartsBecomeOrders StampsAddUp CatalogueStands CopiesAreCurrent ShellHolds HouseStands
PROPERTIES LimitsHold FilesHold

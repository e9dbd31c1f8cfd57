# alpha_pos: a TLA+ model of the till, the stock, the office and replication

alpha_pos is a Django point of sale for restaurants. One installation (a *branch*) runs on a
till PC with SQLite, or on a server with PostgreSQL and several gunicorn workers; branches
replicate with a cloud instance (the *hub*). This directory models the parts where several
actors change the same rows, where money and goods are counted, and where messages are lost:
orders and the cash they bring, the treasury accounts, the idempotency wrapper, cashier shifts,
the synchronisation with the hub, the stock and its documents, and the office around them:
discounts, HR, receipts, the licence, messages, carts, accounts, the menu, the tables, and the
desktop program that runs it all. Paths below are relative to `src/`.

## The system

| Component | State | Operations | Interacts with |
|---|---|---|---|
| Orders: `customers/`, `waiters/`, `admins/services/order_service.py` | Order, OrderItem, OrderPayment, Table rows | create, add / update / remove line, mark lines and orders ready, status, pay (split, discounted), cancel, unpay, delete, restore | register, stock, fiscalization, loyalty, sync hook |
| Cash register: `base/services/inkassa_service.py` | one CashRegister row | `add_to_register` under a row lock | orders, inkassa, HR cash desk |
| Treasury: `base/services/treasury_service.py` | SAFE and BANK accounts, an append-only ledger | deposit, withdraw, transfer, expense, overview | inkassa, shift settlement, suppliers, salaries |
| Inkassa: `admins/services/inkassa_service.py` | Inkassa rows | move register cash to the SAFE | register, treasury, shifts |
| Shifts: `admins/services/shift_service.py`, `cashbox/` | Shift, ShiftPaymentTotal, CashboxExpense | start, end, reconcile, expense | orders (by `paid_at` and cashier), treasury |
| Idempotency: `base/security/idempotency.py` | IdempotencyKey rows | wrap every money endpoint | all of the above |
| Sync, branch side: `base/models.py` (SyncMixin), `base/services/sync/{service,queue,transport,status}.py` | version and stamp of every row, durable queue, cache locks, cursor | save hook, push, sweep, pull | hub |
| Sync, hub side: `base/services/sync/{receiver,views}.py` | the hub's rows | `receive_batch`, `/changes` | branches |
| Stock: `stock/services/` | levels, batches, transactions, production orders, transfers, purchases and deliveries, the supplier ledger, counts | one life cycle per document | orders, by status |
| Stock catalogue: `stock/services/` | categories, locations, units, items, suppliers, recipes, product links | create, update, deactivate | stock |
| Discounts: `discounts/services/` | Discount, types, usages, OrderDiscount | edit, apply, remove | orders |
| HR: `hr/services/` | salaries, expenses, cash transactions, leave, contracts, reviews, attendance | approve, pay, cancel, renew ... | register |
| Fiscalization: `fiscalization/services/` | FiscalReceipt | fiscalize, retry, sweep | orders, the provider |
| Licence: `licensing/` | one License row, two caches | register, heartbeat, offline activation | control center, every request |
| Notices, carts, loyalty: `notifications/services/` | in-memory and cached queues, carts, stamps | send, process; handle an update, check out; accrue, redeem | Telegram, orders |
| Accounts: `base/repositories/session.py`, `admins/services/{auth,user}_service.py` | users, sessions, session cache | log in and out, edit, delete | every request |
| Menu and floor: `admins/services/{product,category,place}_service.py` | categories, products, cached lookups; places, tables | edit, delete, restore; occupy | orders |
| Desktop: `desktop/` | data directory, process, server | install, serve, configure, flush, reset | everything |

What is hard in it:

* **Order of calls.** Three staff surfaces and two self-service ones change one order by
  different rules; seven kinds of documents move the same goods. The drawer and the levels have
  to match whatever order they call in.
* **Interleaving.** Some handlers lock the row they change, others read it without a lock;
  accounts are created on first use, without a unique constraint; `start_shift` checks, then
  inserts; the office's forms save whole rows they read earlier.
* **Time windows.** A shift counts payments by `paid_at`, which on PostgreSQL is taken before
  the commit that makes it visible; caches keep what was read before a change.
* **Retries.** A client resends a request while the first is running, dead, or slow; Telegram
  delivers an update again; a receipt is sent again while its answer is on the way.
* **Delivery.** A push may be applied and its answer lost; hooks, workers and locks fail
  independently; the hub stamps a row before its transaction commits.
* **Half a step.** The desktop program may die between any two writes of its files; a delivery
  fails in its second row.

What has to be true of each component is stated by the properties of the runs below, each with
a comment that names the code it is about.

## Modules

| Module | Models | Extends |
|---|---|---|
| `Drawer` | what the till promises about cash: settle a bill once, void it and return exactly that | |
| `Orders` | every handler of the order services as one action (SQLite: one writer at a time) | |
| `OrderRaces` | the unlocked handlers in steps: read, write the line, save the order (PostgreSQL) | `Orders` |
| `Treasury` | accounts and ledger; a request locks, reads and commits leg by leg | |
| `Idempotency` | the wrapper, one database statement a step | |
| `Shifts` | shifts, payments as money, expenses, inkassa, HR cash desk | |
| `SyncRecords` | rows, versions, `save`, both ingest paths, and the one that `Product` overrides | |
| `SyncPush` | hook, queue, sweep, push with its lock, `receive_batch` | `SyncRecords` |
| `SyncPull` | hub saves and commits, `/changes`, pages, cursor, deferred records | `SyncRecords` |
| `Sync` | push and pull at once; the properties | `SyncPush`, `SyncPull` |
| `StockLevels` | a level is a quantity and what of it is reserved: adjust, reserve, release; batches of tracked goods, consumed first in first out | |
| `StockOrders` | what orders reserve, deduct, return and adjust, by the statuses the settings name | `StockLevels` |
| `StockMakes`, `StockMoves`, `StockCounts` | production; transfers, and purchases with deliveries and supplier debt; counts and hand adjustments | `StockLevels` |
| `Stock` | all documents on the same goods; the properties | the above |
| `StaleReads` | the copy a request of the HR office read before it saves | |
| `Payroll`, `Leave`, `Personnel` | salaries, expenses and the register; leave and its balances; contracts, reviews, goals, papers, attendance | `StaleReads` |
| `Discounts`, `Fiscal`, `Licence`, `Notices`, `Carts` (with loyalty), `StockCatalogue`, `Accounts`, `Menu`, `Floor`, `Shell` | one component of the office each | |
| `Office` | one of those components at work at a time; they share no rows | all of them |
| `MC*` | constants of the checked instances | |
| `Sums` | lemmas about sums over finite sets, for the proofs | |
| `Orders_proof`, `Treasury_proof`, `Shifts_proof`, `Sync_proof`, `Stock_proof`, `Office_proof` | theorems about the component of that name; `Treasury_proof` also those about `Idempotency`, which its endpoints are called through; `Orders_proof` also those about `OrderRaces`, and that `Orders` implements `Drawer` | the component |
| `System_proof` | theorems about the components of `Office` that its `SystemScene` runs: receipts, accounts, licence, desktop program, menu, floor; and about `StockCatalogue` | `Office` |

State follows the database: one function per table from row ids to records named as the
columns are, a status such as `"NEW"`, `"unused"` or `"GONE"` standing for a row not yet or no
longer there. Actions carry the name of the method they stand for, with the surface as a prefix
where two surfaces have the same method (`AdminMarkAsPaid`, `WaiterCancelOrder`), and a noun
where two services have (`CancelMake`, `CancelMove`, `CancelBuy`). What services share is
an operator shared the same way: `StatusSet`, `LineAdded`, `Put`, `Take`. `PROJECT.json` maps
every definition to the lines it stands for. Operators marked `(mutant)` are plausible bugs
kept next to the code they would break; no specification uses them.

A handler is one action where it is one transaction that locks what it changes, or where the
till's SQLite admits one writer (`BEGIN IMMEDIATE`, alpha_pos/settings.py); it is several where
the code reads, then saves, with nothing around both: the unlocked order handlers, the HR forms,
the account editor, the menu and the floor, the desktop program, and whatever calls a provider,
Telegram or the control center in between.

Behaviours that break a property by the code's own doing are not left out of the models. Two
devices say under which of them a property holds. The first is a variable that never changes
(`duty` in OrderRaces, `faults` in Idempotency, `world` in Shifts and Sync, `scene` in Stock),
every value of which the runs explore:

| Selector | Breaks | Because |
|---|---|---|
| `duty = "save"` | PaymentSticks | `update_order` saves a stale object (run RacesSavePaid) |
| `duty = "edit"`, `"pair"` | KeepsTotals in PaidOrdersStand | `update_order_item` and `remove_item_from_order` of the back office take no lock (admins/services/order_service.py:526, :561) |
| `faults` other than `{}` | ActsOnce, OneAnswer | the view and the stored answer are not one transaction; a stale claim is taken over without comparing it |
| `"closing"` | NeverWedged | the statement that would drop the claim keeps failing |
| `"server"` | CollectedIsCounted, ExpectedIsPhysical | a payment stamped inside the shift commits after its totals |
| `"two terminals"` | OneActiveShift, CountedOnce | check, then insert |
| `"shared"` (Shifts) | CollectedIsCounted, ExpectedIsPhysical | an order's cashier is set once, payments are counted by it |
| `"late return"`, `"change"` | ExpectedIsPhysical | the expectation sums what was tendered for orders of its own window |
| `"back office"` | CountedOnce, ExpectedIsPhysical, RegisterReconciles | unpay and cancel go by order total and payment method |
| `"busy"`, `"delayed_hook"`, `"overreach"` | SyncedMeansPushed, Converged | queue entries and stamps are matched by uuid, not version (run SyncEditLost); a hub edit of a branch's row outruns it |
| `"lost_hook"` | SyncedMeansPushed, Converged, EventuallySame, of the rows in `missed` | the sweep passes over queued rows (service.py:433-436), and push stamps the row when the older payload is confirmed |
| `"late_commit"`, `"deferred_lost"` | CursorCovers, Converged | the cursor passes rows that were not visible, or only in memory |
| `"shared"` with `"lost_hook"` or `"cleared"` | Converged | the sweep takes the branch's own rows only (base/services/sync/service.py:432), so its edit of a hub row is never sent |
| `"products"` | the finality of deletion in OnlyForward | `Product.from_sync_dict` looks at no tombstone (base/models.py:725); both sides still come to agree, or the row is one of those Converged leaves out |
| `"edit_cancel"` | CanceledGivesBack | a reversal returns what a reduced line returned before (run StockEditCancel) |
| `"reopen"`, `"repay"` | OrdersTakeWhatTheyNeed | a reversal is once for the life of an order (stock/services/order_service.py:218) |
| `"edit"` | OrdersTakeWhatTheyNeed where stock may not go negative, or `auto_deduct_on_sale` is off | an adjustment that fails is ignored; the adjustment obeys that setting (stock/services/order_service.py:463), the deduction and its reversal do not (:44-76, :557-564) |
| `"odd_cancel"` | HeldIsReserved | cancel releases what PLANNED and IN_PROGRESS production reserved, and not what ON_HOLD, or an allocated DRAFT, did |
| `"two_completes"` | LevelsMatchDocuments | complete reads the status outside its transaction (stock/services/production_service.py:454) |
| `"cancel_in_transit"`, `"relocate"` | BatchesMatchLevels | cancel restores the level and not the batch; an update moves the transfer and keeps a batch of elsewhere |
| `"lot_clash"` | the debt in SupplierIsOwed | a later row's error is returned without a rollback (purchase_service.py:802) |
| `"late_delivery"` | the rest of SupplierIsOwed | two drafts over-receive, and completing one revives a cancelled purchase (:920) |
| `"moved_while_counted"` | CountsFindTheTruth | a count sets the level to what was counted, whatever moved since |

The second is a history variable that marks the rows to which something happened that the code
does not guard against. In the modules of the office: `spoiled` (another request held an
older copy), `outdated` (an edit form wrote over a counter), `mishap` (an answer lost, or two
calls at once), `excused`, `overtaken`, `torn` and `crossed` (the program died between two
files, or two threads were in the middle of the same thing), `disturbed` and `stirred` (two
requests busy with one row), `renamed` (a product whose category got another name since it was
looked up), and `late` in a cached copy (put after it was dropped, or before what dropped it
commits). In OrderRaces: `torn` (orders over which a total was saved that another edit had
overtaken, until their lines are next edited; `late` says whose total that is). In SyncPush:
`missed` (rows whose last save lost its hook while an older payload of them was queued). The
property then is about all the others.

## Runs

All runs finish; deadlock is off because every bounded instance stops when its bounds are spent.

| Run | Instance | Shows |
|---|---|---|
| OrdersTill | 2 orders, one at a table; 2 products, a whole soum and free, one of them instant; 2 units to a soum; discount 0 or 50% | drawer, READY, cancellation, frozen bill, and `Orders` implements `Drawer`, for cashier, waiter and guests together |
| OrdersAdminCancel | 1 order; the till pays, the admin cancels | **violation**: cash of a split payment stays in the drawer |
| Races | 1 order, 2 lines; the kitchen, and the back office editing or saving, against all locked handlers; two overlapping edits against the tills | marks cost the bill nothing, an edit is lost only to one it overlaps with, and until the lines are next edited; the bill is frozen when paid; edits never undo a payment; stale saves never change what was ordered |
| RacesSavePaid | as above, with saves | **violation**: a stale save undoes a payment |
| Treasury | 2 requests, 4 account ids, amount 1, 4 ledger rows | books, conservation, no overdraft, while accounts are created twice; every request ends although lock orders cross |
| IdemRetries | 3 threads, TTL 1 | one effect, one answer, no wedged key |
| Shifts | 2 shifts, 2 cashiers, 2 terminals, one order of 2 | a payment is counted in one shift; the drawer figure; SAFE and register |
| Sync | 5 records, two required foreign keys, 2 pushers, pages of one record | what is stamped is at the hub, the cursor misses nothing, versions and tombstones go forward, both sides come to agree but for what was missed, over eleven sets of complications with one or two saves each |
| SyncEditLost | the same, users saving while a push runs | **violation**: an edit made during a push is neither queued nor unsynced |
| Stock | 4 goods, 2 of them in batches, 2 places, 2 of each document, fifteen scenes | reservations, orders, batches, levels, the supplier's account and counts agree |
| StockEditCancel | an order is reduced, then cancelled | **violation**: more comes back than it took |
| Office | twenty scenes, one component each | fourteen properties, one per component and two action properties |

The scenes of *Office*:

| Scene | What is at work | Property |
|---|---|---|
| discounts | 3 codes, 2 bills, 2 guests, two applications under way | DiscountsAddUp, LimitsHold |
| wages, expenses | one employee, two months; two expenses and the register | PaidOnce |
| leave | two requests over a new year, carry-over | LeaveBooks |
| offices, contracts, reviews | departments and attendance; three contracts; a review, a goal, a paper | FilesHold |
| fiscal | sale and refund, two processes calling the provider | ReceiptsAreTrue |
| licence | two threads calling the control center, two caches | LicenceFollows |
| notices | two notes for two chats, the worker and two manual runs | NoticesArrive |
| carts | four updates, each maybe twice, two threads | CartsBecomeOrders |
| loyalty | three meals, settings that change | StampsAddUp |
| shelves, rooms, trade, dishes | categories with units and items; locations; offers; recipes with links | CatalogueStands |
| accounts | two sessions, two requests, a user editor, pulled users, a cache | CopiesAreCurrent |
| shell | launch, autostart, one panel, deaths, two launches | ShellHolds |
| menu | two editors, a viewer with its cache, the price audit | HouseStands |
| floor | two editors, two sittings, two places with two tables | HouseStands |

The one run stands for the office because its components share nothing but code; `scene` keeps
their state spaces side by side instead of multiplied.

Why the bounds suffice. *Orders*: no handler reads two orders, so the second order is there for
the one thing shared, the register and the table; two lines are what tells "all ready" from "one
ready"; 2 units to a soum is the least that has a fraction, so split parts and rounded discounts
meet. Prices are whole soum, as the menu's are: a bill with a fraction and no discount is
rounded when it is collected (customers/services/order_service.py:858) but not on the order, and
a drawer that pays it back is then off by the rounding. *Treasury*: a transfer has two
accounts, and a creation race needs two ids per kind. *Idempotency*: a request, a retry that
takes over, and one that meets both. *Shifts*: a payment can miss one window and fall into the
next; a count can be short or over (−1, 1). *Sync*: a parent and child on each side, and one
record without ties; `Installed` is ordered so that a page ends between a child and its parent;
two saves are an edit of a row already on its way, or queued. *Stock*: a good that is ordered, made of
another that is bought, and one batch at each place; each document type twice so that one
cancels while the other holds. *Office*: two threads suffice for check-then-act; limits of one,
caps of two and queues of one are reached; two launches of the program are a crash and a
recovery; three contracts are a renewal of a renewal. Some scenes withhold combinations that
would only multiply (`Crowded`, `InTurn` and the operators named `...Apart` in `Office`, and the
scenes' own guards), each explained there.
The `Max...` constants, `LastDay`, `LastInstant`, `Pks` and the like only bound counters, in
guards or where they are declared.

Fairness. *Treasury*: strong fairness of taking a lock and of a refusal, since PostgreSQL
grants row locks in arrival order; weak fairness of the other steps and of breaking a deadlock.
*IdemRetries*: a thread goes on with what it serves, time passes, the client resends. *Sync*:
the worker loops over push and pull, and the cache drops an expired lock. Hooks, failures,
crashes and users are never fair. *Stock* and *Office* state no liveness: nothing there is
promised to happen without somebody asking.

## Findings

* **OrdersAdminCancel** (admins/services/order_service.py:624). The admin cancel gives cash
  back only for `payment_method` CASH or NULL. The cash share of a MIXED order stays counted,
  though waiters/services/order_service.py:496 says every surface reverses identically.
* **RacesSavePaid** (admins/services/order_service.py:458). `update_order` saves all columns of
  an order read without a lock. A payment in between is undone and can be taken again.
* **SyncEditLost** (base/services/sync/service.py:152). A row saved while its older version is
  being sent loses its queue entry and its unsynced mark.
* **StockEditCancel** (stock/services/order_service.py:219). `reverse_deduction` returns every
  SALE_OUT row, also what `adjust_for_item_change` returned before.

What the models show beside, without a run of its own:

* Orders. A save of the back office may re-insert an order deleted meanwhile. A cancelled order
  can be revived by a mark read before (customers/services/order_service.py:716), and two chefs
  who finish at once leave it PREPARING (:266).
* Back office. Two line edits of one order that overlap lose one of them from the bill, which is
  then wrong until the lines are next edited: the total is summed up before the other commits,
  and saved after.
* Sync. An edit whose hook fails while its row is queued already (base/models.py:132-141) is
  passed over by the sweep, and stamped as pushed with the older payload. `_reconcile_unsynced`
  calls itself the backstop of that hook (base/services/sync/service.py:416-420); it is one for
  rows that are not queued.
* Stock. With `auto_deduct_on_sale` off orders are deducted and reversed all the same, and only
  their edits are not followed. The chef's display never triggers a deduction configured at READY. An error in a later
  row of a delivery leaves the earlier ones booked. `receive` of a transfer looks numbers up by
  an integer in a dictionary with string keys (stock/views/transfer_views.py:67), so it always
  books what was shipped. The batch endpoints pass no movement type and fail. A removed recipe
  ingredient is soft-deleted, and production still takes it (production_service.py:320) while a
  sale does not. An unlinked product can never be linked again, though the error says to remove
  the link first. Removing the last line of an order deletes it and keeps its reservation. Sales
  and by-products move levels and no batches, which is why BatchesMatchLevels is about the goods
  neither touches.
* Discounts. `apply_to_order` validates with a subtotal of 0, so a code with a minimum is always
  refused, against its comment that the actual subtotal is validated again.
* HR. `mark_paid` of an expense and `cancel` of a leave request take no lock, while their
  siblings do. A leave request approved with no balance and cancelled after one exists gives
  back days it never took; days carried over may be used twice.
* Fiscalization. Both pay flows fiscalize inside their own transaction
  (admins/services/order_service.py:721), against fiscalization_service.py:26. Edits after a
  receipt are never reported. A discount may be apportioned into a negative last line.
* Licence. A late older ACTIVE answer revives a row that a 401 or 410 suspended meanwhile. The
  state a request meets may be older than the row by the lives of two caches.
* Notices, carts, loyalty. Nothing but a manual request processes what failed to be delivered,
  and what is queued meanwhile is overwritten. A line added to a cart that was just checked out
  is in no order. The till completes and pays orders without giving stamps.
* Accounts. What was read before a session ended may be put into the cache after, and live
  there for SESSION_CACHE_TTL, against base/signals.py:34. A pulled user is saved, and its copies
  dropped, inside a transaction (base/services/sync/service.py:461): a lookup before the commit
  puts the old user back for as long. `update_user` saves the whole row.
* Menu and floor. A name edit may silently undo a price change that was audited. A product that
  went with its category stays in the cached lookups, and so does the name of a category that was
  changed: it is joined to the product there (base/repositories/product.py:51), and
  `update_category` drops the category's keys only (category_service.py:165). Names and numbers are looked up as typed
  and stored without blanks, so `" Hall"` doubles `"Hall"`. A table moved to another place with
  no new number is refused by the database and not by the check. Paying never frees a table;
  calling off any order there does.
* Desktop. The watchdog restarts a stopped server within five seconds, also during flush and
  reset. A reset wipes before it leaves its mark. Two first calls that set Django up may leave
  the process with another key than the file.

## Proofs

Each proof module has an inductive invariant, lemmas for the actions, and a theorem per
property; the temporal steps are PTL over those facts. They hold for every value of the
constants that meets the named `ASSUME` of the component; TLC checks the constants of the runs
against those. The assumptions ask, beside types, that what is summed over (orders, shifts,
tables of records, account ids, goods, places, products, stock documents) is finite.

* **Orders** (`Orders_proof`). `IInv`: the state is well typed, and every order is *good*: only
  existing lines are marked ready, an order that is a row has a line, and a READY order is all
  cooked. The first two are needed because READY is recomputed by comparing counts of lines and
  of marks: without them an empty or ghost line would make the counts agree. Every handler is
  shown to take one order to a good one by a *lawful* change (`Step`), from which
  `TypeCorrect`, `KitchenIsHonest`, `CancellationIsFinal` and `PaidBillIsFrozen` follow, for all
  surfaces including the back office.
* **The till implements Drawer** (`Orders_proof`). `LInv` adds that an unpaid order has no
  payment rows, and that those of a paid one cover no more than its bill; so the cash share that
  cancel computes is the one that payment banked. `TillImplementsDrawer` assumes no back office
  (its cancel breaks it, see Findings) and amounts in whole soum; `TillReconciles` then says
  that the register holds what the orders paid and not cancelled settled in cash, the
  `DrawerReconciles` of the run, by the sum of the orders' shares.
* **The races** (`Orders_proof`). The lemmas about handlers assume no more than types, so they
  hold of a handler that runs among transactions that read earlier. `RInv` adds what such a
  transaction holds (`Fits`), and that the total of an edit that is not `late` is what the lines
  cost with its own change (`Current`). `BillsMatchLines` needs that no discount given with a payment
  survives the undoing of that payment, which with `Admins = {}` or no percentage is so.
  `PaymentsStand` is the action property of the run.
* **Treasury** (`Treasury_proof`). `IInv`: types; a row is held by at most one request, which
  has seen its current balance (*Locks*); ids not in use carry no ledger rows; no overdraft; the
  books reconcile. *Locks* is what makes the read of one step valid in the write of a later one.
  `TypeCorrect`, `BooksAlwaysReconcile`, `NoOverdraft`, for any number of requests and accounts.
  `MoneyIsConserved` adds that the legs a request still has to book come to nothing but what it
  brings from outside (`LegsBalance`), and follows the two sums, over accounts and over the
  ledger, through each step.
* **Idempotency** (`Treasury_proof`). `RetriesInv`: types, and with no faults the wrapper is
  *calm*: at most one thread owns the claim, the view has acted exactly when a claim has passed
  that point, and every answer is the stored one. `RetriesTypeCorrect`, `SentTwiceActsOnce`,
  `RetriesAgree`, for any number of threads.
* **Shifts** (`Shifts_proof`). `IInv` says what a shift row and an order row may hold at which
  status (*Rostered*, *Billed*), that with one terminal each no two open shifts are one user's,
  nor two shifts in the stamp of one payment (*Seats*, *Stamped*), and that what a shift took
  stays paid in it (*TakenStay*): the count at the end reads orders that may have been paid,
  cancelled and paid again since, and only the stamp says in whose shift. `PaymentsCountedOnce`
  follows; `DrawersAreTrue` adds that the tendered cash of a shift still open, less its expenses,
  is what is in its drawer (*Drawers*), `MoneyStaysSettled` the sums of what was confirmed and of
  what the orders are worth. Each under the complications its property names.
* **Sync** (`Sync_proof`). Five layers. `Base`, whatever goes wrong: types; no stamp is ahead of
  the clock; a row is its owner's and comes after its parent; what is queued, sent, waiting or in
  a page is a row that exists and not later than the row it is of; a pull keeps nothing it has
  applied. `Up` (for `SyncedMeansPushed`): of the branch's own rows, the queue and every push
  hold the content of the row, and a stamp means it is at the hub, but for rows that were missed,
  of which it keeps that nothing under way is ahead of the row (`Trails`). `Down` (for `CursorCovers`): a
  row of the hub up to the cursor is at the branch, outrun or deferred, and one between the
  cursor and what the pull has read so far is in the page as it is now; its last conjunct, that
  the parents of a last page are there or in it, is why the deferred records of a complete pull
  can be retried once and forgotten. `Alone`: of rows only the hub writes, every copy at the
  branch is an earlier or equal version, so that versions tell contents apart. `Both`: of rows
  both sides write, a later version at the branch is queued or sent, and where neither is ahead
  something is still due or the contents agree. `SyncTypeCorrect`, `RowsGoForward`,
  `NothingIsEverLost`, `RowsAlwaysAgree`, for any records and parents, workers, page sizes,
  clocks and retries.
* **Stock** (`Stock_proof`). `IInv` says what each document's row may hold at which status
  (*AllOrdered*, *AllServed*, *AllPlanned*, *OnceMade*, *AllItemized*, *AllParked*, *AllBought*,
  *AllCounted*, *Truthful*), beside types and the three sums HeldIsReserved, BatchesMatchLevels
  and LevelsMatchDocuments. A lemma per service (`OrderKeeps`, `MakeKeeps`, `MoveKeeps`,
  `BuyKeeps`, `CountKeeps`) shows that its steps keep the rows of its kind, and move levels,
  reservations and batches by exactly what the changed row says; the sums follow, since the
  other documents stand. HeldIsReserved is not only a result but part of the induction:
  `release_reservation` fails when less is held than is to be released, and production and
  orders share what is held of a good, so that a cancel releases all it reserved follows only
  from nobody else having released it. That a first-in-first-out draw takes from the batches
  what the level gives up goes by prefixes of the queue of batches. Each theorem has the
  excuses of its property and no other: `ReservationsHold` also covers edited lines (an edit
  reserves nothing, and an order deleted with its last line keeps, in the books as in the
  levels, what it reserved).
* **Sums** (`Sums`). `SumFunctionOnSet` is a fold, whose induction the provers cannot take from
  the library. The lemmas get it from the well-foundedness of the finite subsets of a set: a
  formula that fails for some subset fails for a least one.

* **Office** (`Office_proof`, and `System_proof` for receipts, accounts, the licence, the desktop
  program, menu and floor). A step of `Office` is a step of each component, or leaves it
  (`ChatSteps`, `SystemSteps`), so each has an invariant of its own.
  - `LoyaltyInv`: types, and the account of a guest is the sum of its rows.
  - `FiscalInv`: types, receipts that are *Sound*, and lines that add up to the total. A ticket
    of gross 0 must have total 0: otherwise nothing of it can be spread.
  - `CartsInv`: what each handler holds, that a cart once taken stays taken, one active cart of
    a guest, one order of a cart, and that pieces put in are in the cart or in the order.
  - `AccountsInv`: live sessions are of accounts there are, what a request holds was so when it
    looked, and sessions that are being ended, or whose user is being pulled, have no timely copy;
    hence every copy stands.
  - `NoticesInv`: a note waits in one place at a time. In the queue, in the hands of a sender, or
    in a list that a process took, never in two of them unless it is marked as having met one of
    the faults the property names.
  - `LicenceInv`: the answer stands as stored (*AnswerStands*), the time since which it blocks is
    true (*SinceTells*), and a cached verdict is younger than `Ttl`, or than `2 Ttl - 1` where one
    cache was filled from the other.
  - `PayrollInv`: what a handler has read is of a row there is (*ReadsRow*), a row paid has its
    one transaction (*AllBooked*), and the register is what its transactions moved (*TillTells*).
  - `LeaveInv`: a copy fits its request (*CopyFits*), and each balance is charged with the days
    approved against it (*Charged*), less those approved before there was a balance.
  - `StaffInv`: what a handler has read is a file there is (*FileCopyFits*), nobody came in, or was
    counted, later than it is (*AllInTime*, so that booked hours only grow), events and heirs
    follow contracts on file (*EventsTell*, *HeirsTell*), and *ContractsChain* itself. From it the
    action property `FilesHold` follows.
  - `DiscountsInv`: types; a code on a bill is one there is, and exactly one guest has used it
    there (*UsedOnce*); what is counted of a code is the bills it is on (*Counting*); and a bill
    asks for what its lines are worth less what is on it. That an offer takes off no more than
    the bill and nothing negative follows from the clamps of `calculate_discount`, for all the
    percentages, sums and numbers of free pieces that `TermRow` allows.
  - `ShellInv`: at most one thread is in the middle of what was not crossed (*AllSole*); what a
    thread that boots, installs or saves holds in its hands fits the files as they are
    (*ThreadsRight*); a process that is gone runs no thread; and the key that the program knows is
    that of its file, unless two boots crossed or the file is about to go (*KnowsKey*).
  - `FloorInv`: what two requests are busy with at once is stirred (*HostsApart*), what a request
    checked before it saves still holds or was stirred (*DeedFits*), numbers of one place differ,
    as the database's constraint has it, and who said a table's status said it (*SaidTells*).
  - `MenuInv`: what two requests touch is disturbed (*DesksApart*), what a request checked before
    it saves still holds or was disturbed (*DeskFits*), no product stands in a category that is
    gone (*Housed*), products gone with their category say so (*Swept*), and a price the log does
    not end with is about to be noted (*AuditTells*). `HouseStands` follows from the two.
  - `CatalogueInv`: types, parents are rows, and the three parts of `CatalogueStands` themselves,
    with one link row per product where the property asks for one live. That a row hung elsewhere
    closes no circle needs that what `Above` climbs to is closed: the recursive function is shown
    to exist (the least closed set would be one), and of the sets for which it fell short a greatest
    would climb to a greater. That is where the rows have to be finitely many.

  Payroll, leave and files share the copy that a handler of HR has read; the scene says whose it
  is, and each invariant is assumed in its scenes only: in the others nothing was paid, asked for
  or filed. The
  assumptions say that ids of the parts that share a variable differ (an expense is not the id of
  a salary, a request for leave is not that of a balance, a contract not that of a review, a
  table not that of a place, a product not that of a category) and that codes, bills, dishes, the threads of the panel, and the
  requests on the floor and on the menu are finitely many, as the rows of the trees are.

Only model-checked: liveness (`NeverWedged`, `RequestsEnd`, `EventuallySame`), which the prover
does not do, and what recursive definitions compute beyond what an invariant needs of them (the
categories a cascade reaches, `Below`, of which the proof uses only that some go).

## What is not modelled

* Orders: product availability, and who is logged in beyond the surface. Discount codes, stock,
  receipts and stamps are in modules of their own that see of an order what they depend on.
* Treasury: the sums' decimal places, and reports.
* Shifts: templates, shift listings, the period columns of an inkassa row, expense categories.
* Sync: one branch; a batch is all the queued rows of a model (the limit is 500); the pull lock;
  receiving a batch is atomic; releasing a lock is one step; natural keys, hard-delete
  tombstones, `SYNC_WRITE_DENYLIST`, and the overrides of `Order`, `OrderItem`, `Inkassa` and
  `AuditLog`. The branch's edit of a hub row whose hook failed, or whose queue was cleared, is
  never sent, since the sweep takes the branch's own rows (base/services/sync/service.py:432);
  `Converged` excludes such edits (`Forgets`). That a missed row is whole again after a full push
  is not used: `missed` forgets it at its next save only. A row that both sides wrote and one of them deleted
  may stay different, which it allows.
* Stock: `stock_enabled` is assumed on, and `auto_deduct_on_sale` off is explored where
  `adjust_for_item_change` looks at it, with orders that are edited; unlocked handlers overlap on PostgreSQL and do not here,
  but for `complete` of a production order. Operations that no view calls are left out
  (`record_payment`, `add_all_pending`, `create_from_low_stock`, production steps, quarantine and
  release of batches, edits of a transfer's items, moving and reordering in the catalogue), and
  the endpoints that deduct, reserve, set a batch or update a purchase by hand.
* Office: statistics and listings, wording and templates, bank details, signatures and
  fingerprints, rate limits, PINs, the updater and the windows of the desktop program, and an error
  while its server closes, which `stop` swallows (desktop/server_manager.py).
* The components marked `not_modelled` in `PROJECT.json`, each with its reason: read-only
  queries, text generation, scripts, and counters that are one locked read and write.

## Plan

1. Abstract specifications of the stock (a ledger of movements that the levels implement) and of
   a receipt (reported at most once).
2. Sync: the overrides of `Order` and `Inkassa`, and two branches.

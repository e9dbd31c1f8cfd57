-------------------------------- MODULE Payroll --------------------------------
(***************************************************************************)
(* Payroll: SalaryService, SalaryItemService, ExpenseService,               *)
(* ExpenseCategoryService and the cash transactions that pay them out of    *)
(* the cash register.                                                       *)
(***************************************************************************)
EXTENDS StaleReads, Sequences, FiniteSetsExt

CONSTANTS
  Employees, Wage,   \* base_salary of each
  LastMonth,         \* bound: months 1 .. LastMonth
  Amounts,              \* amounts a form may carry: bonuses, deductions, bases
  Expenses, Costs,   \* expenses and their amounts
  Categories,        \* expense categories
  TillAtFirst,       \* the register's opening balance
  MaxRows,           \* bound: bonus and deduction rows
  MaxCashDeeds       \* bound: edits, deposits and withdrawals

ASSUME PayrollAssumption ==
  /\ Wage \in [Employees -> Nat] /\ Amounts \subseteq Nat /\ Costs \subseteq Int
  /\ LastMonth \in Nat /\ TillAtFirst \in Nat /\ MaxRows \in Nat /\ MaxCashDeeds \in Nat
  \* A row of the ledger is of a salary, an expense or, <<>>, neither.
  /\ Expenses \cap (Employees \X Nat) = {} /\ <<>> \notin Expenses

VARIABLES
  salary,    \* SalaryPayment of an employee and a month
  item,      \* SalaryBonus and SalaryDeduction rows
  expense, expenseCategory,
  till,      \* current_balance of the cash register
  ledger,    \* CashTransaction rows, as they were written
  cashDeeds  \* how many edits, deposits and withdrawals there were

payrollVars == <<salary, item, expense, expenseCategory, till, ledger, cashDeeds, copy, spoiled>>

Months == 1 .. LastMonth
Salaries == Employees \X Months
PayMethods == {"CASH", "CARD"}
NoCategory == "no_category"
Absent == [is |-> "none"]

PayrollInit ==
  /\ salary = [s \in Salaries |-> Absent] /\ item = {}
  /\ expense = [x \in Expenses |-> Absent]
  /\ expenseCategory = [c \in Categories |-> "none"]
  /\ till = TillAtFirst /\ ledger = <<>> /\ cashDeeds = 0
  /\ StaleInit

Deed == cashDeeds < MaxCashDeeds /\ cashDeeds' = cashDeeds + 1
Is(row, statuses) == row.is = "live" /\ row.status \in statuses
Salary(b, up, down) ==
  [is |-> "live", status |-> "PENDING", base |-> b, bonus |-> up, deduction |-> down,
   net |-> b + up - down]

Expense(amount, c) == [is |-> "live", status |-> "PENDING", amount |-> amount, category |-> c]

-----------------------------------------------------------------------------
(* Cash transactions                                                       *)

Row(type, doc, amount, method, after) ==
  [type |-> type, doc |-> doc, amount |-> amount, method |-> method, before |-> till, after |-> after]

\* create_for_reference: only cash leaves the register, and no more than is in it.
PayOut(type, doc, amount, method) ==
  /\ amount > 0
  /\ method = "CASH" => till >= amount
  /\ till' = IF method = "CASH" THEN till - amount ELSE till
  /\ ledger' = Append(ledger, Row(type, doc, amount, method, till'))

DepositCash(amount, method) ==
  /\ Deed
  /\ till' = till + amount
  /\ ledger' = Append(ledger, Row("DEPOSIT", <<>>, amount, method, till'))
  /\ UNCHANGED <<salary, item, expense, expenseCategory, copy, spoiled>>
\* Only a withdrawal in cash is held against the balance; every withdrawal lowers it.
WithdrawCash(amount, method) ==
  /\ method = "CASH" => till >= amount
  /\ Deed
  /\ till' = till - amount
  /\ ledger' = Append(ledger, Row("WITHDRAWAL", <<>>, amount, method, till'))
  /\ UNCHANGED <<salary, item, expense, expenseCategory, copy, spoiled>>

-----------------------------------------------------------------------------
(* Salaries                                                                *)

CreateSalary(s, base, bonus, deduction) ==
  /\ salary[s].is = "none"     \* one that was deleted keeps its period taken
  /\ Deed
  /\ salary' = [salary EXCEPT ![s] = Salary(base, bonus, deduction)]
  /\ UNCHANGED <<item, expense, expenseCategory, till, ledger, copy, spoiled>>

\* The base of the month before, as edited then, or what the employee earns.
Base(s) ==
  IF s[2] > 1 /\ salary[<<s[1], s[2] - 1>>].is = "live"
    THEN salary[<<s[1], s[2] - 1>>].base ELSE Wage[s[1]]
GeneratePayroll(month) ==
  /\ \E e \in Employees : salary[<<e, month>>].is = "none"
  /\ salary' = [s \in Salaries |-> IF s[2] = month /\ salary[s].is = "none"
                                   THEN Salary(Base(s), 0, 0) ELSE salary[s]]
  /\ UNCHANGED <<item, expense, expenseCategory, till, ledger, cashDeeds, copy, spoiled>>

\* The net amount is worked out of the row that was read, with the field that was sent.
UpdateSalary(s, seen, field, amount) ==
  /\ Is(seen, {"PENDING"})
  /\ Deed
  /\ LET read == [seen EXCEPT ![field] = amount]
     IN salary' = [salary EXCEPT ![s] = [@ EXCEPT ![field] = amount,
                                         !.net = read.base + read.bonus - read.deduction]]
  /\ Worked(s, salary[s], seen)
  /\ UNCHANGED <<item, expense, expenseCategory, till, ledger>>

DeleteSalary(s, seen) ==
  /\ Is(seen, {"PENDING"})
  /\ Deed
  /\ salary' = [salary EXCEPT ![s].is = "deleted"]
  /\ Worked(s, salary[s], seen)
  /\ UNCHANGED <<item, expense, expenseCategory, till, ledger>>

ApproveSalary(s) ==
  /\ Is(salary[s], {"PENDING"})
  /\ salary' = [salary EXCEPT ![s].status = "APPROVED"]
  /\ UNCHANGED <<item, expense, expenseCategory, till, ledger, cashDeeds, copy, spoiled>>

\* approve_all: the pending rows are read without a lock and saved one by one.
ApproveAll(month, first) ==
  LET Read(s) == IF first /\ copy # NoCopy /\ copy[1] = s THEN copy[2] ELSE salary[s]
      pending == {s \in Salaries : s[2] = month /\ Is(Read(s), {"PENDING"})}
      stale == {s \in pending : Read(s) # salary[s]}
  IN /\ pending # {}
     /\ salary' = [s \in Salaries |-> IF s \in pending THEN [salary[s] EXCEPT !.status = "APPROVED"]
                                      ELSE salary[s]]
     /\ IF stale = {} THEN UNCHANGED <<copy, spoiled>>
        ELSE copy' = NoCopy /\ spoiled' = spoiled \cup stale
     /\ UNCHANGED <<item, expense, expenseCategory, till, ledger, cashDeeds>>

\* (mutant) pay reads the salary without a lock
PaySalaryUnlocked(s, method) ==
  \E seen \in Seen(s, salary[s]) :
    /\ Is(seen, {"APPROVED"})
    /\ PayOut("SALARY_PAYMENT", s, seen.net, method)
    /\ salary' = [salary EXCEPT ![s].status = "PAID"]
    /\ UNCHANGED <<item, expense, expenseCategory, cashDeeds, copy, spoiled>>
PaySalary(s, method) ==
  /\ Is(salary[s], {"APPROVED"})
  /\ PayOut("SALARY_PAYMENT", s, salary[s].net, method)
  /\ salary' = [salary EXCEPT ![s].status = "PAID"]
  /\ UNCHANGED <<item, expense, expenseCategory, cashDeeds, copy, spoiled>>

\* _recompute: bonus and deduction become what their rows sum to.
RowsOf(rows, s, kind) == {r \in rows : r.of = s /\ r.kind = kind /\ r.is = "live"}
Recomputed(row, s, rows) ==
  LET Summed(kind) == SumFunction([r \in RowsOf(rows, s, kind) |-> r.amount])
  IN [row EXCEPT !.bonus = Summed("bonus"), !.deduction = Summed("deduction"),
                 !.net = row.base + Summed("bonus") - Summed("deduction")]

AddToSalary(s, kind, amount) ==
  /\ Is(salary[s], {"PENDING", "APPROVED"})
  /\ Cardinality(item) < MaxRows
  /\ item' = item \cup {[id |-> Cardinality(item) + 1, of |-> s, kind |-> kind,
                         amount |-> amount, is |-> "live"]}
  /\ salary' = [salary EXCEPT ![s] = Recomputed(@, s, item')]
  /\ UNCHANGED <<expense, expenseCategory, till, ledger, cashDeeds, copy, spoiled>>
RemoveItem(r) ==
  /\ r.is = "live" /\ Is(salary[r.of], {"PENDING", "APPROVED"})
  /\ item' = (item \ {r}) \cup {[r EXCEPT !.is = "deleted"]}
  /\ salary' = [salary EXCEPT ![r.of] = Recomputed(@, r.of, item')]
  /\ UNCHANGED <<expense, expenseCategory, till, ledger, cashDeeds, copy, spoiled>>
SetBase(s, amount) ==
  /\ Is(salary[s], {"PENDING", "APPROVED"})
  /\ Deed
  /\ salary' = [salary EXCEPT ![s] = Recomputed([@ EXCEPT !.base = amount], s, item)]
  /\ UNCHANGED <<item, expense, expenseCategory, till, ledger, copy, spoiled>>

-----------------------------------------------------------------------------
(* Expenses                                                                *)

SetCategory(c, status) ==
  /\ expenseCategory[c] # status
  /\ IF expenseCategory[c] = "none" THEN UNCHANGED cashDeeds ELSE Deed
  /\ expenseCategory' = [expenseCategory EXCEPT ![c] = status]
  /\ UNCHANGED <<salary, item, expense, till, ledger, copy, spoiled>>
\* delete deactivates a category, unless expenses of it are pending.
DeleteCategory(c) ==
  /\ expenseCategory[c] = "active"
  /\ \A x \in Expenses : ~(Is(expense[x], {"PENDING"}) /\ expense[x].category = c)
  /\ expenseCategory' = [expenseCategory EXCEPT ![c] = "inactive"]
  /\ UNCHANGED <<salary, item, expense, till, ledger, cashDeeds, copy, spoiled>>

CreateExpense(x, amount, c) ==
  /\ expense[x].is = "none" /\ amount > 0
  /\ c \in {NoCategory} \cup {k \in Categories : expenseCategory[k] = "active"}
  /\ expense' = [expense EXCEPT ![x] = Expense(amount, c)]
  /\ UNCHANGED <<salary, item, expenseCategory, till, ledger, cashDeeds, copy, spoiled>>

\* Anything but a paid expense may be changed, to any amount and any category there is.
UpdateExpense(x, seen, amount, c) ==
  /\ Is(seen, {"PENDING", "APPROVED", "REJECTED"})
  /\ c \in {NoCategory} \cup {k \in Categories : expenseCategory[k] # "none"}
  /\ Deed
  /\ expense' = [expense EXCEPT ![x] = [@ EXCEPT !.amount = amount, !.category = c]]
  /\ Worked(x, expense[x], seen)
  /\ UNCHANGED <<salary, item, expenseCategory, till, ledger>>

SetExpense(x, seen, changed) ==
  /\ expense' = [expense EXCEPT ![x] = changed]
  /\ Worked(x, expense[x], seen)
  /\ UNCHANGED <<salary, item, expenseCategory, cashDeeds>>
DeleteExpense(x, seen) ==
  /\ Is(seen, {"PENDING", "APPROVED", "REJECTED"})
  /\ SetExpense(x, seen, [expense[x] EXCEPT !.is = "deleted"])
  /\ UNCHANGED <<till, ledger>>
ApproveExpense(x, seen, approved) ==
  /\ Is(seen, {"PENDING"})
  /\ SetExpense(x, seen, [expense[x] EXCEPT !.status = IF approved THEN "APPROVED" ELSE "REJECTED"])
  /\ UNCHANGED <<till, ledger>>
\* mark_paid does not lock the expense it read.
MarkPaid(x, seen, method) ==
  /\ Is(seen, {"APPROVED"})
  /\ PayOut("EXPENSE_PAYMENT", x, seen.amount, method)
  /\ SetExpense(x, seen, [expense[x] EXCEPT !.status = "PAID"])

-----------------------------------------------------------------------------
Docs == Salaries \cup Expenses
DocRow(d) == IF d \in Salaries THEN salary[d] ELSE expense[d]
ReadDoc(d) ==
  /\ DocRow(d).is = "live" /\ Fetch(d, DocRow(d))
  /\ UNCHANGED <<salary, item, expense, expenseCategory, till, ledger, cashDeeds>>

WagesNext ==
  \/ \E s \in Salaries, b \in Amounts, up, down \in Amounts \cup {0} : CreateSalary(s, b, up, down)
  \/ \E month \in Months : GeneratePayroll(month)
  \/ \E month \in Months, first \in BOOLEAN : ApproveAll(month, first)
  \/ \E s \in Salaries : \E seen \in Seen(s, salary[s]) :
       \/ \E field \in {"base", "bonus", "deduction"}, n \in Amounts : UpdateSalary(s, seen, field, n)
       \/ DeleteSalary(s, seen)
  \/ \E s \in Salaries :
       \/ ReadDoc(s)
       \/ ApproveSalary(s)
       \/ \E method \in PayMethods : PaySalary(s, method)
       \/ \E kind \in {"bonus", "deduction"}, n \in Amounts : AddToSalary(s, kind, n)
       \/ \E n \in Amounts : SetBase(s, n)
  \/ \E r \in item : RemoveItem(r)

ExpensesNext ==
  \/ \E c \in Categories : DeleteCategory(c)
  \/ \E c \in Categories, status \in {"active", "inactive"} : SetCategory(c, status)
  \/ \E x \in Expenses, c \in Categories \cup {NoCategory}, n \in Costs : CreateExpense(x, n, c)
  \/ \E x \in Expenses : \E seen \in Seen(x, expense[x]) :
       \/ \E c \in Categories \cup {NoCategory}, n \in Costs : UpdateExpense(x, seen, n, c)
       \/ DeleteExpense(x, seen)
       \/ \E approved \in BOOLEAN : ApproveExpense(x, seen, approved)
       \/ \E method \in PayMethods : MarkPaid(x, seen, method)
  \/ \E x \in Expenses : ReadDoc(x)

CashNext == \E n \in Amounts, method \in PayMethods : DepositCash(n, method) \/ WithdrawCash(n, method)

-----------------------------------------------------------------------------
(* Properties                                                              *)

RowsFor(d) == {i \in DOMAIN ledger : ledger[i].doc = d}
Owed(d) == IF d \in Salaries THEN salary[d].net ELSE expense[d].amount

\* A salary or an expense is paid once, when it says so, and in the amount it still says; one
\* that is not paid took nothing (salary.py:21-22, "cannot double-debit the cash register"). The
\* register is its opening balance and what the transactions moved in cash since, and only a
\* withdrawal that is not cash takes it below zero.
PaidOnce ==
  /\ \A d \in Docs \ spoiled : DocRow(d).is # "none" =>
       IF DocRow(d).status = "PAID"
         THEN \E i \in RowsFor(d) : RowsFor(d) = {i} /\ ledger[i].amount = Owed(d)
         ELSE RowsFor(d) = {}
  /\ till = TillAtFirst + SumFunction([i \in DOMAIN ledger |->
       CASE ledger[i].type = "DEPOSIT" -> ledger[i].amount
         [] ledger[i].type = "WITHDRAWAL" -> -ledger[i].amount
         [] OTHER -> IF ledger[i].method = "CASH" THEN -ledger[i].amount ELSE 0])
  /\ till < 0 => \E i \in DOMAIN ledger : ledger[i].type = "WITHDRAWAL" /\ ledger[i].method # "CASH"
=============================================================================

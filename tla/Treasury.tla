------------------------------- MODULE Treasury -------------------------------
(***************************************************************************)
(* The SAFE and BANK accounts above the till and their ledger              *)
(* (base/services/treasury_service.py), used by inkassa, shift settlement, *)
(* transfers, expenses, supplier payments and salaries.                    *)
(*                                                                         *)
(* A request is the list of its legs, one per account it moves money on.   *)
(* Its transaction locks the account of each leg in turn (or creates a     *)
(* missing one), reads the balance under the lock, and writes balances and *)
(* ledger rows when it commits.  Requests run concurrently; the treasury   *)
(* screen looks accounts up with get_or_create, outside any lock.          *)
(***************************************************************************)
EXTENDS Integers, Sequences, FiniteSets, FiniteSetsExt, Functions

CONSTANTS
  Workers,     \* request threads
  Rows,        \* primary keys of TreasuryAccount
  MaxAmount,   \* bound: amount of one leg
  MaxBalance,  \* bound: width of TreasuryAccount.balance
  MaxLedger    \* bound: number of ledger rows

ASSUME TreasuryAssumption ==
  IsFiniteSet(Rows) /\ Rows \subseteq Nat /\ {MaxAmount, MaxBalance, MaxLedger} \subseteq Nat

VARIABLES
  account,  \* TreasuryAccount rows; kind "none" is no row
  ledger,   \* TreasuryTransaction rows, in the order they were written
  task,     \* each worker's transaction: its legs, and the rows it locked or inserted
  screen    \* the treasury screen: what it last showed, or the kind it misses

vars == <<account, ledger, task, screen>>

Kind == {"SAFE", "BANK"}
Type == {"INKASSA", "SHIFT_DEPOSIT", "TRANSFER_OUT", "TRANSFER_IN", "EXPENSE", "FEE"}
Amount == -MaxAmount..MaxAmount
Leg == [kind : Kind, delta : Amount, type : Type, fee : 0..MaxAmount]
Account == [kind : Kind \cup {"none"}, balance : Int]
LedgerRow == [account : Rows, type : Type, delta : Amount, fee : 0..MaxAmount,
              before : Int, after : Int]
Hold == [row : Rows, seen : Int]
Task == [legs : Seq(Leg), held : Seq(Hold)]

NoAccount == [kind |-> "none", balance |-> 0]
Idle == [legs |-> <<>>, held |-> <<>>]

Init ==
  /\ account = [r \in Rows |-> NoAccount]
  /\ ledger = <<>>
  /\ task = [w \in Workers |-> Idle]
  /\ screen = "ok"

TypeOK ==
  /\ account \in [Rows -> Account]
  /\ ledger \in Seq(LedgerRow)
  /\ task \in [Workers -> Task]
  /\ screen \in {"ok", "error"} \cup Kind

-----------------------------------------------------------------------------
(* Requests.                                                               *)

LegOf(kind, delta, type, fee) == [kind |-> kind, delta |-> delta, type |-> type, fee |-> fee]

InFlight == MapThenSumSet(LAMBDA w : Len(task[w].legs), Workers)
Begin(w, legs) ==
  /\ task[w].legs = <<>>
  /\ Len(ledger) + InFlight + Len(legs) <= MaxLedger
  /\ task' = [task EXCEPT ![w].legs = legs]
  /\ UNCHANGED <<account, ledger, screen>>

\* Cash goes to SAFE, cards go to BANK.
Deposit(w, type, cash, card) ==
  LET safe == IF cash > 0 THEN <<LegOf("SAFE", cash, type, 0)>> ELSE <<>>
      bank == IF card > 0 THEN <<LegOf("BANK", card, type, 0)>> ELSE <<>>
  IN cash + card > 0 /\ Begin(w, safe \o bank)
DepositInkassa(w, cash, card) == Deposit(w, "INKASSA", cash, card)
DepositShift(w, cash, card) == Deposit(w, "SHIFT_DEPOSIT", cash, card)

\* (mutant) the fee is charged but the destination gets the whole amount
TransferInFull(w, from, to, amt, fee) ==
  /\ from # to /\ amt > 0 /\ fee <= amt
  /\ Begin(w, <<LegOf(from, -amt, "TRANSFER_OUT", fee), LegOf(to, amt, "TRANSFER_IN", fee)>>)
\* The destination gets the amount less the fee.
Transfer(w, from, to, amt, fee) ==
  /\ from # to /\ amt > 0 /\ fee <= amt
  /\ Begin(w, <<LegOf(from, -amt, "TRANSFER_OUT", fee), LegOf(to, amt - fee, "TRANSFER_IN", fee)>>)

\* The commission is paid on top of the amount.
RecordExpense(w, kind, amt, fee) ==
  /\ amt > 0 /\ amt + fee <= MaxAmount
  /\ Begin(w, <<LegOf(kind, -(amt + fee), "EXPENSE", fee)>>)

-----------------------------------------------------------------------------
(* _get_account_locked and _apply.                                         *)

Of(kind) == {r \in Rows : account[r].kind = kind}
Oldest(kind) == {r \in Of(kind) : \A s \in Of(kind) : r <= s}   \* filter(kind).first()
Locked(r) == \E w \in Workers : \E j \in DOMAIN task[w].held : task[w].held[j].row = r
Unused == {r \in Rows : account[r].kind = "none" /\ ~Locked(r)}
Fresh == {r \in Unused : \A s \in Unused : r <= s}                \* the next primary key

Pending(w) == Len(task[w].held) < Len(task[w].legs)
NextLeg(w) == task[w].legs[Len(task[w].held) + 1]
\* (mutant) the funds check leaves the fee out
AffordableBeforeFee(leg, balance) == leg.delta < 0 => balance + leg.delta + leg.fee >= 0
Affordable(leg, balance) == leg.delta < 0 => balance + leg.delta >= 0

\* (mutant) the balance is read without select_for_update
LockNothing(w) ==
  /\ Pending(w)
  /\ \E r \in Oldest(NextLeg(w).kind) :
       /\ Affordable(NextLeg(w), account[r].balance)
       /\ task' = [task EXCEPT ![w].held = Append(@, [row |-> r, seen |-> account[r].balance])]
  /\ UNCHANGED <<account, ledger, screen>>
Lock(w) ==
  /\ Pending(w)
  /\ \E r \in Oldest(NextLeg(w).kind) :
       /\ ~Locked(r)
       /\ Affordable(NextLeg(w), account[r].balance)
       /\ task' = [task EXCEPT ![w].held = Append(@, [row |-> r, seen |-> account[r].balance])]
  /\ UNCHANGED <<account, ledger, screen>>

\* The account is missing: insert it at zero, unseen by others until the commit.
Create(w) ==
  /\ Pending(w) /\ Of(NextLeg(w).kind) = {} /\ Affordable(NextLeg(w), 0)
  /\ \E r \in Fresh :
       task' = [task EXCEPT ![w].held = Append(@, [row |-> r, seen |-> 0])]
  /\ UNCHANGED <<account, ledger, screen>>

\* (mutant) where the account exists, a request waits for funds to come in
RefuseMissing(w) ==
  /\ Pending(w) /\ Of(NextLeg(w).kind) = {} /\ ~Affordable(NextLeg(w), 0)
  /\ \E r \in Fresh :
       account' = [account EXCEPT ![r] = [kind |-> NextLeg(w).kind, balance |-> 0]]
  /\ task' = [task EXCEPT ![w] = Idle]
  /\ UNCHANGED <<ledger, screen>>
\* Insufficient funds is a normal return: the transaction commits, and with it
\* an account it had to create.
Refuse(w) ==
  /\ Pending(w) /\ task[w].held = <<>>
  /\ \/ /\ \E r \in Oldest(NextLeg(w).kind) :
             ~Locked(r) /\ ~Affordable(NextLeg(w), account[r].balance)
        /\ UNCHANGED account
     \/ /\ Of(NextLeg(w).kind) = {} /\ ~Affordable(NextLeg(w), 0)
        /\ \E r \in Fresh :
             account' = [account EXCEPT ![r] = [kind |-> NextLeg(w).kind, balance |-> 0]]
  /\ task' = [task EXCEPT ![w] = Idle]
  /\ UNCHANGED <<ledger, screen>>

Applied(k, j) ==
  [account |-> k.held[j].row, type |-> k.legs[j].type, delta |-> k.legs[j].delta,
   fee |-> k.legs[j].fee, before |-> k.held[j].seen,
   after |-> k.held[j].seen + k.legs[j].delta]

Commit(w) ==
  LET k == task[w]
      mine(r) == {j \in DOMAIN k.held : k.held[j].row = r}
  IN /\ k.legs # <<>> /\ ~Pending(w)
     /\ \A j \in DOMAIN k.legs : Applied(k, j).after <= MaxBalance
     /\ account' = [r \in Rows |->
                      IF mine(r) = {} THEN account[r]
                      ELSE LET j == CHOOSE j \in mine(r) : TRUE
                           IN [kind |-> k.legs[j].kind, balance |-> Applied(k, j).after]]
     /\ ledger' = ledger \o [j \in DOMAIN k.legs |-> Applied(k, j)]
     /\ task' = [task EXCEPT ![w] = Idle]
     /\ UNCHANGED screen

\* The database rolls the transaction back: an error, or a deadlock victim.
Abort(w) ==
  /\ task[w].legs # <<>>
  /\ task' = [task EXCEPT ![w] = Idle]
  /\ UNCHANGED <<account, ledger, screen>>

WaitsFor(w, v) ==
  /\ Pending(w)
  /\ \E r \in Oldest(NextLeg(w).kind) : \E j \in DOMAIN task[v].held : task[v].held[j].row = r
Deadlocked(w) == \E v \in Workers : WaitsFor(w, v) /\ WaitsFor(v, w)
Overflows(w) == \E j \in DOMAIN task[w].held : Applied(task[w], j).after > MaxBalance
Break(w) == (Deadlocked(w) \/ Overflows(w)) /\ Abort(w)

\* get_accounts: get_or_create per kind.  get() raises when there are two.
Look(kind) ==
  /\ screen \in {"ok", "error"}
  /\ screen' = CASE Of(kind) = {} -> kind
                 [] Cardinality(Of(kind)) = 1 -> "ok"
                 [] OTHER -> "error"
  /\ UNCHANGED <<account, ledger, task>>
CreateSeen(kind) ==
  /\ screen = kind
  /\ \E r \in Fresh : account' = [account EXCEPT ![r] = [kind |-> kind, balance |-> 0]]
  /\ screen' = "ok"
  /\ UNCHANGED <<ledger, task>>

Work(w) == Lock(w) \/ Create(w) \/ Refuse(w) \/ Commit(w)
Request(w) ==
  \/ \E cash, card \in 0..MaxAmount : DepositInkassa(w, cash, card) \/ DepositShift(w, cash, card)
  \/ \E from, to \in Kind, amt, fee \in 0..MaxAmount : Transfer(w, from, to, amt, fee)
  \/ \E kind \in Kind, amt, fee \in 0..MaxAmount : RecordExpense(w, kind, amt, fee)
Screen == \E kind \in Kind : Look(kind) \/ CreateSeen(kind)

Next == Screen \/ \E w \in Workers : Request(w) \/ Work(w) \/ Abort(w)

Spec == Init /\ [][Next]_vars

\* A thread goes on with its transaction, a row lock is granted in arrival order
\* and the database breaks deadlocks and rejects what does not fit.
Fairness ==
  \A w \in Workers : /\ SF_vars(Lock(w)) /\ SF_vars(Refuse(w))
                     /\ WF_vars(Create(w)) /\ WF_vars(Commit(w)) /\ WF_vars(Break(w))
FairSpec == Spec /\ Fairness

-----------------------------------------------------------------------------
(* Properties.                                                             *)

RowsOf(r) == {j \in DOMAIN ledger : ledger[j].account = r}

\* The books reconcile: every row continues where the previous row of its account
\* ended, the first one from zero, and the balance is where the last one ended,
\* although every balance is read in one step and written in a later one.
BooksReconcile ==
  /\ \A j \in DOMAIN ledger : ledger[j].after = ledger[j].before + ledger[j].delta
  /\ \A r \in Rows : \A j \in RowsOf(r) :
       /\ (\A i \in RowsOf(r) : i >= j) => ledger[j].before = 0
       /\ (\A i \in RowsOf(r) : i <= j) => ledger[j].after = account[r].balance
       /\ \A i \in RowsOf(r) :
            i < j /\ (\A m \in RowsOf(r) : m <= i \/ m >= j) => ledger[j].before = ledger[i].after
  /\ \A r \in Rows : RowsOf(r) = {} => account[r].balance = 0

\* Money is conserved: what the accounts hold is what inkassa and shifts brought in
\* less expenses and transfer fees; a transfer never leaves one leg behind.
Brought(row) ==
  CASE row.type = "TRANSFER_IN" -> 0
    [] row.type = "TRANSFER_OUT" -> -row.fee
    [] OTHER -> row.delta
MoneyConserved ==
  SumFunction([r \in Rows |-> account[r].balance])
    = SumFunction([j \in DOMAIN ledger |-> Brought(ledger[j])])

\* Concurrent expenses and transfers never spend the same money twice.
NeverOverdrawn == \A r \in Rows : account[r].balance >= 0

\* Every request is answered: locks taken in opposite orders cannot hang it.
RequestsEnd == \A w \in Workers : task[w].legs # <<>> ~> task[w].legs = <<>>
=============================================================================

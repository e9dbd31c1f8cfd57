---------------------------- MODULE Treasury_proof ----------------------------
(***************************************************************************)
(* For any number of workers and accounts: the treasury's books reconcile  *)
(* and no account is overdrawn.  The argument is the row lock: a           *)
(* transaction's copy of a balance is the balance until it commits.        *)
(* The last section is about the wrapper its endpoints are called through.  *)
(***************************************************************************)
EXTENDS Treasury, Idempotency, Sums, TLAPS

\* A transaction holds a lock for its first legs, one lock per leg.
LocksInOrder == \A w \in Workers : Len(task[w].held) <= Len(task[w].legs)

\* Nobody else holds the row, and no transaction holds it for two legs.
LocksExclude ==
  \A w, v \in Workers : \A i \in DOMAIN task[w].held, j \in DOMAIN task[v].held :
    task[w].held[i].row = task[v].held[j].row => w = v /\ i = j

\* What was read under the lock is still true, and the leg fits in it.
LocksFresh ==
  \A w \in Workers : \A j \in DOMAIN task[w].held :
    /\ task[w].held[j].seen = account[task[w].held[j].row].balance
    /\ task[w].held[j].seen + task[w].legs[j].delta >= 0

\* A primary key that is not in use has no money and no history.
UnusedEmpty ==
  \A r \in Rows : account[r].kind = "none" => account[r].balance = 0 /\ RowsOf(r) = {}

Locks == LocksInOrder /\ LocksExclude /\ LocksFresh
IInv == TypeOK /\ Locks /\ UnusedEmpty /\ NeverOverdrawn /\ BooksReconcile

\* A request has at most two legs, and together they move what they bring in: the legs
\* of a transfer differ by its fee.
Balanced(legs) ==
  \/ legs = <<>>
  \/ Len(legs) = 1 /\ legs[1].delta = Brought(legs[1])
  \/ Len(legs) = 2 /\ legs[1].delta + legs[2].delta = Brought(legs[1]) + Brought(legs[2])
LegsBalance == \A w \in Workers : Balanced(task[w].legs)
MoneyInv == IInv /\ LegsBalance /\ MoneyConserved

-----------------------------------------------------------------------------
(* Every step keeps the types.                                             *)

LEMMA LegTyped ==
  ASSUME NEW k \in Kind, NEW d \in Amount, NEW t \in Type, NEW f \in 0..MaxAmount
  PROVE  LegOf(k, d, t, f) \in Leg
BY DEF LegOf, Leg

LEMMA RequestLegs ==
  ASSUME TypeOK, NEW w \in Workers, Request(w)
  PROVE  \E legs \in Seq(Leg) : Balanced(legs) /\ Begin(w, legs)
<1> USE TreasuryAssumption
<1>1. ASSUME NEW cash \in 0..MaxAmount, NEW card \in 0..MaxAmount, NEW t \in {"INKASSA", "SHIFT_DEPOSIT"},
             Deposit(w, t, cash, card)
      PROVE  \E legs \in Seq(Leg) : Balanced(legs) /\ Begin(w, legs)
  <2>1. LegOf("SAFE", cash, t, 0) \in Leg /\ LegOf("BANK", card, t, 0) \in Leg
    BY LegTyped DEF Kind, Amount, Type
  <2>2. (IF cash > 0 THEN <<LegOf("SAFE", cash, t, 0)>> ELSE <<>>) \in Seq(Leg)
    BY <2>1
  <2>3. (IF card > 0 THEN <<LegOf("BANK", card, t, 0)>> ELSE <<>>) \in Seq(Leg)
    BY <2>1
  <2>4. (IF cash > 0 THEN <<LegOf("SAFE", cash, t, 0)>> ELSE <<>>)
          \o (IF card > 0 THEN <<LegOf("BANK", card, t, 0)>> ELSE <<>>) \in Seq(Leg)
    BY <2>2, <2>3
  <2>5. Balanced((IF cash > 0 THEN <<LegOf("SAFE", cash, t, 0)>> ELSE <<>>)
                   \o (IF card > 0 THEN <<LegOf("BANK", card, t, 0)>> ELSE <<>>))
    BY <1>1 DEF Balanced, Brought, LegOf
  <2> QED BY <1>1, <2>4, <2>5 DEF Deposit
<1>2. ASSUME NEW from \in Kind, NEW to \in Kind, NEW amt \in 0..MaxAmount,
             NEW fee \in 0..MaxAmount, Transfer(w, from, to, amt, fee)
      PROVE  \E legs \in Seq(Leg) : Balanced(legs) /\ Begin(w, legs)
  <2>1. -amt \in Amount /\ amt - fee \in Amount
    BY <1>2 DEF Amount, Transfer
  <2>2. LegOf(from, -amt, "TRANSFER_OUT", fee) \in Leg /\ LegOf(to, amt - fee, "TRANSFER_IN", fee) \in Leg
    BY <2>1, LegTyped DEF Type
  <2>3. <<LegOf(from, -amt, "TRANSFER_OUT", fee), LegOf(to, amt - fee, "TRANSFER_IN", fee)>> \in Seq(Leg)
    BY <2>2
  <2>4. Balanced(<<LegOf(from, -amt, "TRANSFER_OUT", fee), LegOf(to, amt - fee, "TRANSFER_IN", fee)>>)
    BY DEF Balanced, Brought, LegOf
  <2> QED BY <1>2, <2>3, <2>4 DEF Transfer
<1>3. ASSUME NEW kind \in Kind, NEW amt \in 0..MaxAmount, NEW fee \in 0..MaxAmount,
             RecordExpense(w, kind, amt, fee)
      PROVE  \E legs \in Seq(Leg) : Balanced(legs) /\ Begin(w, legs)
  <2>1. -(amt + fee) \in Amount
    BY <1>3 DEF Amount, RecordExpense
  <2>2. LegOf(kind, -(amt + fee), "EXPENSE", fee) \in Leg
    BY <2>1, LegTyped DEF Type
  <2>3. <<LegOf(kind, -(amt + fee), "EXPENSE", fee)>> \in Seq(Leg)
    BY <2>2
  <2>4. Balanced(<<LegOf(kind, -(amt + fee), "EXPENSE", fee)>>)
    BY DEF Balanced, Brought, LegOf
  <2> QED BY <1>3, <2>3, <2>4 DEF RecordExpense
<1> QED
  BY <1>1, <1>2, <1>3 DEF Request, DepositInkassa, DepositShift, Type

LEMMA TaskTyped ==
  ASSUME NEW t \in Task
  PROVE  /\ t.legs \in Seq(Leg) /\ t.held \in Seq(Hold)
         /\ Len(t.legs) \in Nat /\ Len(t.held) \in Nat
         /\ \A j \in DOMAIN t.held : t.held[j].row \in Rows /\ t.held[j].seen \in Int
         /\ \A j \in DOMAIN t.legs : t.legs[j] \in Leg /\ t.legs[j].delta \in Int
<1>1. t.legs \in Seq(Leg) /\ t.held \in Seq(Hold)
  BY DEF Task
<1>2. \A j \in DOMAIN t.held : t.held[j] \in Hold
  BY <1>1
<1>3. \A j \in DOMAIN t.legs : t.legs[j] \in Leg
  BY <1>1
<1>4. \A l \in Leg : l.delta \in Int
  BY TreasuryAssumption DEF Leg, Amount
<1>5. \A h \in Hold : h.row \in Rows /\ h.seen \in Int
  BY DEF Hold
<1> QED BY <1>1, <1>2, <1>3, <1>4, <1>5

LEMMA TaskUpdates ==
  ASSUME NEW t \in Task, NEW x
  PROVE  /\ [t EXCEPT !.held = x] = [legs |-> t.legs, held |-> x]
         /\ [t EXCEPT !.legs = x] = [legs |-> x, held |-> t.held]
BY DEF Task

-----------------------------------------------------------------------------
(* Locking a row.                                                          *)

LEMMA LockGranted ==
  ASSUME IInv, NEW w \in Workers, NEW r \in Rows, NEW h,
         h = [row |-> r, seen |-> account[r].balance],
         Pending(w), ~Locked(r), Affordable(NextLeg(w), account[r].balance),
         task' = [task EXCEPT ![w] = [legs |-> task[w].legs, held |-> Append(task[w].held, h)]],
         UNCHANGED <<account, ledger, screen>>
  PROVE  IInv'
<1> DEFINE n == Len(task[w].held) + 1
<1> USE TreasuryAssumption
<1>1. task[w] \in Task /\ account[r] \in Account
  BY DEF IInv, TypeOK
<1>2. h \in Hold
  BY <1>1 DEF Account, Hold
<1>4. Append(task[w].held, h) \in Seq(Hold)
  BY <1>1, <1>2, TaskTyped
<1>5. TypeOK'
  BY <1>1, <1>4, TaskTyped DEF IInv, TypeOK, Task
<1>6. /\ DOMAIN task'[w].held = 1..n /\ Len(task'[w].held) = n
      /\ task'[w].held[n] = h
      /\ \A j \in 1..(n - 1) : j \in DOMAIN task[w].held /\ task'[w].held[j] = task[w].held[j]
      /\ task'[w].legs = task[w].legs /\ n \in 1..Len(task[w].legs)
  BY <1>1, <1>2, TaskTyped DEF IInv, TypeOK, Pending
<1>7. \A v \in Workers : v # w => task'[v] = task[v]
  BY DEF IInv, TypeOK
<1>8. LocksInOrder'
  BY <1>6, <1>7 DEF IInv, Locks, LocksInOrder
<1>9. LocksExclude'
  <2>1. \A v \in Workers : \A j \in DOMAIN task[v].held : task[v].held[j].row # r
    BY DEF Locked
  <2>2. h.row = r
    OBVIOUS
  <2> SUFFICES ASSUME NEW u \in Workers, NEW v \in Workers,
                      NEW i \in DOMAIN task'[u].held, NEW j \in DOMAIN task'[v].held,
                      task'[u].held[i].row = task'[v].held[j].row
               PROVE  u = v /\ i = j
    BY DEF LocksExclude
  <2>3. CASE u = w /\ v = w
    BY <1>1, <1>6, <2>1, <2>2, <2>3, TaskTyped DEF IInv, Locks, LocksExclude
  <2>4. CASE u = w /\ v # w
    BY <1>1, <1>6, <1>7, <2>1, <2>2, <2>4, TaskTyped DEF IInv, Locks, LocksExclude
  <2>5. CASE u # w /\ v = w
    BY <1>1, <1>6, <1>7, <2>1, <2>2, <2>5, TaskTyped DEF IInv, Locks, LocksExclude
  <2>6. CASE u # w /\ v # w
    BY <1>7, <2>6 DEF IInv, Locks, LocksExclude
  <2> QED BY <2>3, <2>4, <2>5, <2>6
<1>10. LocksFresh'
  <2> SUFFICES ASSUME NEW v \in Workers, NEW j \in DOMAIN task'[v].held
               PROVE  /\ task'[v].held[j].seen = account[task'[v].held[j].row].balance
                      /\ task'[v].held[j].seen + task'[v].legs[j].delta >= 0
    BY DEF LocksFresh
  <2>1. CASE v # w
    BY <1>7, <2>1 DEF IInv, Locks, LocksFresh
  <2>2. CASE v = w /\ j # n
    <3>1. /\ j \in DOMAIN task[v].held
          /\ task'[v].held[j] = task[v].held[j] /\ task'[v].legs = task[v].legs
      <4>1. Len(task[w].held) \in Nat
        BY <1>1, TaskTyped
      <4>2. j \in 1..n - 1
        BY <1>6, <2>2, <4>1
      <4> QED BY <1>6, <2>2, <4>2
    <3> QED BY <3>1 DEF IInv, Locks, LocksFresh
  <2>3. CASE v = w /\ j = n
    <3>1. h.seen = account[r].balance /\ h.row = r
      OBVIOUS
    <3>2. account[r].balance \in Int /\ account[r].balance >= 0
      BY <1>1 DEF IInv, NeverOverdrawn, Account
    <3>3. task[w].legs[n].delta \in Int
      BY <1>1, <1>6, TaskTyped
    <3>4. account[r].balance + task[w].legs[n].delta >= 0
      BY <3>2, <3>3 DEF Affordable, NextLeg
    <3> QED BY <1>6, <2>3, <3>1, <3>4
  <2> QED BY <2>1, <2>2, <2>3
<1>11. (UnusedEmpty /\ NeverOverdrawn /\ BooksReconcile)'
  BY DEF IInv, UnusedEmpty, NeverOverdrawn, BooksReconcile, RowsOf
<1> QED BY <1>5, <1>8, <1>9, <1>10, <1>11 DEF IInv, Locks

LEMMA LockStep == ASSUME IInv, NEW w \in Workers, Lock(w) PROVE IInv'
<1>1. PICK r \in Oldest(NextLeg(w).kind) :
        /\ ~Locked(r)
        /\ Affordable(NextLeg(w), account[r].balance)
        /\ task' = [task EXCEPT ![w].held = Append(@, [row |-> r, seen |-> account[r].balance])]
  BY DEF Lock
<1>2. r \in Rows
  BY DEF Oldest, Of
<1>3. task[w] \in Task
  BY DEF IInv, TypeOK, Task
<1>4. task' = [task EXCEPT ![w] =
        [legs |-> task[w].legs,
         held |-> Append(task[w].held, [row |-> r, seen |-> account[r].balance])]]
  BY <1>1, <1>3, TaskUpdates DEF IInv, TypeOK
<1> QED BY <1>1, <1>2, <1>3, <1>4, LockGranted DEF Lock

LEMMA CreateStep == ASSUME IInv, NEW w \in Workers, Create(w) PROVE IInv'
<1>1. PICK r \in Fresh :
        task' = [task EXCEPT ![w].held = Append(@, [row |-> r, seen |-> 0])]
  BY DEF Create
<1>2. r \in Rows /\ ~Locked(r) /\ account[r].balance = 0
  BY DEF Fresh, Unused, IInv, UnusedEmpty
<1>3. task[w] \in Task
  BY <1>2 DEF IInv, TypeOK, Task
<1>4. task' = [task EXCEPT ![w] =
        [legs |-> task[w].legs,
         held |-> Append(task[w].held, [row |-> r, seen |-> account[r].balance])]]
  BY <1>1, <1>2, <1>3, TaskUpdates DEF IInv, TypeOK
<1> QED BY <1>1, <1>2, <1>3, <1>4, LockGranted DEF Create

-----------------------------------------------------------------------------
(* Beginning a request, giving it up, inserting an account.                *)

LEMMA BeginStep ==
  ASSUME IInv, NEW w \in Workers, NEW legs \in Seq(Leg), Begin(w, legs)
  PROVE  IInv'
<1>1. task[w] \in Task /\ task[w].legs = <<>>
  BY DEF IInv, TypeOK, Begin
<1>2. task[w].held = <<>>
  BY <1>1, TaskTyped DEF IInv, Locks, LocksInOrder
<1>3. task' = [task EXCEPT ![w] = [legs |-> legs, held |-> task[w].held]]
  BY <1>1, TaskUpdates DEF IInv, TypeOK, Begin
<1>4. task'[w].held = <<>> /\ task'[w].legs = legs /\ \A v \in Workers : v # w => task'[v] = task[v]
  BY <1>2, <1>3 DEF IInv, TypeOK
<1>5. TypeOK'
  BY <1>1, <1>3, TaskTyped DEF IInv, TypeOK, Task, Begin
<1>6. LocksInOrder'
  <2>1. Len(legs) \in Nat
    OBVIOUS
  <2> QED BY <1>4, <2>1 DEF IInv, Locks, LocksInOrder
<1>7. LocksExclude' /\ LocksFresh'
  BY <1>4 DEF IInv, Locks, LocksExclude, LocksFresh, Begin
<1>8. (UnusedEmpty /\ NeverOverdrawn /\ BooksReconcile)'
  BY DEF IInv, UnusedEmpty, NeverOverdrawn, BooksReconcile, RowsOf, Begin
<1> QED BY <1>5, <1>6, <1>7, <1>8 DEF IInv, Locks

LEMMA AbortStep == ASSUME IInv, NEW w \in Workers, Abort(w) PROVE IInv'
<1>1. task'[w] = Idle /\ \A v \in Workers : v # w => task'[v] = task[v]
  BY DEF IInv, TypeOK, Abort
<1>2. Idle \in Task
  BY DEF Idle, Task
<1>3. TypeOK'
  BY <1>2 DEF IInv, TypeOK, Abort
<1>4. LocksInOrder' /\ LocksExclude' /\ LocksFresh'
  BY <1>1 DEF IInv, Locks, LocksInOrder, LocksExclude, LocksFresh, Abort, Idle
<1>5. (UnusedEmpty /\ NeverOverdrawn /\ BooksReconcile)'
  BY DEF IInv, UnusedEmpty, NeverOverdrawn, BooksReconcile, RowsOf, Abort
<1> QED BY <1>3, <1>4, <1>5 DEF IInv, Locks

\* An account is inserted at a key nobody uses: no balance changes.
LEMMA Inserted ==
  ASSUME IInv, NEW r \in Fresh, NEW kind \in Kind, UNCHANGED ledger,
         account' = [account EXCEPT ![r] = [kind |-> kind, balance |-> 0]]
  PROVE  /\ account' \in [Rows -> Account]
         /\ \A s \in Rows : account'[s].balance = account[s].balance
         /\ (UnusedEmpty /\ NeverOverdrawn /\ BooksReconcile)'
<1>1. r \in Rows /\ account[r].kind = "none"
  BY DEF Fresh, Unused
<1>2. account' \in [Rows -> Account]
  <2>1. [kind |-> kind, balance |-> 0] \in Account
    BY DEF Account
  <2> QED BY <2>1 DEF IInv, TypeOK
<1>3. \A s \in Rows : account'[s].balance = account[s].balance
  BY <1>1 DEF IInv, TypeOK, UnusedEmpty
<1>4. \A s \in Rows : account'[s].kind = "none" => account[s].kind = "none"
  BY <1>1 DEF IInv, TypeOK
<1>5. \A s \in Rows : RowsOf(s)' = RowsOf(s)
  BY DEF RowsOf
<1>6. UnusedEmpty' /\ NeverOverdrawn'
  BY <1>3, <1>4, <1>5 DEF IInv, UnusedEmpty, NeverOverdrawn
<1>7. BooksReconcile'
  BY <1>3, <1>5 DEF IInv, BooksReconcile
<1> QED BY <1>2, <1>3, <1>6, <1>7

LEMMA RefuseStep == ASSUME IInv, NEW w \in Workers, Refuse(w) PROVE IInv'
<1>1. task'[w] = Idle /\ \A v \in Workers : v # w => task'[v] = task[v]
  BY DEF IInv, TypeOK, Refuse
<1>2. Idle \in Task
  BY DEF Idle, Task
<1>3. task[w] \in Task /\ NextLeg(w).kind \in Kind
  <2>1. task[w] \in Task
    BY DEF IInv, TypeOK
  <2>2. Len(task[w].held) + 1 \in DOMAIN task[w].legs
    BY <2>1, TaskTyped DEF Refuse, Pending
  <2> QED BY <2>1, <2>2, TaskTyped DEF NextLeg, Leg
<1>4. /\ account' \in [Rows -> Account]
      /\ \A s \in Rows : account'[s].balance = account[s].balance
      /\ (UnusedEmpty /\ NeverOverdrawn /\ BooksReconcile)'
  <2>1. CASE UNCHANGED account
    BY <2>1 DEF IInv, TypeOK, UnusedEmpty, NeverOverdrawn, BooksReconcile, RowsOf, Refuse
  <2>2. CASE \E r \in Fresh :
               account' = [account EXCEPT ![r] = [kind |-> NextLeg(w).kind, balance |-> 0]]
    BY <1>3, <2>2, Inserted DEF Refuse
  <2> QED BY <2>1, <2>2 DEF Refuse
<1>5. TypeOK'
  BY <1>2, <1>4 DEF IInv, TypeOK, Refuse
<1>6. \A v \in Workers : \A j \in DOMAIN task[v].held : task[v].held[j].row \in Rows
  BY TaskTyped DEF IInv, TypeOK
<1>7. LocksInOrder' /\ LocksExclude' /\ LocksFresh'
  <2>1. LocksInOrder'
    BY <1>1, <1>4 DEF IInv, Locks, LocksInOrder, Idle
  <2>2. LocksExclude'
    BY <1>1, <1>4 DEF IInv, Locks, LocksExclude, Idle
  <2>3. LocksFresh'
    BY <1>1, <1>4, <1>6 DEF IInv, Locks, LocksFresh, Idle
  <2> QED BY <2>1, <2>2, <2>3
<1> QED BY <1>4, <1>5, <1>7 DEF IInv, Locks

LEMMA ScreenStep == ASSUME IInv, Screen PROVE IInv'
<1> USE DEF Screen
<1>1. ASSUME NEW kind \in Kind, Look(kind) PROVE IInv'
  <2>1. TypeOK'
    BY <1>1 DEF IInv, TypeOK, Look
  <2>2. (Locks /\ UnusedEmpty /\ NeverOverdrawn /\ BooksReconcile)'
    BY <1>1 DEF IInv, Locks, LocksInOrder, LocksExclude, LocksFresh, UnusedEmpty,
                NeverOverdrawn, BooksReconcile, RowsOf, Look
  <2> QED BY <2>1, <2>2 DEF IInv
<1>2. ASSUME NEW kind \in Kind, CreateSeen(kind) PROVE IInv'
  <2>1. PICK r \in Fresh : account' = [account EXCEPT ![r] = [kind |-> kind, balance |-> 0]]
    BY <1>2 DEF CreateSeen
  <2>2. /\ account' \in [Rows -> Account]
        /\ \A s \in Rows : account'[s].balance = account[s].balance
        /\ (UnusedEmpty /\ NeverOverdrawn /\ BooksReconcile)'
    BY <1>2, <2>1, Inserted DEF CreateSeen
  <2>3. TypeOK'
    BY <1>2, <2>2 DEF IInv, TypeOK, CreateSeen
  <2>4. \A v \in Workers : \A j \in DOMAIN task[v].held : task[v].held[j].row \in Rows
    BY TaskTyped DEF IInv, TypeOK
  <2>5. LocksInOrder' /\ LocksExclude' /\ LocksFresh'
    BY <1>2, <2>2, <2>4 DEF IInv, Locks, LocksInOrder, LocksExclude, LocksFresh, CreateSeen
  <2> QED BY <2>2, <2>3, <2>5 DEF IInv, Locks
<1> QED BY <1>1, <1>2

-----------------------------------------------------------------------------
(* Committing.                                                             *)

LEMMA Appended ==
  ASSUME NEW S, NEW s \in Seq(S), NEW t \in Seq(S)
  PROVE  /\ s \o t \in Seq(S) /\ DOMAIN (s \o t) = 1..(Len(s) + Len(t))
         /\ \A i \in 1..Len(s) : (s \o t)[i] = s[i]
         /\ \A j \in 1..Len(t) : (s \o t)[Len(s) + j] = t[j]
OBVIOUS

\* What a commit does: each row it holds gets its leg, and the ledger gets one row
\* per leg.
LEMMA CommitFacts ==
  ASSUME IInv, NEW w \in Workers, Commit(w)
  PROVE  /\ task[w] \in Task /\ Len(task[w].legs) \in Nat /\ Len(ledger) \in Nat
         /\ DOMAIN task[w].legs = 1..Len(task[w].legs)
         /\ DOMAIN task[w].held = 1..Len(task[w].legs)
         /\ DOMAIN ledger = 1..Len(ledger)
         /\ \A j \in 1..Len(task[w].legs) :
              /\ task[w].held[j].row \in Rows /\ task[w].legs[j].kind \in Kind
              /\ Applied(task[w], j) \in LedgerRow
              /\ Applied(task[w], j).account = task[w].held[j].row
              /\ Applied(task[w], j).before = account[task[w].held[j].row].balance
              /\ Applied(task[w], j).after = Applied(task[w], j).before + Applied(task[w], j).delta
              /\ Applied(task[w], j).after \in Int /\ Applied(task[w], j).after >= 0
              /\ account'[task[w].held[j].row] =
                   [kind |-> task[w].legs[j].kind, balance |-> Applied(task[w], j).after]
              /\ account'[task[w].held[j].row].kind = task[w].legs[j].kind
              /\ account'[task[w].held[j].row].balance = Applied(task[w], j).after
         /\ \A i, j \in 1..Len(task[w].legs) : task[w].held[i].row = task[w].held[j].row => i = j
         /\ \A r \in Rows :
              (\A j \in 1..Len(task[w].legs) : task[w].held[j].row # r) => account'[r] = account[r]
         /\ ledger' \in Seq(LedgerRow) /\ DOMAIN ledger' = 1..(Len(ledger) + Len(task[w].legs))
         /\ \A i \in 1..Len(ledger) : ledger'[i] = ledger[i]
         /\ \A j \in 1..Len(task[w].legs) : ledger'[Len(ledger) + j] = Applied(task[w], j)
<1> DEFINE k == task[w]
           n == Len(k.legs)
           N == Len(ledger)
           A(j) == Applied(k, j)
<1> USE TreasuryAssumption
<1>1. /\ k \in Task /\ n \in Nat /\ N \in Nat
      /\ DOMAIN k.legs = 1..n /\ DOMAIN k.held = 1..n /\ DOMAIN ledger = 1..N
  <2>1. k \in Task /\ ledger \in Seq(LedgerRow)
    BY DEF IInv, TypeOK
  <2>2. Len(k.held) = Len(k.legs)
    BY <2>1, TaskTyped DEF IInv, Locks, LocksInOrder, Commit, Pending
  <2> QED BY <2>1, <2>2, TaskTyped
<1>2. ASSUME NEW j \in 1..n
      PROVE  /\ k.held[j].row \in Rows
             /\ A(j) \in LedgerRow
             /\ A(j).account = k.held[j].row
             /\ A(j).before = account[k.held[j].row].balance
             /\ A(j).after = A(j).before + A(j).delta
             /\ A(j).after \in Int /\ A(j).after >= 0
             /\ k.legs[j].kind \in Kind
  <2>1. k.held[j].row \in Rows /\ k.held[j].seen \in Int /\ k.legs[j] \in Leg
    BY <1>1, TaskTyped
  <2>2. k.held[j].seen = account[k.held[j].row].balance /\ k.held[j].seen + k.legs[j].delta >= 0
    BY <1>1 DEF IInv, Locks, LocksFresh
  <2>3. /\ A(j).account = k.held[j].row /\ A(j).type = k.legs[j].type
        /\ A(j).delta = k.legs[j].delta /\ A(j).fee = k.legs[j].fee
        /\ A(j).before = k.held[j].seen /\ A(j).after = k.held[j].seen + k.legs[j].delta
    BY DEF Applied
  <2>4. /\ k.legs[j].delta \in Amount /\ k.legs[j].delta \in Int /\ k.legs[j].kind \in Kind
        /\ k.legs[j].type \in Type /\ k.legs[j].fee \in 0..MaxAmount
    BY <2>1 DEF Leg, Amount
  <2>5. A(j) \in LedgerRow
    BY <2>1, <2>4 DEF Applied, LedgerRow
  <2> HIDE DEF A, k
  <2> QED BY <2>1, <2>2, <2>3, <2>4, <2>5
<1>3. \A i, j \in 1..n : k.held[i].row = k.held[j].row => i = j
  BY <1>1 DEF IInv, Locks, LocksExclude
<1>4. ASSUME NEW j \in 1..n
      PROVE  /\ account'[k.held[j].row] = [kind |-> k.legs[j].kind, balance |-> A(j).after]
             /\ account'[k.held[j].row].kind = k.legs[j].kind
             /\ account'[k.held[j].row].balance = A(j).after
  <2>1. {i \in DOMAIN k.held : k.held[i].row = k.held[j].row} = {j}
    BY <1>1, <1>3
  <2>2. account'[k.held[j].row] = [kind |-> k.legs[j].kind, balance |-> A(j).after]
    BY <1>2, <2>1 DEF Commit
  <2> HIDE DEF A, k
  <2> QED BY <2>2
<1>5. ASSUME NEW r \in Rows, \A j \in 1..n : k.held[j].row # r
      PROVE  account'[r] = account[r]
  <2>1. {i \in DOMAIN k.held : k.held[i].row = r} = {}
    BY <1>1, <1>5
  <2> QED BY <2>1 DEF Commit
<1>6. /\ ledger' \in Seq(LedgerRow)
      /\ DOMAIN ledger' = 1..(N + n)
      /\ \A i \in 1..N : ledger'[i] = ledger[i]
      /\ \A j \in 1..n : ledger'[N + j] = A(j)
  <2> DEFINE added == [j \in DOMAIN k.legs |-> A(j)]
  <2>1. added \in Seq(LedgerRow) /\ Len(added) = n /\ \A j \in 1..n : added[j] = A(j)
    BY <1>1, <1>2
  <2>2. ledger' = ledger \o added /\ ledger \in Seq(LedgerRow)
    BY DEF Commit, IInv, TypeOK
  <2> HIDE DEF added, A, n, k
  <2> QED BY <2>1, <2>2, Appended
<1> QED
  BY <1>1, <1>2, <1>3, <1>4, <1>5, <1>6

LEMMA CommitStep == ASSUME IInv, NEW w \in Workers, Commit(w) PROVE IInv'
<1> DEFINE k == task[w]
           n == Len(k.legs)
           N == Len(ledger)
           A(j) == Applied(k, j)
<1> USE TreasuryAssumption
<1>1. /\ k \in Task /\ n \in Nat /\ N \in Nat
      /\ DOMAIN k.legs = 1..n /\ DOMAIN k.held = 1..n /\ DOMAIN ledger = 1..N
  BY CommitFacts
<1>2. ASSUME NEW j \in 1..n
      PROVE  /\ k.held[j].row \in Rows
             /\ A(j) \in LedgerRow
             /\ A(j).account = k.held[j].row
             /\ A(j).before = account[k.held[j].row].balance
             /\ A(j).after = A(j).before + A(j).delta
             /\ A(j).after \in Int /\ A(j).after >= 0
             /\ k.legs[j].kind \in Kind
  BY CommitFacts
<1>3. \A i, j \in 1..n : k.held[i].row = k.held[j].row => i = j
  BY CommitFacts
<1>4. ASSUME NEW j \in 1..n
      PROVE  /\ account'[k.held[j].row] = [kind |-> k.legs[j].kind, balance |-> A(j).after]
             /\ account'[k.held[j].row].kind = k.legs[j].kind
             /\ account'[k.held[j].row].balance = A(j).after
  BY CommitFacts
<1>5. ASSUME NEW r \in Rows, \A j \in 1..n : k.held[j].row # r
      PROVE  account'[r] = account[r]
  BY <1>5, CommitFacts
<1>6. /\ ledger' \in Seq(LedgerRow)
      /\ DOMAIN ledger' = 1..(N + n)
      /\ \A i \in 1..N : ledger'[i] = ledger[i]
      /\ \A j \in 1..n : ledger'[N + j] = A(j)
  BY CommitFacts
<1>7. /\ task'[w] = Idle
      /\ \A v \in Workers : v # w => task'[v] = task[v]
  BY DEF Commit, IInv, TypeOK
<1>8. account' \in [Rows -> Account]
  <2>1. account' = [r \in Rows |-> account'[r]]
    BY DEF Commit
  <2>2. ASSUME NEW r \in Rows PROVE account'[r] \in Account
    <3>1. ASSUME NEW j \in 1..n, k.held[j].row = r PROVE account'[r] \in Account
      <4>1. account'[r] = [kind |-> k.legs[j].kind, balance |-> A(j).after]
        BY <1>4, <3>1
      <4>2. k.legs[j].kind \in Kind /\ A(j).after \in Int
        BY <1>2
      <4> HIDE DEF A, k
      <4> QED BY <4>1, <4>2 DEF Account
    <3>2. CASE \A j \in 1..n : k.held[j].row # r
      BY <1>5, <3>2 DEF IInv, TypeOK
    <3> QED BY <3>1, <3>2
  <2> QED BY <2>1, <2>2
<1>9. TypeOK'
  <2>1. Idle \in Task
    BY DEF Idle, Task
  <2> QED BY <1>6, <1>8, <2>1 DEF IInv, TypeOK, Commit
<1>10. LocksInOrder' /\ LocksExclude'
  <2>1. task'[w].held = <<>> /\ task'[w].legs = <<>>
    BY <1>7 DEF Idle
  <2>2. LocksInOrder'
    BY <1>7, <2>1 DEF IInv, Locks, LocksInOrder
  <2>3. LocksExclude'
    BY <1>7, <2>1 DEF IInv, Locks, LocksExclude
  <2> QED BY <2>2, <2>3
<1> HIDE DEF A
<1>11. LocksFresh'
  <2> SUFFICES ASSUME NEW v \in Workers, v # w, NEW j \in DOMAIN task[v].held
               PROVE  account'[task[v].held[j].row] = account[task[v].held[j].row]
    BY <1>7 DEF IInv, Locks, LocksFresh, Idle
  <2>1. task[v].held[j].row \in Rows
    BY TaskTyped DEF IInv, TypeOK
  <2>2. \A i \in 1..n : k.held[i].row # task[v].held[j].row
    BY <1>1 DEF IInv, Locks, LocksExclude
  <2> QED BY <1>5, <2>1, <2>2
<1> DEFINE mine(r) == {j \in 1..n : k.held[j].row = r}
<1>12. ASSUME NEW r \in Rows
       PROVE  /\ RowsOf(r) \subseteq 1..N
              /\ RowsOf(r)' = RowsOf(r) \cup {N + j : j \in mine(r)}
  <2>1. RowsOf(r) = {i \in 1..N : ledger[i].account = r}
    BY <1>1 DEF RowsOf
  <2>2. RowsOf(r)' = {i \in 1..(N + n) : ledger'[i].account = r}
    BY <1>6 DEF RowsOf
  <2>3. ASSUME NEW i \in 1..(N + n) PROVE i \in 1..N \/ \E j \in 1..n : i = N + j
    <3> HIDE DEF N, n
    <3>1. CASE i > N
      <4>1. i - N \in 1..n /\ i = N + (i - N)
        BY <1>1, <3>1
      <4> QED BY <4>1
    <3>2. CASE i <= N
      BY <1>1, <3>2
    <3> QED BY <1>1, <3>1, <3>2
  <2>4. ASSUME NEW j \in 1..n PROVE N + j \in 1..(N + n) /\ N + j \notin 1..N
    BY <1>1
  <2>5. \A i \in 1..N : i \in 1..(N + n)
    BY <1>1
  <2> HIDE DEF N
  <2>6. \A i \in RowsOf(r)' : i \in RowsOf(r) \cup {N + j : j \in mine(r)}
    BY <1>2, <1>6, <2>1, <2>2, <2>3
  <2>7. \A i \in RowsOf(r) : i \in RowsOf(r)'
    BY <1>6, <2>1, <2>2, <2>5
  <2>8. \A j \in mine(r) : N + j \in RowsOf(r)'
    BY <1>2, <1>6, <2>2, <2>4
  <2> QED BY <2>1, <2>6, <2>7, <2>8
<1>13. UnusedEmpty'
  <2> SUFFICES ASSUME NEW r \in Rows, account'[r].kind = "none"
               PROVE  account'[r].balance = 0 /\ RowsOf(r)' = {}
    BY DEF UnusedEmpty
  <2>1. mine(r) = {}
    <3> SUFFICES ASSUME NEW j \in 1..n, k.held[j].row = r PROVE FALSE
      OBVIOUS
    <3>1. account'[r].kind = k.legs[j].kind /\ k.legs[j].kind \in Kind
      BY <1>2, <1>4
    <3> QED BY <3>1 DEF Kind
  <2> QED BY <1>5, <1>12, <2>1 DEF IInv, UnusedEmpty
<1>14. NeverOverdrawn'
  <2> SUFFICES ASSUME NEW r \in Rows PROVE account'[r].balance >= 0
    BY DEF NeverOverdrawn
  <2>1. ASSUME NEW j \in 1..n, k.held[j].row = r PROVE account'[r].balance >= 0
    <3>1. account'[r].balance = A(j).after
      BY <1>4, <2>1
    <3> QED BY <1>2, <3>1
  <2>2. CASE \A j \in 1..n : k.held[j].row # r
    BY <1>5, <2>2 DEF IInv, NeverOverdrawn
  <2> QED BY <2>1, <2>2
<1> HIDE DEF k, n, N
<1>15. BooksReconcile'
  <2>1. \A j \in DOMAIN ledger' : ledger'[j].after = ledger'[j].before + ledger'[j].delta
    <3> SUFFICES ASSUME NEW i \in 1..(N + n)
                 PROVE  ledger'[i].after = ledger'[i].before + ledger'[i].delta
      BY <1>6
    <3>1. CASE i \in 1..N
      BY <1>1, <1>6, <3>1 DEF IInv, BooksReconcile
    <3>2. CASE i \notin 1..N
      <4>1. i - N \in 1..n /\ i = N + (i - N)
        BY <1>1, <3>2
      <4> QED BY <1>2, <1>6, <4>1
    <3> QED BY <3>1, <3>2
  <2>2. ASSUME NEW r \in Rows, mine(r) = {}
        PROVE  /\ \A j \in RowsOf(r)' :
                    /\ (\A i \in RowsOf(r)' : i >= j) => ledger'[j].before = 0
                    /\ (\A i \in RowsOf(r)' : i <= j) => ledger'[j].after = account'[r].balance
                    /\ \A i \in RowsOf(r)' :
                         i < j /\ (\A m \in RowsOf(r)' : m <= i \/ m >= j)
                           => ledger'[j].before = ledger'[i].after
               /\ RowsOf(r)' = {} => account'[r].balance = 0
    <3>1. RowsOf(r)' = RowsOf(r) /\ account'[r] = account[r]
      BY <1>5, <1>12, <2>2
    <3>2. \A j \in RowsOf(r) : ledger'[j] = ledger[j]
      BY <1>6, <1>12
    <3>3. /\ \A j \in RowsOf(r) :
               /\ (\A i \in RowsOf(r) : i >= j) => ledger[j].before = 0
               /\ (\A i \in RowsOf(r) : i <= j) => ledger[j].after = account[r].balance
               /\ \A i \in RowsOf(r) :
                    i < j /\ (\A m \in RowsOf(r) : m <= i \/ m >= j)
                      => ledger[j].before = ledger[i].after
          /\ RowsOf(r) = {} => account[r].balance = 0
      BY DEF IInv, BooksReconcile
    <3> QED BY <3>1, <3>2, <3>3
  <2>3. ASSUME NEW r \in Rows, NEW c \in 1..n, k.held[c].row = r
        PROVE  /\ \A j \in RowsOf(r)' :
                    /\ (\A i \in RowsOf(r)' : i >= j) => ledger'[j].before = 0
                    /\ (\A i \in RowsOf(r)' : i <= j) => ledger'[j].after = account'[r].balance
                    /\ \A i \in RowsOf(r)' :
                         i < j /\ (\A m \in RowsOf(r)' : m <= i \/ m >= j)
                           => ledger'[j].before = ledger'[i].after
               /\ RowsOf(r)' = {} => account'[r].balance = 0
    <3> DEFINE new == N + c
    <3>1. mine(r) = {c}
      BY <1>3, <2>3
    <3>2. RowsOf(r)' = RowsOf(r) \cup {new}
      <4>1. RowsOf(r)' = RowsOf(r) \cup {N + j : j \in mine(r)}
        BY <1>12
      <4>2. {N + j : j \in {c}} = {N + c}
        OBVIOUS
      <4> HIDE DEF mine
      <4> QED BY <3>1, <4>1, <4>2
    <3>3. /\ new \in Nat /\ RowsOf(r) \subseteq 1..N
          /\ \A i \in RowsOf(r) : i \in Nat /\ i < new
      BY <1>1, <1>12
    <3>4. /\ ledger'[new].before = account[r].balance
          /\ ledger'[new].after = account'[r].balance
      <4>1. ledger'[new] = A(c)
        BY <1>6
      <4>2. account'[r].balance = A(c).after
        BY <1>4, <2>3
      <4>3. A(c).before = account[r].balance
        BY <1>2, <2>3
      <4> QED BY <4>1, <4>2, <4>3
    <3>5. \A j \in RowsOf(r) : ledger'[j] = ledger[j]
      BY <1>6, <3>3
    <3>6. /\ \A j \in RowsOf(r) :
               /\ (\A i \in RowsOf(r) : i >= j) => ledger[j].before = 0
               /\ (\A i \in RowsOf(r) : i <= j) => ledger[j].after = account[r].balance
               /\ \A i \in RowsOf(r) :
                    i < j /\ (\A m \in RowsOf(r) : m <= i \/ m >= j)
                      => ledger[j].before = ledger[i].after
          /\ RowsOf(r) = {} => account[r].balance = 0
      BY DEF IInv, BooksReconcile
    <3> HIDE DEF new
    <3>7. \A j \in RowsOf(r)' : (\A i \in RowsOf(r)' : i >= j) => ledger'[j].before = 0
      BY <3>2, <3>3, <3>4, <3>5, <3>6
    <3>8. \A j \in RowsOf(r)' : (\A i \in RowsOf(r)' : i <= j) => ledger'[j].after = account'[r].balance
      BY <3>2, <3>3, <3>4
    <3>9. ASSUME NEW j \in RowsOf(r)', NEW i \in RowsOf(r)',
                 i < j, \A m \in RowsOf(r)' : m <= i \/ m >= j
          PROVE  ledger'[j].before = ledger'[i].after
      <4>1. i \in RowsOf(r)
        BY <3>2, <3>3, <3>9
      <4>2. CASE j = new
        <5>1. \A m \in RowsOf(r) : m <= i
          BY <3>2, <3>3, <3>9, <4>2
        <5> QED BY <3>4, <3>5, <3>6, <4>1, <4>2, <5>1
      <4>3. CASE j \in RowsOf(r)
        BY <3>2, <3>5, <3>6, <3>9, <4>1, <4>3
      <4> QED BY <3>2, <4>2, <4>3
    <3> QED BY <3>2, <3>7, <3>8, <3>9
  <2>4. \A r \in Rows : mine(r) = {} \/ \E c \in 1..n : k.held[c].row = r
    OBVIOUS
  <2> QED BY <2>1, <2>2, <2>3, <2>4 DEF BooksReconcile
<1> QED BY <1>9, <1>10, <1>11, <1>13, <1>14, <1>15 DEF IInv, Locks

-----------------------------------------------------------------------------
(* Money is conserved.                                                     *)

Balances == [r \in Rows |-> account[r].balance]
Bring == [j \in DOMAIN ledger |-> Brought(ledger[j])]

LEMMA BroughtIsInt ==
  ASSUME NEW x \in LedgerRow
  PROVE  Brought(x) \in Int
<1>1. x.delta \in Int /\ x.fee \in Int
  BY TreasuryAssumption DEF LedgerRow, Amount
<1> QED BY <1>1 DEF Brought

LEMMA MoneyTyped ==
  ASSUME TypeOK
  PROVE  /\ \A r \in Rows : Balances[r] \in Int
         /\ DOMAIN ledger = 1..Len(ledger) /\ Len(ledger) \in Nat
         /\ \A j \in 1..Len(ledger) : Bring[j] \in Int
         /\ MoneyConserved <=> SumFunctionOnSet(Balances, Rows)
                                 = SumFunctionOnSet(Bring, 1..Len(ledger))
<1>1. \A r \in Rows : Balances[r] \in Int
  BY DEF Balances, TypeOK, Account
<1>2. DOMAIN ledger = 1..Len(ledger) /\ Len(ledger) \in Nat
  BY DEF TypeOK
<1>3. \A j \in 1..Len(ledger) : Bring[j] \in Int
  BY <1>2, BroughtIsInt DEF TypeOK, Bring
<1>4. DOMAIN Balances = Rows /\ DOMAIN Bring = 1..Len(ledger)
  BY <1>2 DEF Balances, Bring
<1>5. MoneyConserved <=> SumFunction(Balances) = SumFunction(Bring)
  BY DEF MoneyConserved, Balances, Bring
<1> QED BY <1>1, <1>2, <1>3, <1>4, <1>5 DEF SumFunction

\* A step that writes no ledger row changes no balance.
LEMMA SameMoney ==
  ASSUME MoneyConserved, UNCHANGED ledger,
         \A r \in Rows : account'[r].balance = account[r].balance
  PROVE  MoneyConserved'
<1>1. Balances' = Balances /\ Bring' = Bring
  BY DEF Balances, Bring
<1> QED BY <1>1 DEF MoneyConserved, Balances, Bring

\* What a step but a commit does to the requests and the money.
LEMMA OtherSteps ==
  ASSUME MoneyInv, [Next]_vars, \A w \in Workers : ~Commit(w)
  PROVE  LegsBalance' /\ MoneyConserved'
<1> USE DEF MoneyInv
<1>1. ASSUME NEW w \in Workers, Request(w) PROVE LegsBalance' /\ MoneyConserved'
  <2>1. PICK legs \in Seq(Leg) : Balanced(legs) /\ Begin(w, legs)
    BY <1>1, RequestLegs DEF IInv
  <2>2. task'[w].legs = legs /\ \A v \in Workers : v # w => task'[v] = task[v]
    BY <2>1 DEF Begin, IInv, TypeOK, Task
  <2>3. LegsBalance'
    BY <2>1, <2>2 DEF LegsBalance
  <2> QED BY <2>1, <2>3, SameMoney DEF Begin
<1>2. ASSUME NEW w \in Workers, Lock(w) \/ Create(w) PROVE LegsBalance' /\ MoneyConserved'
  <2>1. \A v \in Workers : task'[v].legs = task[v].legs
    BY <1>2 DEF Lock, Create, IInv, TypeOK, Task
  <2>2. LegsBalance'
    BY <2>1 DEF LegsBalance
  <2> QED BY <1>2, <2>2, SameMoney DEF Lock, Create
<1>3. ASSUME NEW w \in Workers, Refuse(w) \/ Abort(w) PROVE LegsBalance' /\ MoneyConserved'
  <2>1. task'[w].legs = <<>> /\ \A v \in Workers : v # w => task'[v] = task[v]
    BY <1>3 DEF Refuse, Abort, IInv, TypeOK, Idle
  <2>2. LegsBalance'
    BY <2>1 DEF LegsBalance, Balanced
  <2>3. UNCHANGED ledger /\ \A r \in Rows : account'[r].balance = account[r].balance
    <3>1. ASSUME NEW r \in Fresh, NEW kind,
                 account' = [account EXCEPT ![r] = [kind |-> kind, balance |-> 0]]
          PROVE  \A s \in Rows : account'[s].balance = account[s].balance
      BY <3>1 DEF Fresh, Unused, IInv, TypeOK, UnusedEmpty
    <3> QED BY <1>3, <3>1 DEF Refuse, Abort
  <2> QED BY <2>2, <2>3, SameMoney
<1>4. CASE Screen
  <2>1. UNCHANGED <<task, ledger>>
    BY <1>4 DEF Screen, Look, CreateSeen
  <2>2. \A r \in Rows : account'[r].balance = account[r].balance
    <3>1. ASSUME NEW r \in Fresh, NEW kind,
                 account' = [account EXCEPT ![r] = [kind |-> kind, balance |-> 0]]
          PROVE  \A s \in Rows : account'[s].balance = account[s].balance
      BY <3>1 DEF Fresh, Unused, IInv, TypeOK, UnusedEmpty
    <3> QED BY <1>4, <3>1 DEF Screen, Look, CreateSeen
  <2>3. LegsBalance'
    BY <2>1 DEF LegsBalance
  <2> QED BY <2>1, <2>2, <2>3, SameMoney
<1>5. CASE UNCHANGED vars
  BY <1>5, SameMoney DEF vars, LegsBalance
<1> QED BY <1>1, <1>2, <1>3, <1>4, <1>5 DEF Next, Work

LEMMA CommitMoney ==
  ASSUME MoneyInv, NEW w \in Workers, Commit(w)
  PROVE  LegsBalance' /\ MoneyConserved'
<1> DEFINE k == task[w]
           n == Len(k.legs)
           N == Len(ledger)
           at(j) == k.held[j].row
           leg(j) == k.legs[j]
<1> USE DEF MoneyInv
<1>1. IInv /\ IInv' /\ TypeOK /\ TypeOK'
  BY CommitStep DEF IInv
<1>2. LegsBalance'
  <2>1. task'[w].legs = <<>> /\ \A v \in Workers : v # w => task'[v] = task[v]
    BY <1>1 DEF Commit, TypeOK, Idle
  <2> QED BY <2>1 DEF LegsBalance, Balanced
<1>3. /\ n \in Nat /\ N \in Nat
      /\ \A j \in 1..n :
           /\ at(j) \in Rows
           /\ leg(j).delta \in Int /\ Brought(leg(j)) \in Int
           /\ Balances'[at(j)] = Balances[at(j)] + leg(j).delta
           /\ Bring'[N + j] = Brought(leg(j))
      /\ \A i, j \in 1..n : at(i) = at(j) => i = j
      /\ \A r \in Rows : (\A j \in 1..n : at(j) # r) => Balances'[r] = Balances[r]
      /\ Len(ledger') = N + n
      /\ \A i \in 1..N : Bring'[i] = Bring[i]
  <2>1. /\ n \in Nat /\ N \in Nat /\ DOMAIN ledger' = 1..(N + n) /\ DOMAIN ledger = 1..N
        /\ Len(ledger') = N + n
    BY <1>1, CommitFacts DEF TypeOK
  <2>2. ASSUME NEW j \in 1..n
        PROVE  /\ at(j) \in Rows
               /\ leg(j).delta \in Int /\ Brought(leg(j)) \in Int
               /\ Balances'[at(j)] = Balances[at(j)] + leg(j).delta
               /\ Bring'[N + j] = Brought(leg(j))
    <3>1. /\ at(j) \in Rows /\ Applied(k, j) \in LedgerRow
          /\ account'[at(j)].balance = account[at(j)].balance + Applied(k, j).delta
          /\ ledger'[N + j] = Applied(k, j)
      <4>1. /\ at(j) \in Rows /\ Applied(k, j) \in LedgerRow
            /\ ledger'[N + j] = Applied(k, j)
            /\ account'[at(j)].balance = Applied(k, j).after
        BY <1>1, CommitFacts
      <4>2. Applied(k, j).after = Applied(k, j).before + Applied(k, j).delta
        BY <1>1, CommitFacts
      <4>3. Applied(k, j).before = account[at(j)].balance
        BY <1>1, CommitFacts
      <4> QED BY <4>1, <4>2, <4>3
    <3>2. /\ Applied(k, j).delta = leg(j).delta /\ Applied(k, j).type = leg(j).type
          /\ Applied(k, j).fee = leg(j).fee
      BY DEF Applied
    <3>3. Brought(Applied(k, j)) = Brought(leg(j)) /\ Brought(leg(j)) \in Int
      BY <3>1, <3>2, BroughtIsInt DEF Brought
    <3>4. leg(j).delta \in Int
      BY <3>1, <3>2, TreasuryAssumption DEF LedgerRow, Amount
    <3>5. N + j \in DOMAIN ledger'
      BY <2>1
    <3> QED BY <3>1, <3>2, <3>3, <3>4, <3>5 DEF Balances, Bring
  <2>3. \A i, j \in 1..n : at(i) = at(j) => i = j
    BY <1>1, CommitFacts
  <2>4. \A r \in Rows : (\A j \in 1..n : at(j) # r) => Balances'[r] = Balances[r]
    BY <1>1, CommitFacts DEF Balances
  <2>5. \A i \in 1..N : Bring'[i] = Bring[i]
    <3>1. \A i \in 1..N : i \in 1..(N + n)
      BY <2>1
    <3>2. \A i \in 1..N : ledger'[i] = ledger[i]
      BY <1>1, CommitFacts
    <3> QED BY <2>1, <3>1, <3>2 DEF Bring
  <2> QED BY <2>1, <2>2, <2>3, <2>4, <2>5
<1>4. Balanced(k.legs) /\ k.legs # <<>>
  BY DEF LegsBalance, Commit
<1>5. /\ IsFiniteSet(Rows) /\ IsFiniteSet(1..N)
      /\ \A r \in Rows : Balances[r] \in Int /\ Balances'[r] \in Int
      /\ \A i \in 1..(N + n) : Bring'[i] \in Int
  <2>1. IsFiniteSet(Rows) /\ IsFiniteSet(1..N)
    BY <1>3, TreasuryAssumption, FS_Interval
  <2>2. \A r \in Rows : Balances[r] \in Int
    BY <1>1, MoneyTyped
  <2>3. \A i \in 1..N : Bring[i] \in Int
    BY <1>1, MoneyTyped
  <2> HIDE DEF k, n, N, at, leg
  <2>4. ASSUME NEW r \in Rows PROVE Balances'[r] \in Int
    <3>1. ASSUME NEW j \in 1..n, at(j) = r PROVE Balances'[r] \in Int
      BY <1>3, <2>2, <3>1
    <3> QED BY <1>3, <2>2, <3>1
  <2>5. ASSUME NEW i \in 1..(N + n) PROVE Bring'[i] \in Int
    <3>1. CASE i \in 1..N
      BY <1>3, <2>3, <3>1
    <3>2. CASE i \notin 1..N
      <4>1. i - N \in 1..n /\ i = N + (i - N)
        BY <1>3, <3>2
      <4> QED BY <1>3, <4>1
    <3> QED BY <3>1, <3>2
  <2> QED BY <2>1, <2>2, <2>4, <2>5
<1>6. SumFunctionOnSet(Balances, Rows) = SumFunctionOnSet(Bring, 1..N)
  BY <1>1, MoneyTyped
<1>7. SumFunctionOnSet(Bring', 1..N) = SumFunctionOnSet(Bring, 1..N)
  BY <1>3, <1>5, SumSame
<1>8. SumFunctionOnSet(Balances, Rows) \in Int /\ SumFunctionOnSet(Bring, 1..N) \in Int
  BY <1>5, <1>6, SumIsInt
<1>9. MoneyConserved' <=> SumFunctionOnSet(Balances', Rows) = SumFunctionOnSet(Bring', 1..(N + n))
  <2>1. DOMAIN Balances' = Rows /\ DOMAIN Bring' = 1..(N + n)
    BY <1>1, CommitFacts DEF Balances, Bring
  <2>2. MoneyConserved' <=> SumFunction(Balances') = SumFunction(Bring')
    BY DEF MoneyConserved, Balances, Bring
  <2> QED BY <2>1, <2>2 DEF SumFunction
<1>10. n = 1 \/ n = 2
  BY <1>1, <1>4, TaskTyped DEF Balanced, TypeOK
<1>11. leg(1).delta = Brought(leg(1)) \/ n = 2
  BY <1>4 DEF Balanced
<1>12. n = 2 => leg(1).delta + leg(2).delta = Brought(leg(1)) + Brought(leg(2))
  BY <1>4 DEF Balanced
<1> HIDE DEF k, n, N, at, leg
<1>13. SumFunctionOnSet(Bring', 1..(N + 1)) = Brought(leg(1)) + SumFunctionOnSet(Bring', 1..N)
  <2>1. 1..(N + 1) = (1..N) \cup {N + 1} /\ N + 1 \notin 1..N
    BY <1>3
  <2>2. \A i \in (1..N) \cup {N + 1} : Bring'[i] \in Int
    BY <1>3, <1>5, <1>10
  <2>3. SumFunctionOnSet(Bring', (1..N) \cup {N + 1})
          = Bring'[N + 1] + SumFunctionOnSet(Bring', 1..N)
    BY <1>5, <2>1, <2>2, SumGains
  <2>4. Bring'[N + 1] = Brought(leg(1))
    BY <1>3, <1>10
  <2> QED BY <2>1, <2>3, <2>4
<1>14. CASE n = 1
  <2>1. 1 \in 1..n /\ \A r \in Rows \ {at(1)} : Balances'[r] = Balances[r]
    BY <1>3, <1>14
  <2>2. SumFunctionOnSet(Balances', Rows)
          = SumFunctionOnSet(Balances, Rows) - Balances[at(1)] + Balances'[at(1)]
    BY <1>3, <1>5, <2>1, SumChanges
  <2>3. SumFunctionOnSet(Balances', Rows) = SumFunctionOnSet(Balances, Rows) + leg(1).delta
    BY <1>3, <1>5, <1>8, <2>1, <2>2
  <2> QED BY <1>2, <1>3, <1>6, <1>7, <1>8, <1>9, <1>11, <1>13, <1>14, <2>1, <2>3
<1>15. CASE n = 2
  <2> DEFINE mid == [r \in Rows |-> IF r = at(1) THEN Balances'[r] ELSE Balances[r]]
  <2>1. 1 \in 1..n /\ 2 \in 1..n /\ at(1) \in Rows /\ at(2) \in Rows /\ at(1) # at(2)
    BY <1>3, <1>15
  <2>2. /\ \A r \in Rows : mid[r] \in Int
        /\ \A r \in Rows \ {at(1)} : mid[r] = Balances[r]
        /\ \A r \in Rows \ {at(2)} : Balances'[r] = mid[r]
        /\ mid[at(1)] = Balances'[at(1)] /\ mid[at(2)] = Balances[at(2)]
    BY <1>3, <1>5, <1>15, <2>1
  <2> HIDE DEF mid
  <2>3. /\ SumFunctionOnSet(mid, Rows)
             = SumFunctionOnSet(Balances, Rows) - Balances[at(1)] + mid[at(1)]
        /\ SumFunctionOnSet(Balances', Rows)
             = SumFunctionOnSet(mid, Rows) - mid[at(2)] + Balances'[at(2)]
    BY <1>5, <2>1, <2>2, SumChanges
  <2>4. SumFunctionOnSet(Balances', Rows)
          = SumFunctionOnSet(Balances, Rows) + leg(1).delta + leg(2).delta
    <3>1. /\ mid[at(1)] = Balances[at(1)] + leg(1).delta
          /\ Balances'[at(2)] = mid[at(2)] + leg(2).delta
      BY <1>3, <2>1, <2>2
    <3>2. /\ Balances[at(1)] \in Int /\ mid[at(2)] \in Int
          /\ leg(1).delta \in Int /\ leg(2).delta \in Int
      BY <1>3, <1>5, <2>1, <2>2
    <3> QED BY <1>8, <2>3, <3>1, <3>2
  <2>5. SumFunctionOnSet(Bring', 1..(N + 2)) = Brought(leg(2)) + SumFunctionOnSet(Bring', 1..(N + 1))
    <3>1. 1..(N + 2) = (1..(N + 1)) \cup {N + 2} /\ N + 2 \notin 1..(N + 1)
      BY <1>3
    <3>2. \A i \in (1..(N + 1)) \cup {N + 2} : Bring'[i] \in Int
      BY <1>3, <1>5, <1>15
    <3>3. IsFiniteSet(1..(N + 1))
      BY <1>3, FS_Interval
    <3>4. SumFunctionOnSet(Bring', (1..(N + 1)) \cup {N + 2})
            = Bring'[N + 2] + SumFunctionOnSet(Bring', 1..(N + 1))
      BY <3>1, <3>2, <3>3, SumGains
    <3>5. Bring'[N + 2] = Brought(leg(2))
      BY <1>3, <2>1
    <3> QED BY <3>1, <3>4, <3>5
  <2> QED BY <1>2, <1>3, <1>6, <1>7, <1>8, <1>9, <1>12, <1>13, <1>15, <2>1, <2>4, <2>5
<1> QED BY <1>10, <1>14, <1>15

-----------------------------------------------------------------------------
(* The theorems.                                                           *)

LEMMA InitIInv == Init => IInv
<1> SUFFICES ASSUME Init PROVE IInv
  OBVIOUS
<1>1. Idle \in Task /\ NoAccount \in Account
  BY DEF Idle, Task, NoAccount, Account
<1>2. TypeOK
  BY <1>1 DEF Init, TypeOK
<1>3. Locks
  BY DEF Init, Locks, LocksInOrder, LocksExclude, LocksFresh, Idle
<1>4. UnusedEmpty /\ NeverOverdrawn /\ BooksReconcile
  BY DEF Init, UnusedEmpty, NeverOverdrawn, BooksReconcile, RowsOf, NoAccount
<1> QED BY <1>2, <1>3, <1>4 DEF IInv

LEMMA NextIInv == IInv /\ [Next]_vars => IInv'
<1> SUFFICES ASSUME IInv, [Next]_vars PROVE IInv'
  OBVIOUS
<1>1. CASE Screen
  BY <1>1, ScreenStep
<1>2. ASSUME NEW w \in Workers, Request(w) PROVE IInv'
  BY <1>2, RequestLegs, BeginStep DEF IInv
<1>3. ASSUME NEW w \in Workers, Work(w) PROVE IInv'
  BY <1>3, LockStep, CreateStep, RefuseStep, CommitStep DEF Work
<1>4. ASSUME NEW w \in Workers, Abort(w) PROVE IInv'
  BY <1>4, AbortStep
<1>5. CASE UNCHANGED vars
  <2>1. (TypeOK /\ Locks)'
    BY <1>5 DEF IInv, TypeOK, Locks, LocksInOrder, LocksExclude, LocksFresh, vars
  <2>2. (UnusedEmpty /\ NeverOverdrawn /\ BooksReconcile)'
    BY <1>5 DEF IInv, UnusedEmpty, NeverOverdrawn, BooksReconcile, RowsOf, vars
  <2> QED BY <2>1, <2>2 DEF IInv
<1> QED BY <1>1, <1>2, <1>3, <1>4, <1>5 DEF Next

LEMMA Inductive == Spec => []IInv
BY InitIInv, NextIInv, PTL DEF Spec

\* The treasury's state always has its type.
THEOREM TypeCorrect == Spec => []TypeOK
<1>1. IInv => TypeOK
  BY DEF IInv
<1> QED BY <1>1, Inductive, PTL

\* The books reconcile, whatever transactions interleave (_apply's before and after).
THEOREM BooksAlwaysReconcile == Spec => []BooksReconcile
<1>1. IInv => BooksReconcile
  BY DEF IInv
<1> QED BY <1>1, Inductive, PTL

\* Concurrent transfers and expenses never spend the same money twice.
THEOREM NoOverdraft == Spec => []NeverOverdrawn
<1>1. IInv => NeverOverdrawn
  BY DEF IInv
<1> QED BY <1>1, Inductive, PTL

\* Transfers move money, inkassa and shifts bring it in, expenses and fees take it out:
\* nothing else changes what the accounts hold together (record_transfer's two legs).
THEOREM MoneyIsConserved == Spec => []MoneyConserved
<1>1. Init => MoneyInv
  <2> SUFFICES ASSUME Init PROVE LegsBalance /\ MoneyConserved
    BY InitIInv DEF MoneyInv
  <2>1. LegsBalance
    BY DEF Init, Idle, LegsBalance, Balanced
  <2>2. TypeOK
    BY InitIInv DEF IInv
  <2>3. \A r \in Rows : Balances[r] = 0
    BY DEF Init, NoAccount, Balances
  <2>4. SumFunctionOnSet(Balances, Rows) = 0
    BY <2>3, SumOfZeros, TreasuryAssumption
  <2>5. 1..Len(ledger) = {}
    BY DEF Init
  <2> QED BY <2>1, <2>2, <2>4, <2>5, MoneyTyped, SumOfNone
<1>2. MoneyInv /\ [Next]_vars => MoneyInv'
  BY NextIInv, OtherSteps, CommitMoney DEF MoneyInv
<1>3. MoneyInv => MoneyConserved
  BY DEF MoneyInv
<1> QED BY <1>1, <1>2, <1>3, PTL DEF Spec

-----------------------------------------------------------------------------
(* Idempotency. For any number of threads: what is sent twice acts once when    *)
(* nothing fails, and every retry that is answered gets the one stored       *)
(* answer.                                                                   *)

Owns(t) == thread[t].phase \in {"own", "ran"}

\* The claim and its only owner go together, and the view has not acted while
\* the owner has yet to run it.
Calm ==
  /\ \A t \in Threads : thread[t].phase \in {"new", "lost", "own", "ran", "done"}
  /\ \A t \in Threads : Owns(t) => Claimed /\ thread[t].pk = row.pk
  /\ \A t \in Threads : ~Owns(t) => thread[t].pk = 0
  /\ \A t, u \in Threads : Owns(t) /\ Owns(u) => t = u
  /\ Claimed => row.age = 0 /\ \E t \in Threads : Owns(t)
  /\ ~Exists => acts = 0
  /\ \A t \in Threads : thread[t].phase \in {"lost", "done"} => Exists
  /\ \A t \in Threads : thread[t].phase = "own" => acts = 0
  /\ acts <= 1
  /\ \A t \in Threads : answer[t] \in Threads => Exists /\ answer[t] = row.response

RetriesInv == RetriesTyped /\ (faults = {} => Calm)

\* Every step keeps the state well typed, whatever fails.
LEMMA RetriesTypeStep == RetriesTyped /\ [RetriesNext]_retryVars => RetriesTyped'
<1> USE IdempotencyAssumption DEF RetriesTyped, Row, NoRow, Phase
<1> SUFFICES ASSUME RetriesTyped, [RetriesNext]_retryVars PROVE RetriesTyped'
  OBVIOUS
<1>1. CASE Tick
  BY <1>1 DEF Tick, Claimed, Exists
<1>2. ASSUME NEW t \in Threads, Claim(t) PROVE RetriesTyped'
  BY <1>2 DEF Claim, Goes, FreePks
<1>3. ASSUME NEW t \in Threads, Lookup(t) PROVE RetriesTyped'
  BY <1>3 DEF Lookup, Goes, Answers, Claimed, Exists, Busy
<1>4. ASSUME NEW t \in Threads, TakeOver(t) PROVE RetriesTyped'
  <2>1. [NoRow EXCEPT !.pk = row.pk] \in Row
    OBVIOUS
  <2>2. row' \in Row
    BY <1>4, <2>1 DEF TakeOver, UpdateRow
  <2>3. thread' \in [Threads -> [phase : Phase, pk : Pks \cup {0}]]
    BY <1>4 DEF TakeOver, Goes
  <2> QED
    BY <1>4, <2>2, <2>3 DEF TakeOver
<1>5. ASSUME NEW t \in Threads, Run(t) PROVE RetriesTyped'
  BY <1>5 DEF Run, Act, Goes
<1>6. ASSUME NEW t \in Threads, RunBare(t) PROVE RetriesTyped'
  <2>1. acts' \in 0..2
    BY <1>6 DEF RunBare, Act
  <2>2. PICK a \in Threads \cup {Error} : Answers(t, a)
    BY <1>6 DEF RunBare
  <2>3. thread' \in [Threads -> [phase : Phase, pk : Pks \cup {0}]]
    BY <2>2 DEF Answers
  <2>4. answer' \in [Threads -> Threads \cup {Nobody, Busy, Error}]
    BY <2>2 DEF Answers
  <2> QED
    BY <1>6, <2>1, <2>3, <2>4 DEF RunBare
<1>7. ASSUME NEW t \in Threads, Store(t) PROVE RetriesTyped'
  BY <1>7 DEF Store, Closing, UpdateRow, Answers
<1>8. ASSUME NEW t \in Threads, Drop(t) PROVE RetriesTyped'
  BY <1>8 DEF Drop, Closing, UpdateRow, Answers, Error
<1>9. ASSUME NEW t \in Threads, Die(t) PROVE RetriesTyped'
  BY <1>9 DEF Die
<1>10. ASSUME NEW t \in Threads, Resend(t) PROVE RetriesTyped'
  BY <1>10 DEF Resend, Goes
<1>11. CASE UNCHANGED retryVars
  BY <1>11 DEF retryVars
<1> QED
  BY <1>1, <1>2, <1>3, <1>4, <1>5, <1>6, <1>7, <1>8, <1>9, <1>10, <1>11 DEF RetriesNext, Serve

\* With nothing failing, every step keeps the claim with its only owner.
LEMMA CalmStep == RetriesInv /\ [RetriesNext]_retryVars /\ faults' = {} => Calm'
<1> USE IdempotencyAssumption
<1> SUFFICES ASSUME RetriesInv, [RetriesNext]_retryVars, faults' = {} PROVE Calm'
  OBVIOUS
<1>a. faults = {} /\ RetriesTyped /\ Calm
  BY DEF RetriesInv, RetriesNext, Serve, Tick, Claim, Lookup, TakeOver, Run, RunBare, Store, Drop, Die,
         Resend, retryVars
<1>1. CASE Tick
  BY <1>1, <1>a DEF Tick, Calm, Owns, Owner, Claimed
<1>2. ASSUME NEW t \in Threads, Claim(t) PROVE Calm'
  <2> USE <1>2, <1>a DEF Claim, Calm, Owns, Claimed, Exists
  <2>1. CASE Exists
    BY <2>1 DEF RetriesTyped, Goes
  <2>2. CASE ~Exists
    <3>1. PICK n \in FreePks : /\ row' = [NoRow EXCEPT !.pk = n]
                             /\ thread' = [thread EXCEPT ![t] = [phase |-> "own", pk |-> n]]
      BY <2>2
    <3>2. n \in Nat \ {0}
      BY <3>1 DEF FreePks
    <3>3. row' = [pk |-> n, response |-> Unanswered, age |-> 0]
      BY <3>1 DEF NoRow
    <3> QED
      BY <2>2, <3>1, <3>2, <3>3 DEF RetriesTyped
  <2> QED
    BY <2>1, <2>2
<1>3. ASSUME NEW t \in Threads, Lookup(t) PROVE Calm'
  <2>1. Exists /\ (Claimed => row.age < TTL)
    BY <1>3, <1>a DEF Lookup, Calm
  <2>2. (Claimed /\ Answers(t, Busy)) \/ (~Claimed /\ Answers(t, row.response))
    BY <1>3, <1>a, <2>1 DEF Lookup, RetriesTyped, Row
  <2>3. UNCHANGED <<row, acts>>
    BY <1>3 DEF Lookup
  <2> QED
    BY <1>3, <1>a, <2>1, <2>2, <2>3 DEF Lookup, Answers, Calm, Owns, Claimed, Exists, RetriesTyped, Busy
<1>4. ASSUME NEW t \in Threads, Run(t) PROVE Calm'
  BY <1>4, <1>a DEF Run, Act, Goes, Calm, Owns, Claimed, Exists, RetriesTyped
<1>5. ASSUME NEW t \in Threads, Store(t) PROVE Calm'
  <2>1. /\ thread[t].phase = "ran" /\ Owns(t) /\ Claimed /\ row.pk = thread[t].pk
        /\ \A u \in Threads : u # t => ~Owns(u)
    BY <1>5, <1>a DEF Store, Calm, Owns
  <2>2. row' = [row EXCEPT !.response = t]
    BY <1>5, <1>a, <2>1 DEF Store, Closing, UpdateRow
  <2>3. \A u \in Threads : answer[u] \notin Threads
    BY <1>a, <2>1 DEF Calm, Claimed
  <2>4. Exists' /\ ~Claimed' /\ row'.response = t
    BY <1>a, <2>1, <2>2 DEF RetriesTyped, Row, Claimed, Exists
  <2>5. Answers(t, t) /\ UNCHANGED acts
    BY <1>5 DEF Store
  <2> QED
    BY <1>a, <2>1, <2>3, <2>4, <2>5 DEF Answers, Calm, Owns, RetriesTyped
<1>6. ASSUME NEW t \in Threads, Resend(t) PROVE Calm'
  BY <1>6, <1>a DEF Resend, Goes, Calm, Owns, Claimed, Exists, RetriesTyped, Nobody
<1>7. ASSUME NEW t \in Threads, TakeOver(t) \/ RunBare(t) \/ Drop(t) \/ Die(t) PROVE FALSE
  BY <1>7, <1>a DEF TakeOver, RunBare, Drop, Die, Calm
<1>8. CASE UNCHANGED retryVars
  BY <1>8, <1>a DEF retryVars, Calm, Owns, Claimed, Exists
<1> QED
  BY <1>1, <1>2, <1>3, <1>4, <1>5, <1>6, <1>7, <1>8 DEF RetriesNext, Serve

LEMMA Invariance == RetriesSpec => []RetriesInv
<1>1. RetriesInit => RetriesInv
  BY IdempotencyAssumption DEF RetriesInit, RetriesInv, RetriesTyped, Row, NoRow, Phase, Calm, Owns, Claimed, Exists
<1>2. RetriesInv /\ [RetriesNext]_retryVars => RetriesInv'
  BY RetriesTypeStep, CalmStep DEF RetriesInv
<1> QED
  BY <1>1, <1>2, PTL DEF RetriesSpec

\* The wrapper's row, threads and answers are what they say they are, whatever fails.
THEOREM RetriesTypeCorrect == RetriesSpec => []RetriesTyped
<1>1. RetriesInv => RetriesTyped
  BY DEF RetriesInv
<1> QED
  BY <1>1, Invariance, PTL

\* With nothing failing, the view of a request that any number of threads serve takes
\* effect at most once.
THEOREM SentTwiceActsOnce == RetriesSpec => []ActsOnce
<1>1. RetriesInv => ActsOnce
  BY DEF RetriesInv, Calm, ActsOnce
<1> QED
  BY <1>1, Invariance, PTL

\* With nothing failing, all who are answered get the stored answer.
THEOREM RetriesAgree == RetriesSpec => []OneAnswer
<1>1. RetriesInv => OneAnswer
  BY DEF RetriesInv, Calm, OneAnswer
<1> QED
  BY <1>1, Invariance, PTL
=============================================================================

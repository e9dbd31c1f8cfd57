--------------------------------- MODULE Leave ---------------------------------
(***************************************************************************)
(* Leave: LeaveService. A request is held against the balance of the year   *)
(* it starts in when it is made and again, under locks, when it is          *)
(* approved; cancelling it gives its days back.                             *)
(***************************************************************************)
EXTENDS StaleReads, FiniteSetsExt

CONSTANTS
  Staff, LeaveTypes,
  Quotas, Carryovers,  \* annual_quota and max_carryover a type may be given
  YearOf,              \* the year of each day; its domain is the calendar
  Leaves,            \* bound: requests made
  MaxTypeEdits         \* bound: changes of leave types

ASSUME LeaveAssumption ==
  /\ Quotas \subseteq Nat /\ Carryovers \subseteq Nat /\ MaxTypeEdits \in Nat
  /\ DOMAIN YearOf \subseteq Nat /\ YearOf \in [DOMAIN YearOf -> Nat]
  \* A copy is of a request or of a balance.
  /\ Leaves \cap (Staff \X LeaveTypes \X Nat) = {}

VARIABLES
  leaveType, leave,
  balance,     \* LeaveBalance of an employee, a type and a year
  typeEdits

leaveVars == <<leaveType, leave, balance, typeEdits, copy, spoiled>>

Calendar == DOMAIN YearOf
Years == {YearOf[d] : d \in Calendar}
NoLeave == [is |-> "none"]
Type(quota, carry) == [is |-> "live", active |-> TRUE, quota |-> quota, carry |-> carry]
Allotted(quota, carried) == [is |-> "live", allocated |-> quota, used |-> 0, carried |-> carried]
Asked(e, t, from, to) ==
  [is |-> "live", who |-> e, type |-> t, from |-> from, to |-> to, days |-> to - from + 1,
   status |-> "PENDING", untracked |-> FALSE]
Accounts == Staff \X LeaveTypes \X Years

LeaveInit ==
  /\ leaveType = [t \in LeaveTypes |-> NoLeave]
  /\ leave = [r \in Leaves |-> NoLeave]
  /\ balance = [a \in Accounts |-> NoLeave]
  /\ typeEdits = 0
  /\ StaleInit

Account(q) == <<q.who, q.type, YearOf[q.from]>>
Remaining(b) == b.allocated + b.carried - b.used
Standing(q) == q.is = "live" /\ q.status \in {"PENDING", "APPROVED"}

\* Days may be taken: of the balance, or without one if the type has no quota.
Covered(days, t, b) ==
  IF b.is = "live" THEN days <= Remaining(b) ELSE leaveType[t].quota = 0

-----------------------------------------------------------------------------
CreateType(t, quota, carry) ==
  /\ leaveType[t].is = "none"
  /\ leaveType' = [leaveType EXCEPT ![t] = Type(quota, carry)]
  /\ UNCHANGED <<leave, balance, typeEdits, copy, spoiled>>
UpdateType(t, quota, active) ==
  /\ leaveType[t].is = "live" /\ typeEdits < MaxTypeEdits
  /\ leaveType' = [leaveType EXCEPT ![t].quota = quota, ![t].active = active]
  /\ typeEdits' = typeEdits + 1
  /\ UNCHANGED <<leave, balance, copy, spoiled>>
DeleteType(t) ==
  /\ leaveType[t].is = "live" /\ leaveType[t].active
  /\ leaveType' = [leaveType EXCEPT ![t].active = FALSE]
  /\ UNCHANGED <<leave, balance, typeEdits, copy, spoiled>>

\* initialize_annual_balances: every active type, with what may be carried over.
CarriedOver(a) ==
  LET last == <<a[1], a[2], a[3] - 1>>
  IN IF last \in Accounts /\ balance[last].is = "live"
       THEN Max({0, Min({Remaining(balance[last]), leaveType[a[2]].carry})})
       ELSE 0
InitializeBalances(year) ==
  LET new == {a \in Accounts : /\ a[3] = year /\ balance[a].is = "none"
                               /\ leaveType[a[2]].is = "live" /\ leaveType[a[2]].active}
  IN /\ new # {}
     /\ balance' = [a \in Accounts |->
          IF a \in new THEN Allotted(leaveType[a[2]].quota, CarriedOver(a)) ELSE balance[a]]
     /\ UNCHANGED <<leaveType, leave, typeEdits, copy, spoiled>>

-----------------------------------------------------------------------------
CreateRequest(r, e, t, from, to) ==
  /\ leave[r].is = "none" /\ leaveType[t].is = "live"
  /\ from <= to
  /\ \A q \in Leaves : Standing(leave[q]) /\ leave[q].who = e =>
       leave[q].to < from \/ to < leave[q].from
  /\ Covered(to - from + 1, t, balance[<<e, t, YearOf[from]>>])
  /\ leave' = [leave EXCEPT ![r] = Asked(e, t, from, to)]
  /\ UNCHANGED <<leaveType, balance, typeEdits, copy, spoiled>>

\* (mutant) the balance is not looked at again when the request is approved
ApproveUnchecked(r) ==
  /\ leave[r].is = "live" /\ leave[r].status = "PENDING"
  /\ LET a == Account(leave[r])
     IN /\ leave' = [leave EXCEPT ![r].status = "APPROVED", ![r].untracked = balance[a].is # "live"]
        /\ balance' = IF balance[a].is = "live"
                      THEN [balance EXCEPT ![a].used = @ + leave[r].days] ELSE balance
  /\ UNCHANGED <<leaveType, typeEdits, copy, spoiled>>
\* The request and its balance are locked, and looked at again; "untracked" records that
\* there was no balance to take the days from.
Approve(r) ==
  /\ leave[r].is = "live" /\ leave[r].status = "PENDING"
  /\ LET q == leave[r]
         a == Account(q)
     IN /\ Covered(q.days, q.type, balance[a])
        /\ leave' = [leave EXCEPT ![r].status = "APPROVED", ![r].untracked = balance[a].is # "live"]
        /\ balance' = IF balance[a].is = "live"
                      THEN [balance EXCEPT ![a].used = @ + q.days] ELSE balance
  /\ UNCHANGED <<leaveType, typeEdits, copy, spoiled>>

Reject(r, seen) ==
  /\ seen.is = "live" /\ seen.status = "PENDING"
  /\ leave' = [leave EXCEPT ![r].status = "REJECTED"]
  /\ Worked(r, leave[r], seen)
  /\ UNCHANGED <<leaveType, balance, typeEdits>>

\* Neither the request nor the balance is locked; the days go back to the balance that was read.
Cancel(r, seen, read) ==
  /\ Standing(seen)
  /\ leave' = [leave EXCEPT ![r].status = "CANCELED"]
  /\ LET a == Account(seen)
     IN IF seen.status = "APPROVED" /\ balance[a].is = "live"
          THEN /\ balance' = [balance EXCEPT ![a].used = Max({0, read.used - seen.days})]
               /\ IF seen # leave[r] THEN Worked(r, leave[r], seen)
                  ELSE Worked(a, balance[a], read)
          ELSE Worked(r, leave[r], seen) /\ UNCHANGED balance
  /\ UNCHANGED <<leaveType, typeEdits>>

ReadRequest(r) ==
  /\ leave[r].is = "live" /\ Fetch(r, leave[r])
  /\ UNCHANGED <<leaveType, leave, balance, typeEdits>>
ReadBalance(a) ==
  /\ balance[a].is = "live" /\ Fetch(a, balance[a])
  /\ UNCHANGED <<leaveType, leave, balance, typeEdits>>

LeaveNext ==
  \/ \E t \in LeaveTypes, quota \in Quotas :
       \/ \E carry \in Carryovers : CreateType(t, quota, carry)
       \/ \E active \in BOOLEAN : UpdateType(t, quota, active)
  \/ \E t \in LeaveTypes : DeleteType(t)
  \/ \E year \in Years : InitializeBalances(year)
  \/ \E r \in Leaves, e \in Staff, t \in LeaveTypes, from, to \in Calendar :
       CreateRequest(r, e, t, from, to)
  \/ \E r \in Leaves :
       \/ Approve(r)
       \/ ReadRequest(r)
       \/ \E seen \in Seen(r, leave[r]) :
            \/ Reject(r, seen)
            \/ /\ seen.is = "live"
               /\ \E read \in Seen(Account(seen), balance[Account(seen)]) : Cancel(r, seen, read)
  \/ \E a \in Accounts : ReadBalance(a)

-----------------------------------------------------------------------------
(* Properties                                                              *)

Against(a) == {r \in Leaves : leave[r].is = "live" /\ Account(leave[r]) = a}
Approved(r) == leave[r].status = "APPROVED"

\* A balance is charged with the days of the requests approved against it, and never with more
\* than there are, whatever order requests, approvals, cancellations and new years come in
\* (leave_service.py:363-364, "double-counting used_days"). Left out: balances of a request that
\* was approved while it had none, whose cancellation gives back what it never took.
LeaveBooks ==
  \A a \in Accounts :
    (balance[a].is = "live" /\ a \notin spoiled /\ Against(a) \cap spoiled = {}
      /\ \A r \in Against(a) : ~leave[r].untracked) =>
      /\ Remaining(balance[a]) >= 0
      /\ balance[a].used = SumFunction([r \in {r \in Against(a) : Approved(r)} |-> leave[r].days])
=============================================================================

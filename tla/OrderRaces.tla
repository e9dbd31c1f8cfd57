------------------------------ MODULE OrderRaces ------------------------------
(***************************************************************************)
(* The order services on PostgreSQL, READ COMMITTED, several gunicorn      *)
(* workers.  A handler that starts with get_for_update holds the order row *)
(* until it commits and stays one action of Orders.  Five handlers read    *)
(* the order without a lock; here a worker runs each of them in steps:     *)
(*                                                                         *)
(*   Read    fetch the order, keep it as a Python object, run the guards;  *)
(*   Write   change the line (its row lock is held from now on) and look   *)
(*           at the lines again: own write plus what others committed;     *)
(*   Commit  save the order's columns from the object and commit.          *)
(*                                                                         *)
(* A transaction may also end in Abort: a guard failed, a row it saves is  *)
(* gone, or PostgreSQL chose it as a deadlock victim.                      *)
(*                                                                         *)
(* An edit of the back office saves the total it summed up at Write.  When *)
(* somebody else changes a line before it commits, that total is late, and *)
(* the bill is torn: it lacks the other's line, or still has it.  Nothing  *)
(* in the code prevents that; late and torn keep track of it, so that the  *)
(* properties can say which bills it spoils, and when they are right again.*)
(***************************************************************************)
EXTENDS Orders

CONSTANTS
  Workers,     \* request threads running a handler that takes no lock
  OfficeWork,  \* how the back office works: it may "edit" lines or "save" orders in steps, edit
               \* with nobody at work but the tills ("pair"), do nothing ("none"), or meet nobody,
               \* with the kitchen and the tills ("alone")
  Crew,        \* bound: those of Workers at work, for each of OfficeWork
  OnSale       \* bound: how much of each item an order has, for each of OfficeWork

ASSUME RaceAssumption ==
  /\ Orders # {} /\ Items # {}
  /\ Crew \in [OfficeWork -> SUBSET Workers] /\ OnSale \in [OfficeWork -> [Items -> Nat]]

VARIABLES
  task,  \* what each of them has in flight
  duty,  \* which of OfficeWork the back office does, throughout
  late,  \* (history) those who wrote a line and then saw another of the order change
  torn   \* (history) the orders whose bill a late total, or an outdated object, was saved over

raceVars == <<vars, task, duty, late, torn>>

Editing == duty \in {"edit", "pair"}

Edits == {"update", "remove"}   \* they recalculate the total
Kind == Edits \cup {"mark", "unmark", "save"}
Idle == [phase |-> "idle", kind |-> "save", o |-> CHOOSE o \in Orders : TRUE,
         i |-> CHOOSE i \in Items : TRUE, q |-> 1, row |-> NewRow,
         lines |-> 0, ready |-> FALSE, empty |-> FALSE, total |-> 0]
Task == [phase : {"idle", "read", "wrote"}, kind : Kind, o : Orders, i : Items,
         q : 1..MaxQuantity, row : OrderRow, lines : 0..Cardinality(Items),
         ready : BOOLEAN, empty : BOOLEAN, total : Nat]

RaceTypeOK ==
  /\ TypeOK /\ task \in [Workers -> Task] /\ duty \in OfficeWork
  /\ late \in SUBSET Workers /\ torn \in SUBSET Orders

RaceInit ==
  /\ Init /\ task = [w \in Workers |-> Idle] /\ duty \in OfficeWork
  /\ late = {} /\ torn = {}

Lines(rows) == {i \in Items : IsLine(rows, i)}
Cooked(rows) == {i \in Lines(rows) : rows[i].ready}

\* Item rows whose uncommitted change locks them.
Held(o, i) == \E w \in Workers : task[w].phase = "wrote" /\ task[w].o = o /\ task[w].i = i

\* Of the object, what its handler will use: an edit of the lines its status only.
Kept(kind, o) == IF kind \in Edits THEN [NewRow EXCEPT !.status = order[o].status] ELSE order[o]
Fetched(w, kind, o, i, q) ==
  /\ task[w].phase = "idle" /\ Live(o)
  /\ task' = [task EXCEPT ![w] =
                [Idle EXCEPT !.phase = "read", !.kind = kind, !.o = o, !.i = i, !.q = q,
                             !.row = Kept(kind, o),
                             !.lines = IF kind = "mark" THEN Cardinality(Lines(item[o])) ELSE 0]]
  /\ UNCHANGED <<vars, duty, torn>>

ReadMark(w, o, i) ==
  /\ order[o].status \notin {"CANCELED", "READY"}
  /\ IsLine(item[o], i) /\ ~item[o][i].ready
  /\ Fetched(w, "mark", o, i, 1)
ReadUnmark(w, o, i) == order[o].status # "CANCELED" /\ Fetched(w, "unmark", o, i, 1)

ReadUpdate(w, o, i, q) ==
  /\ Editable(o, {"PREPARING", "OPEN"}) /\ IsLine(item[o], i) /\ Fetched(w, "update", o, i, q)
ReadRemove(w, o, i) ==
  /\ Editable(o, {"PREPARING", "OPEN"}) /\ IsLine(item[o], i) /\ Fetched(w, "remove", o, i, 1)
ReadSave(w, o) == Fetched(w, "save", o, CHOOSE i \in Items : TRUE, 1)

\* The lines as the transaction of task k sees them after its own change.
Changed(k) ==
  LET rows == item[k.o]
  IN CASE k.kind = "mark"   -> [rows EXCEPT ![k.i].ready = TRUE]
       [] k.kind = "unmark" -> [rows EXCEPT ![k.i].ready = FALSE]
       [] k.kind = "update" -> [rows EXCEPT ![k.i].quantity = k.q]
       [] k.kind = "remove" -> [rows EXCEPT ![k.i] = NoItems[k.i]]

\* items.count() is answered by the prefetched snapshot for a marked line and
\* by the database for a removed one; the ready count always by the database.
Write(w) ==
  LET k == task[w]
      rows == Changed(k)
      count == IF k.kind = "mark" THEN k.lines ELSE Cardinality(Lines(rows))
  IN /\ k.phase = "read" /\ k.kind # "save" /\ ~Held(k.o, k.i)
     /\ k.kind # "remove" => IsLine(item[k.o], k.i)
     /\ k.kind = "unmark" => item[k.o][k.i].ready
     /\ OrderTotal(rows) \in 0..MaxTotal
     /\ task' = [task EXCEPT ![w].phase = "wrote",
                             ![w].ready = k.kind \in {"mark", "remove"} /\ k.row.status # "READY"
                                          /\ count > 0 /\ count = Cardinality(Cooked(rows)),
                             ![w].empty = k.kind = "remove" /\ Lines(rows) = {},
                             ![w].total = OrderTotal(rows)]
     /\ UNCHANGED <<vars, duty, torn>>

\* (mutant) save() without update_fields writes the whole object back
SavedWholeRow(k) ==
  CASE k.kind = "mark" -> [k.row EXCEPT !.status = IF k.ready THEN "READY" ELSE @]
    [] k.kind = "unmark" -> k.row
    [] k.kind \in Edits -> [k.row EXCEPT !.total_amount = k.total]
\* Only the columns named in update_fields are saved.
Saved(k) ==
  LET r == order[k.o]
      s == IF k.ready THEN [r EXCEPT !.status = "READY", !.ready_at = TRUE] ELSE r
  IN CASE k.kind = "mark" -> s
       [] k.kind = "unmark" -> IF k.row.status = "READY"
                               THEN [r EXCEPT !.status = "PREPARING", !.ready_at = FALSE] ELSE r
       [] k.kind \in Edits -> [s EXCEPT !.total_amount = k.total]

Commit(w) ==
  LET k == task[w]
  IN /\ k.phase = "wrote" /\ (IsRow(k.o) \/ k.empty)
     /\ IF k.empty
        THEN /\ order' = [order EXCEPT ![k.o] = [NewRow EXCEPT !.status = "GONE"]]
             /\ item' = [item EXCEPT ![k.o] = NoItems]
             /\ payment' = [payment EXCEPT ![k.o] = NoPayments]
        ELSE /\ order' = [order EXCEPT ![k.o] = Saved(k)]
             /\ item' = [item EXCEPT ![k.o] = Changed(k)]
             /\ UNCHANGED payment
     /\ task' = [task EXCEPT ![w] = Idle]
     /\ torn' = IF k.kind \notin Edits THEN torn
                ELSE IF w \in late THEN torn \cup {k.o} ELSE torn \ {k.o}
     /\ UNCHANGED <<register, table, duty>>

\* AdminOrderService.update_order saves every column of the object it read; if
\* the row has gone meanwhile Django inserts it again.
CommitSave(w) ==
  /\ task[w].phase = "read" /\ task[w].kind = "save"
  /\ order' = [order EXCEPT ![task[w].o] = task[w].row]
  /\ task' = [task EXCEPT ![w] = Idle]
  /\ torn' = IF task[w].row = order[task[w].o] THEN torn ELSE torn \cup {task[w].o}
  /\ UNCHANGED <<item, payment, register, table, duty>>

Abort(w) ==
  /\ task[w].phase # "idle"
  /\ task' = [task EXCEPT ![w] = Idle]
  /\ UNCHANGED <<vars, duty, torn>>

Kitchen(w) ==
  duty # "pair" /\ \E o \in Orders, i \in Items : ReadMark(w, o, i) \/ ReadUnmark(w, o, i)
BackOffice(w) ==
  \E o \in Orders :
    \/ duty = "save" /\ ReadSave(w, o)
    \/ /\ Editing
       /\ \E i \in Items :
            \/ ReadRemove(w, o, i)
            \/ \E q \in 1..MaxQuantity : q <= OnSale[duty][i] /\ ReadUpdate(w, o, i, q)

\* A handler that would change a line someone else has locked waits.
NotBlocked == \A o \in Orders, i \in Items : Held(o, i) => item'[o][i] = item[o][i]

\* What locks the order and waits for locks; the back office's share of it is left out where it
\* does "none", or only edits.
LockedTill(o) == (Cashiers # {} /\ LockedCashier(o)) \/ \E w \in Waiters : LockedWaiter(w, o)
Serialized ==
  \E o \in Orders : (IF duty \in {"none", "pair"} THEN LockedTill(o) ELSE Locked(o)) /\ NotBlocked

\* A handler that takes no lock but meets nobody is one step, as in Orders.
Alone == duty = "alone" /\ \E o \in Orders : Unlocked(o)

Sold == \A o \in Orders, i \in Items : item'[o][i].quantity <= OnSale[duty][i]

\* The total of whoever has written a line of o is late once another line changes.
Rebilled(o) == \E i \in Items : item'[o][i].quantity # item[o][i].quantity
Overtakes ==
  late' = {w \in Workers : /\ task[w].phase = "wrote" /\ task'[w].phase = "wrote"
                           /\ w \in late \/ Rebilled(task[w].o)}

RaceNext ==
  /\ \/ /\ Serialized \/ Seating \/ Alone
        /\ torn' = {o \in torn : ~Rebilled(o)}
        /\ UNCHANGED <<task, duty>>
     \/ \E w \in Crew[duty] :
          \/ Kitchen(w)
          \/ BackOffice(w)
          \/ Write(w) \/ Commit(w) \/ CommitSave(w) \/ Abort(w)
  /\ Overtakes

RaceSpec == RaceInit /\ [][RaceNext /\ Sold]_raceVars

-----------------------------------------------------------------------------
(* Properties.                                                             *)

KeepsPayments ==
  \A o \in Orders :
    order[o].is_paid /\ ~order'[o].is_paid => order'[o].status = "GONE" \/ AdminMarkAsUnpaid(o)
KeepsTotals ==
  \A o \in Orders :
    order[o].is_paid /\ order'[o].is_paid => order'[o].total_amount = order[o].total_amount
KeepsLines ==
  \A o \in Orders, i \in Items :
    order[o].is_paid /\ order'[o].is_paid => item'[o][i].quantity = item[o][i].quantity

\* A payment sticks: only the admin's explicit unpay undoes it, so that no
\* interleaving of the other handlers lets a guest be charged twice.
PaymentSticks == [][KeepsPayments]_raceVars

\* The part of it that holds on PostgreSQL: line edits, unlocked as they are, save their own
\* columns and never undo a payment; saving a stale order object, which may, never changes what
\* a paid order contains; and without either, no interleaving changes the bill of an order that
\* stays paid.
Calm == duty \in {"none", "alone"}
PaidOrdersStand ==
  [][CASE duty = "save" -> KeepsLines
       [] Editing -> KeepsPayments
       [] OTHER -> KeepsPayments /\ KeepsTotals]_raceVars

\* What becomes of an update of the bill.  The tills and whoever adds lines lock the order, so
\* that the kitchen's marks, racing them, lose nothing.  The back office changes and removes
\* lines without a lock: its total may be late, and whoever overlaps with it loses an update.
\* But that is the only way to lose one, also for two removals at once, and it lasts only until
\* the lines are next edited, by anybody who is not late: any other order that is not paid
\* costs at any moment what its lines cost.
BillMatchesLines ==
  /\ Calm => torn = {}
  /\ \A o \in Orders \ torn :
       IsRow(o) /\ ~order[o].is_paid => order[o].total_amount = OrderTotal(item[o])
=============================================================================

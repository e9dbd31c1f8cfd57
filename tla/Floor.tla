--------------------------------- MODULE Floor ---------------------------------
(***************************************************************************)
(* The floor: places and their tables, as the back office edits them, and   *)
(* the waiters whose orders occupy tables.  A handler of the back office    *)
(* reads and checks, then saves, with no lock and no transaction around     *)
(* both; the waiter's order handlers are transactions.  Whether a place is  *)
(* active only sorts lists and is left out.                                 *)
(***************************************************************************)
EXTENDS Integers, FiniteSets

CONSTANTS
  FloorPlaces, FloorTables, Labels,   \* strings; a label is a name or a number
  Hosts,           \* requests of the back office
  Sittings,        \* orders that waiters take at tables
  MaxFloorDeeds    \* bound: edits of places and tables

ASSUME FloorAssumption ==
  /\ FloorPlaces # {} /\ FloorTables # {} /\ Labels # {} /\ MaxFloorDeeds \in Nat
  /\ FloorPlaces \cap FloorTables = {} /\ IsFiniteSet(Hosts)

VARIABLES
  place, table, sitting,
  host,        \* what a request is about to save
  saidBy,      \* who set a table's status last
  blank,       \* rows whose label was typed with blanks around it
  revived,     \* tables switched on in a place that was deleted
  stirred,     \* rows and labels that two requests were busy with at once
  rebuffed,    \* what the database refused
  floorDeeds

floorVars ==
  <<place, table, sitting, host, saidBy, blank, revived, stirred, rebuffed, floorDeeds>>

FirstPlace == CHOOSE p \in FloorPlaces : TRUE
FirstTable == CHOOSE t \in FloorTables : TRUE
FirstLabel == CHOOSE n \in Labels : TRUE
NoPlace == [is |-> "unused", name |-> FirstLabel]
NoTable == [is |-> "unused", in |-> FirstPlace, number |-> FirstLabel, on |-> TRUE,
            status |-> "AVAILABLE"]
NoDeed == [op |-> "none"]
TableStatus == {"AVAILABLE", "OCCUPIED"}    \* RESERVED and OUT_OF_SERVICE are as OCCUPIED

\* A place with one table.
FloorInit ==
  /\ place = [p \in FloorPlaces |-> [NoPlace EXCEPT !.is = IF p = FirstPlace THEN "live" ELSE @]]
  /\ table = [t \in FloorTables |-> [NoTable EXCEPT !.is = IF t = FirstTable THEN "live" ELSE @]]
  /\ sitting = [o \in Sittings |-> [is |-> "unused", at |-> FirstTable]]
  /\ host = [h \in Hosts |-> NoDeed]
  /\ saidBy = [t \in FloorTables |-> "nobody"]
  /\ blank = {} /\ revived = {} /\ stirred = {} /\ rebuffed = {} /\ floorDeeds = 0

InService(t) == table[t].is = "live"
TablesOf(p) == {t \in FloorTables : InService(t) /\ table[t].in = p}

-----------------------------------------------------------------------------
(* The back office reads and checks.                                       *)

Prepares(h, op, x, row, blanks) ==
  /\ host[h] = NoDeed /\ floorDeeds < MaxFloorDeeds
  /\ host' = [host EXCEPT ![h] = [op |-> op, x |-> x, row |-> row, blanks |-> blanks]]
  /\ floorDeeds' = floorDeeds + 1
  /\ UNCHANGED <<place, table, sitting, saidBy, blank, revived, rebuffed>>

\* The label is looked up as it was typed, and stored without the blanks around it.
NameExists(p, n, blanks) ==
  ~blanks /\ \E q \in FloorPlaces \ {p} : place[q].is = "live" /\ place[q].name = n
NumberExists(t, p, n, blanks) ==
  ~blanks /\ \E u \in TablesOf(p) \ {t} : table[u].number = n

CreatePlace(h, p, n, blanks) ==
  /\ place[p].is = "unused" /\ ~NameExists(p, n, blanks)
  /\ Prepares(h, "create", p, [is |-> "live", name |-> n], blanks)
UpdatePlace(h, p, n, blanks) ==
  /\ place[p].is = "live" /\ ~NameExists(p, n, blanks)
  /\ Prepares(h, "rename", p, [place[p] EXCEPT !.name = n], blanks)
\* (mutant) whatever tables there are
DeleteAnyPlace(h, p) == place[p].is = "live" /\ Prepares(h, "delete", p, place[p], FALSE)
DeletePlace(h, p) ==
  /\ place[p].is = "live" /\ \A t \in TablesOf(p) : ~table[t].on
  /\ Prepares(h, "delete", p, place[p], FALSE)

CreateTable(h, t, p, n, blanks) ==
  /\ table[t].is = "unused" /\ place[p].is = "live" /\ ~NumberExists(t, p, n, blanks)
  /\ Prepares(h, "create", t, [NoTable EXCEPT !.is = "live", !.in = p, !.number = n], blanks)
\* TableService.update with a number, with a place, or with is_active. Only a number is looked up.
RenumberTable(h, t, n, blanks) ==
  /\ InService(t) /\ ~NumberExists(t, table[t].in, n, blanks)
  /\ Prepares(h, "rename", t, [table[t] EXCEPT !.number = n], blanks)
MoveTable(h, t, p) ==
  /\ InService(t) /\ place[p].is = "live" /\ p # table[t].in
  /\ Prepares(h, "move", t, [table[t] EXCEPT !.in = p], FALSE)
SwitchTable(h, t) ==
  InService(t) /\ Prepares(h, "switch", t, [table[t] EXCEPT !.on = ~@], FALSE)
DeleteTable(h, t) == InService(t) /\ Prepares(h, "delete", t, table[t], FALSE)

-----------------------------------------------------------------------------
(* It saves: a delete one column, all else the whole row that was read.    *)

\* uniq_table_place_number_active
Clashes(d) ==
  /\ d.x \in FloorTables /\ d.op # "delete"
  /\ NumberExists(d.x, d.row.in, d.row.number, FALSE)
SaveFloor(h) ==
  LET d == host[h]
      Written(row) == IF d.op = "delete" THEN [row EXCEPT !.is = "dead"] ELSE d.row
  IN /\ d # NoDeed
     /\ host' = [host EXCEPT ![h] = NoDeed]
     /\ IF Clashes(d)
        THEN rebuffed' = rebuffed \cup {d} /\ UNCHANGED <<place, table, blank, revived>>
        ELSE /\ place' = [p \in FloorPlaces |-> IF p = d.x THEN Written(place[p]) ELSE place[p]]
             /\ table' = [t \in FloorTables |-> IF t = d.x THEN Written(table[t]) ELSE table[t]]
             /\ blank' = IF d.blanks THEN blank \cup {d.x} ELSE blank
             /\ revived' = revived \cup {t \in {d.x} \cap FloorTables :
                             d.op = "switch" /\ d.row.on /\ place[d.row.in].is # "live"}
             /\ UNCHANGED rebuffed
     /\ UNCHANGED <<sitting, saidBy, floorDeeds>>

-----------------------------------------------------------------------------
(* Waiters.                                                                *)

\* TableRepository.update_status: of a table that is not deleted.
SetStatus(t, status, who) ==
  /\ table' = IF InService(t) THEN [table EXCEPT ![t].status = status] ELSE table
  /\ saidBy' = IF InService(t) THEN [saidBy EXCEPT ![t] = who] ELSE saidBy
  /\ UNCHANGED <<place, host, blank, revived, rebuffed, floorDeeds>>

\* create_order takes any table, whatever its status.
SitDown(o, t) ==
  /\ sitting[o].is = "unused" /\ InService(t)
  /\ sitting' = [sitting EXCEPT ![o] = [is |-> "open", at |-> t]]
  /\ SetStatus(t, "OCCUPIED", "order")
\* Completed and paid: the table stays as it is.
GetUp(o) ==
  /\ sitting[o].is = "open"
  /\ sitting' = [sitting EXCEPT ![o].is = "over"]
  /\ UNCHANGED <<place, table, saidBy, host, blank, revived, rebuffed, floorDeeds>>
\* cancel_order, also of an order that is over, and remove_item of the last line.
CallOff(o) ==
  /\ sitting[o].is \in {"open", "over"}
  /\ sitting' = [sitting EXCEPT ![o].is = "off"]
  /\ SetStatus(sitting[o].at, "AVAILABLE", "called_off")
\* update_table_status by a waiter who serves the table.
UpdateTableStatus(t, status) ==
  /\ \E o \in Sittings : sitting[o].is = "open" /\ sitting[o].at = t
  /\ SetStatus(t, status, "hand") /\ UNCHANGED sitting
\* TableService.update_status of the back office.
SetTableStatus(t, status) ==
  InService(t) /\ SetStatus(t, status, "hand") /\ UNCHANGED sitting

-----------------------------------------------------------------------------
(* Rows and labels a request is busy with.                                 *)
Busy(d) ==
  IF d = NoDeed THEN {}
  ELSE {<<"row", d.x>>} \cup (IF d.x \in FloorPlaces THEN {<<"name", d.row.name>>}
                              ELSE {<<"row", d.row.in>>, <<d.row.in, d.row.number>>})
BusyWith(x) == {h \in Hosts : x \in Busy(host'[h])}

FloorStep ==
  \/ \E h \in Hosts, blanks \in BOOLEAN, n \in Labels :
       \/ \E p \in FloorPlaces : CreatePlace(h, p, n, blanks) \/ UpdatePlace(h, p, n, blanks)
       \/ \E t \in FloorTables, p \in FloorPlaces : CreateTable(h, t, p, n, blanks)
       \/ \E t \in FloorTables : RenumberTable(h, t, n, blanks)
  \/ \E h \in Hosts :
       \/ \E p \in FloorPlaces : DeletePlace(h, p)
       \/ \E t \in FloorTables, p \in FloorPlaces : MoveTable(h, t, p)
       \/ \E t \in FloorTables : SwitchTable(h, t) \/ DeleteTable(h, t)
       \/ SaveFloor(h)
  \/ \E o \in Sittings, t \in FloorTables : SitDown(o, t)
  \/ \E o \in Sittings : GetUp(o) \/ CallOff(o)
  \/ \E t \in FloorTables, status \in TableStatus :
       UpdateTableStatus(t, status) \/ SetTableStatus(t, status)
FloorNext ==
  /\ FloorStep
  /\ LET all == UNION {Busy(host'[h]) : h \in Hosts}
         seated == {<<"row", t>> : t \in {u \in FloorTables : saidBy'[u] # saidBy[u]}}
     IN stirred' = stirred \cup {x \in all : Cardinality(BusyWith(x)) > 1} \cup (all \cap seated)

-----------------------------------------------------------------------------
(* Properties                                                              *)

Stirred(t) == {<<"row", t>>, <<"row", table[t].in>>, <<table[t].in, table[t].number>>} \cap stirred # {}

\* Two places do not share a name (place_service.py:91), though nothing but the check before the
\* save prevents it, unless one was typed with blanks or two requests met.
NamesDiffer ==
  \A p, q \in FloorPlaces :
    p # q /\ place[p].is = "live" /\ place[q].is = "live" /\ place[p].name = place[q].name =>
      \/ {p, q} \cap blank # {}
      \/ {<<"row", p>>, <<"row", q>>, <<"name", place[p].name>>} \cap stirred # {}
\* A table that is switched on stands in a place that was not deleted (place_service.py:141),
\* unless it was switched on after.
TablesHavePlaces ==
  \A t \in FloorTables :
    InService(t) /\ table[t].on => place[table[t].in].is = "live" \/ t \in revived \/ Stirred(t)
\* The database refuses no number that the check let through, but of a table that moves.
NumbersAreChecked ==
  \A d \in rebuffed : d.op = "move" \/ d.blanks \/ Busy(d) \cap stirred # {}
\* Where guests sit a table is not shown as free, unless somebody said so by hand or called off
\* another order there (waiters/services/order_service.py:280, :515).
GuestsAreSeen ==
  \A o \in Sittings :
    LET t == sitting[o].at
    IN sitting[o].is = "open" /\ table[t].status = "AVAILABLE" =>
         saidBy[t] \in {"hand", "called_off"} \/ ~InService(t) \/ <<"row", t>> \in stirred
FloorStands == NamesDiffer /\ TablesHavePlaces /\ NumbersAreChecked /\ GuestsAreSeen
=============================================================================

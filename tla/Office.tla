-------------------------------- MODULE Office --------------------------------
(***************************************************************************)
(* What happens around the till: the components of the office, the notices, *)
(* the ordering chat, the licence, the sessions and the desktop program that *)
(* runs it all.  They share no rows but the copies that HR handlers have     *)
(* read, so a behaviour has a scene, the component that is at work in it,    *)
(* and the others stand still.                                             *)
(***************************************************************************)
EXTENDS Discounts, Payroll, Leave, Personnel, Fiscal, Licence, Notices, Carts,
        StockCatalogue, Accounts, Shell, Menu, Floor

VARIABLE scene

salaryVars == <<salary, item, expense, expenseCategory, till, ledger, cashDeeds>>
absenceVars == <<leaveType, leave, balance, typeEdits>>
staffVars == <<department, profile, contract, events, review, goal, paper, attendance, clock>>
chatVars == <<noticeVars, cartVars, loyaltyVars>>
officeVars == <<discountVars, salaryVars, absenceVars, staffVars, copy, spoiled>>
systemVars == <<fiscalVars, licenceVars, accountVars, shellVars, menuVars, floorVars>>
vars == <<scene, officeVars, systemVars, chatVars, catalogueVars>>

Scene ==
  {"discounts", "wages", "expenses", "leave", "offices", "contracts", "reviews", "fiscal", "licence",
   "notices", "carts", "loyalty", "shelves", "rooms", "trade", "dishes", "accounts", "shell", "menu", "floor"}

Init ==
  /\ scene \in Scene
  /\ DiscountsInit /\ PayrollInit /\ LeaveInit /\ PersonnelInit
  /\ FiscalInit /\ LicenceInit /\ AccountsInit /\ ShellInit /\ MenuInit /\ FloorInit
  /\ NoticesInit /\ CartsInit /\ LoyaltyInit /\ CatalogueInit
  /\ scene # "fiscal" => \A o \in Sales : sale[o].ticket = CHOOSE t \in Tickets : t.total > 0
  /\ scene # "licence" => row = Unregistered /\ ~apart
  /\ scene # "menu" => catalog = FirstMenu
  /\ scene # "accounts" => \A u \in Users : user[u].role \in Managing

-----------------------------------------------------------------------------
(* Bounds: of what makes a scene large, not all at once. Two sessions (the *)
(* second is opened after the first), two requests at once, an open user   *)
(* editor, a pull under way, a user who does not manage and an expired     *)
(* session: one of them at a time. Two calls at once are not met by a deed *)
(* of the install, by two caches, or by a provider that is off; two guests *)
(* with codes not by a change of the codes, and two handlers of carts not  *)
(* by one of the menu. The last edit of the menu meets nobody; with guests,*)
(* or a status set, the floor is edited once; an outdated copy is not met  *)
(* by a second deed among wages, nor by a change of a leave type; a scene  *)
(* ends when something happened to every note; and of items, units and     *)
(* stock on hand, not two of each.                                         *)

FirstSession == CHOOSE s \in Sessions : TRUE

Crowded ==
  LET many == IF AtMostOne({s \in Sessions : session[s].is # "unused"}) THEN 0 ELSE 1
      busy == IF AtMostOne({r \in Requests : request[r] # AtEase}) THEN 0 ELSE 1
      editing == IF \E c \in Clerks : edit[c] # AtEase THEN 1 ELSE 0
      roles == IF \E u \in Users : user[u].role \notin Managing THEN 1 ELSE 0
      late == IF expired = {} THEN 0 ELSE 1
      pulled == IF arriving = {} THEN 0 ELSE 1
  IN many + busy + editing + roles + late + pulled > 1
InTurn == \A s \in Sessions : session[s].is # "unused" => session[FirstSession].is # "unused"

CallsApart == licenceDeeds > 0 \/ apart => AtMostOne({c \in Threads : exchange[c] # Silent})
SalesApart == mode = "off" => AtMostOne({w \in Callers : call[w].on})
EditsApart == menuEdits = MaxMenuEdits => AtMostOne({e \in Desks : desk[e] # Free})
GuestsApart == (\E t \in FloorTables : saidBy[t] # "nobody") => floorDeeds <= 1
CodesApart == changes > 0 \/ form # Nobody => AtMostOne({g \in Guests : asked[g] # Nobody})
NoticesApart == excused # Notes
WagesApart == cashDeeds > 1 => copy = NoCopy
LeaveApart == typeEdits > 0 => copy = NoCopy /\ AtMostOne({r \in Leaves : leave[r].is = "live"})
CartsApart == menus > 0 => AtMostOne({h \in Handlers : hand[h] # AtRest})
ItemsApart == AtMostOne(held) /\ (Rows(stockItem) # StockItems \/ Rows(unit) # StockUnits)

-----------------------------------------------------------------------------
(* HR. Somebody is hired before there are contracts or reviews; of the      *)
(* deeds that Payroll bounds, one is enough among expenses.                 *)

Hired == \E p \in People : Employed(p)
Recruit == \E d \in Departments : SetDepartment(d, TRUE) \/ \E p \in People : Hire(p, d)

WagesScene ==
  /\ \/ scene = "wages" /\ WagesNext /\ WagesApart'
     \/ scene = "expenses" /\ (ExpensesNext \/ CashNext) /\ cashDeeds' <= 1
  /\ UNCHANGED <<discountVars, absenceVars, staffVars>>
LeaveScene ==
  /\ scene = "leave" /\ LeaveNext /\ LeaveApart'
  /\ UNCHANGED <<discountVars, salaryVars, staffVars>>
StaffScene ==
  /\ \/ scene = "offices" /\ (OfficesNext \/ TimesNext)
     \/ scene \in {"contracts", "reviews"} /\ ~Hired /\ Recruit
     \/ scene = "contracts" /\ Hired /\ ContractsNext
     \/ scene = "reviews" /\ Hired /\ ReviewsNext
  /\ UNCHANGED <<discountVars, salaryVars, absenceVars>>
DiscountsScene ==
  /\ scene = "discounts" /\ DiscountsNext /\ CodesApart'
  /\ UNCHANGED <<salaryVars, absenceVars, staffVars, copy, spoiled>>

-----------------------------------------------------------------------------
(* Catalogue of the stock. Items are there before offers, recipes and links.*)

Shelved == Rows(stockItem) = StockItems
Shelve ==
  LET u == CHOOSE u \in StockUnits : TRUE
  IN \/ \E t \in UnitTypes : CreateUnit(u, t, NoRow)
     \/ \E i \in StockItems : CreateItem(i, u, NoRow)

CatalogueScene ==
  \/ scene = "shelves" /\ ShelvesNext /\ ItemsApart' /\ UNCHANGED <<roomVars, tradeVars, dishVars>>
  \/ scene = "rooms" /\ RoomsNext /\ AtMostOne(held') /\ UNCHANGED <<shelfVars, tradeVars, dishVars>>
  \/ /\ scene \in {"trade", "dishes"} /\ ~Shelved /\ Shelve
     /\ UNCHANGED <<roomVars, tradeVars, dishVars, held>>
  \/ /\ scene = "trade" /\ Shelved /\ TradeNext
     /\ UNCHANGED <<shelfVars, roomVars, dishVars, held>>
  \/ /\ scene = "dishes" /\ Shelved /\ \E i \in StockItems : DeactivateItem(i)
     /\ UNCHANGED <<roomVars, tradeVars, dishVars, held>>
  \/ /\ scene = "dishes" /\ Shelved /\ DishesNext
     /\ UNCHANGED <<shelfVars, roomVars, tradeVars, held>>

-----------------------------------------------------------------------------
SystemScene ==
  \/ /\ scene = "fiscal" /\ FiscalNext /\ SalesApart'
     /\ UNCHANGED <<licenceVars, accountVars, shellVars, menuVars, floorVars>>
  \/ /\ scene = "licence" /\ LicenceNext /\ CallsApart'
     /\ UNCHANGED <<fiscalVars, accountVars, shellVars, menuVars, floorVars>>
  \/ /\ scene = "accounts" /\ AccountsNext /\ InTurn' /\ ~Crowded'
     /\ UNCHANGED <<fiscalVars, licenceVars, shellVars, menuVars, floorVars>>
  \/ /\ scene = "shell" /\ ShellNext
     /\ UNCHANGED <<fiscalVars, licenceVars, accountVars, menuVars, floorVars>>
  \/ /\ scene = "menu" /\ MenuNext /\ EditsApart'
     /\ UNCHANGED <<fiscalVars, licenceVars, accountVars, shellVars, floorVars>>
  \/ /\ scene = "floor" /\ FloorNext /\ GuestsApart'
     /\ UNCHANGED <<fiscalVars, licenceVars, accountVars, shellVars, menuVars>>

ChatScene ==
  \/ scene = "notices" /\ NoticesNext /\ NoticesApart' /\ UNCHANGED <<cartVars, loyaltyVars>>
  \/ scene = "carts" /\ CartsNext /\ CartsApart' /\ UNCHANGED <<noticeVars, loyaltyVars>>
  \/ scene = "loyalty" /\ LoyaltyNext /\ UNCHANGED <<noticeVars, cartVars>>

-----------------------------------------------------------------------------
Next ==
  /\ UNCHANGED scene
  /\ \/ /\ WagesScene \/ LeaveScene \/ StaffScene \/ DiscountsScene
        /\ UNCHANGED <<systemVars, chatVars, catalogueVars>>
     \/ SystemScene /\ UNCHANGED <<officeVars, chatVars, catalogueVars>>
     \/ ChatScene /\ UNCHANGED <<officeVars, systemVars, catalogueVars>>
     \/ CatalogueScene /\ UNCHANGED <<officeVars, systemVars, chatVars>>

Spec == Init /\ [][Next]_vars

\* What is offered and where it is served: menu and floor both stand.
HouseStands == MenuStands /\ FloorStands
=============================================================================

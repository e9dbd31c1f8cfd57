---------------------------- MODULE StockCatalogue ----------------------------
(***************************************************************************)
(* What the stock documents refer to: categories and locations (trees),     *)
(* units, items, suppliers and their offers, recipes and the links from     *)
(* products.  Every handler is one transaction.  Names, codes and numbers    *)
(* are unique by a check that refuses the request; a refused request changes *)
(* nothing, so they are left out.                                            *)
(***************************************************************************)
EXTENDS Integers, Sequences, FiniteSets, FiniteSetsExt

CONSTANTS
  StockCategories, StockLocations, StockUnits, StockItems, Suppliers, Recipes,
  Products, Links,   \* rows that may come to exist; Links bounds the links ever made
  UnitTypes,
  RowLists           \* lists of items a recipe or a product may be asked to be made of

NoRow == "no_row"

ASSUME CatalogueAssumption ==
  /\ IsFiniteSet(StockCategories) /\ IsFiniteSet(StockLocations)
  /\ NoRow \notin StockCategories \cup StockLocations \cup StockUnits /\ StockUnits # {}

VARIABLES
  category, unit, stockItem,   \* functions on the rows that exist
  location, defaultLocation,   \* StockLocation, StockSettings.default_location
  supplier, offer,             \* active suppliers or not; SupplierStockItem: preferred or not
  recipe, link,
  held                         \* the items and the locations with stock on hand (StockLevel)

shelfVars == <<category, unit, stockItem>>
roomVars == <<location, defaultLocation>>
tradeVars == <<supplier, offer>>
dishVars == <<recipe, link>>
catalogueVars == <<category, unit, stockItem, location, defaultLocation, supplier, offer,
                   recipe, link, held>>

Nothing == <<>>
\* What items or locations hold is moved by the stock documents (module Stock).
CatalogueInit ==
  /\ category = Nothing /\ unit = Nothing /\ stockItem = Nothing
  /\ location = Nothing /\ defaultLocation = NoRow
  /\ supplier = Nothing /\ offer = Nothing /\ recipe = Nothing /\ link = Nothing
  /\ held = {}

Rows(table) == DOMAIN table
Fresh(x, table) == x \notin Rows(table)
With(table, x, row) == [y \in Rows(table) \cup {x} |-> IF y = x THEN row ELSE table[y]]
Activated(table, x) == x \in Rows(table) /\ table[x].active
Retired(table, S) == [x \in Rows(table) |->
  IF x \in S THEN [table[x] EXCEPT !.active = FALSE] ELSE table[x]]

-----------------------------------------------------------------------------
(* Trees.                                                                  *)

\* Climbing from a row to its parent while there is one: the row and all above it.
Above(tree, x) ==
  LET climb[S \in SUBSET Rows(tree)] ==
        LET up == S \cup ({tree[y].parent : y \in S} \ {NoRow}) IN IF up = S THEN S ELSE climb[up]
  IN climb[{x}]
\* (mutant) only the row itself is refused, not what hangs below it
HangsElsewhere(tree, x, p) == p = NoRow \/ (p \in Rows(tree) /\ x # p)
\* A row is not put below itself.
MayHang(tree, x, p) == p = NoRow \/ (p \in Rows(tree) /\ x \notin Above(tree, p))
\* A new row may hang from an active one only, ...
MayGrow(tree, p) == p = NoRow \/ Activated(tree, p)

CreateCategory(c, p) ==
  /\ Fresh(c, category) /\ MayGrow(category, p)
  /\ category' = With(category, c, [active |-> TRUE, parent |-> p])
  /\ UNCHANGED <<unit, stockItem>>
\* ... but an update may hang it from an inactive one.
UpdateCategory(c, p) ==
  /\ c \in Rows(category) /\ MayHang(category, c, p)
  /\ category' = [category EXCEPT ![c].parent = p]
  /\ UNCHANGED <<unit, stockItem>>

ActiveChildren(c) == {d \in Rows(category) : category[d].parent = c /\ category[d].active}
ItemsIn(c) == {i \in Rows(stockItem) : stockItem[i].category = c}
HasActiveItems(c) == \E i \in ItemsIn(c) : stockItem[i].active
\* The categories a cascade reaches: from active child to active child.
Below(c) ==
  LET dig[S \in SUBSET Rows(category)] ==
        LET down == S \cup UNION {ActiveChildren(d) : d \in S}
        IN IF down = S THEN S ELSE dig[down]
  IN dig[{c}]
Emptied(gone) == [i \in Rows(stockItem) |->
  IF stockItem[i].category \in gone /\ HasActiveItems(stockItem[i].category)
  THEN [stockItem[i] EXCEPT !.category = NoRow] ELSE stockItem[i]]
DeactivateCategory(c, cascade) ==
  /\ c \in Rows(category)
  /\ cascade \/ (~HasActiveItems(c) /\ ActiveChildren(c) = {})
  /\ LET gone == IF cascade THEN Below(c) ELSE {c}
     IN category' = Retired(category, gone) /\ stockItem' = Emptied(gone)
  /\ UNCHANGED unit

-----------------------------------------------------------------------------
(* Units and items.                                                        *)

\* A type has one active base unit; a derived unit may name an inactive one.
CreateUnit(u, t, of) ==
  /\ Fresh(u, unit)
  /\ \/ of = NoRow /\ ~\E b \in Rows(unit) : unit[b].type = t /\ unit[b].of = NoRow /\ unit[b].active
     \/ of \in Rows(unit) /\ unit[of].type = t /\ unit[of].of = NoRow
  /\ unit' = With(unit, u, [type |-> t, of |-> of, active |-> TRUE])
  /\ UNCHANGED <<category, stockItem>>
Measured(u) == {i \in Rows(stockItem) : stockItem[i].unit = u}
DeactivateUnit(u) ==
  /\ u \in Rows(unit) /\ Measured(u) = {}
  /\ ~\E d \in Rows(unit) : unit[d].of = u /\ unit[d].active
  /\ unit' = Retired(unit, {u})
  /\ UNCHANGED <<category, stockItem>>

\* An item that has been moved keeps its unit.
CreateItem(i, u, c) ==
  /\ Fresh(i, stockItem) /\ Activated(unit, u) /\ MayGrow(category, c)
  /\ stockItem' = With(stockItem, i, [unit |-> u, category |-> c, active |-> TRUE, moved |-> FALSE])
  /\ UNCHANGED <<category, unit>>
UpdateItem(i, u, c) ==
  /\ i \in Rows(stockItem)
  /\ u # stockItem[i].unit => Activated(unit, u) /\ ~stockItem[i].moved
  /\ c \in {NoRow, stockItem[i].category} \/ Activated(category, c)
  /\ stockItem' = [stockItem EXCEPT ![i].unit = u, ![i].category = c]
  /\ UNCHANGED <<category, unit>>
DeactivateItem(i) ==
  /\ i \in Rows(stockItem) /\ i \notin held
  /\ stockItem' = Retired(stockItem, {i})
  /\ UNCHANGED <<category, unit>>

\* A movement of module Stock: the item has transactions from then on.
StockMoves(i) ==
  /\ i \in Rows(stockItem)
  /\ stockItem' = [stockItem EXCEPT ![i].moved = TRUE]
  /\ held' \in {held \cup {i}, held \ {i}}
  /\ UNCHANGED <<category, unit>>

ShelvesNext ==
  \/ \E i \in StockItems : StockMoves(i)
  \/ /\ UNCHANGED held
     /\ \/ \E c \in StockCategories, p \in StockCategories \cup {NoRow} :
             CreateCategory(c, p) \/ UpdateCategory(c, p)
        \/ \E c \in StockCategories, cascade \in BOOLEAN : DeactivateCategory(c, cascade)
        \/ \E u \in StockUnits, t \in UnitTypes, of \in StockUnits \cup {NoRow} : CreateUnit(u, t, of)
        \/ \E u \in StockUnits : DeactivateUnit(u)
        \/ \E i \in StockItems, u \in StockUnits, c \in StockCategories \cup {NoRow} :
             CreateItem(i, u, c) \/ UpdateItem(i, u, c)
        \/ \E i \in StockItems : DeactivateItem(i)

-----------------------------------------------------------------------------
(* Locations.                                                              *)

Cleared(l) == [m \in Rows(location) |->
  IF m = l THEN location[m] ELSE [location[m] EXCEPT !.default = FALSE]]

CreateLocation(l, p, default) ==
  /\ Fresh(l, location) /\ MayGrow(location, p)
  /\ location' = With(IF default THEN Cleared(NoRow) ELSE location,
                      l, [active |-> TRUE, parent |-> p, default |-> default])
  /\ UNCHANGED <<defaultLocation, held>>
\* An update may name any location the default, or take the flag away and leave none.
UpdateLocation(l, p, default) ==
  /\ l \in Rows(location) /\ MayHang(location, l, p)
  /\ location' = [(IF default THEN Cleared(l) ELSE location)
                    EXCEPT ![l].parent = p, ![l].default = default]
  /\ UNCHANGED <<defaultLocation, held>>
\* The children go with it, whatever they hold and whichever is the default.
DeactivateLocation(l) ==
  /\ l \in Rows(location) /\ l \notin held /\ ~location[l].default
  /\ location' = Retired(location, {l} \cup {m \in Rows(location) : location[m].parent = l})
  /\ UNCHANGED <<defaultLocation, held>>
SetDefaultLocation(l) ==
  /\ Activated(location, l)
  /\ location' = [Cleared(l) EXCEPT ![l].default = TRUE]
  /\ defaultLocation' = l
  /\ UNCHANGED held
\* Module Stock puts goods somewhere, or takes the last away.
RoomFills(l) ==
  /\ l \in Rows(location)
  /\ held' \in {held \cup {l}, held \ {l}}
  /\ UNCHANGED <<location, defaultLocation>>

RoomsNext ==
  \E l \in StockLocations :
    \/ \E p \in StockLocations \cup {NoRow}, default \in BOOLEAN :
         CreateLocation(l, p, default) \/ UpdateLocation(l, p, default)
    \/ DeactivateLocation(l) \/ SetDefaultLocation(l) \/ RoomFills(l)

-----------------------------------------------------------------------------
(* Suppliers.                                                              *)

CreateSupplier(s) ==
  /\ Fresh(s, supplier)
  /\ supplier' = With(supplier, s, [active |-> TRUE])
  /\ UNCHANGED offer
\* Refused while an order to the supplier is open; that is a choice here.
DeactivateSupplier(s) ==
  /\ s \in Rows(supplier)
  /\ supplier' = Retired(supplier, {s})
  /\ UNCHANGED offer
NotPreferred(i) == [x \in Rows(offer) |-> IF x[2] = i THEN FALSE ELSE offer[x]]
AddOffer(s, i, preferred) ==
  /\ Activated(supplier, s) /\ i \in Rows(stockItem) /\ Fresh(<<s, i>>, offer)
  /\ offer' = With(IF preferred THEN NotPreferred(i) ELSE offer, <<s, i>>, preferred)
  /\ UNCHANGED supplier

TradeNext ==
  \E s \in Suppliers :
    \/ CreateSupplier(s) \/ DeactivateSupplier(s)
    \/ \E i \in StockItems, preferred \in BOOLEAN : AddOffer(s, i, preferred)

-----------------------------------------------------------------------------
(* Recipes and links.                                                      *)

\* The lines a request makes before the first that is refused: nothing rolls back what
\* an error is returned after, so the half that was made stays.
Made(list, accepted) ==
  LET good == {n \in 0 .. Len(list) : \A k \in 1 .. n : list[k] \in accepted} IN SubSeq(list, 1, Max(good))
Line(i) == [item |-> i, live |-> TRUE]
Lines(list) == [k \in 1 .. Len(list) |-> Line(list[k])]
KnownItems == Rows(stockItem)
ActiveItems == {i \in KnownItems : Activated(stockItem, i)}

CreateRecipe(r, list) ==
  /\ Fresh(r, recipe)
  /\ recipe' = With(recipe, r, [active |-> TRUE, lines |-> Lines(Made(list, KnownItems))])
  /\ UNCHANGED link
AddIngredient(r, i) ==
  /\ r \in Rows(recipe) /\ i \in KnownItems /\ Len(recipe[r].lines) < Cardinality(StockItems)   \* bound
  /\ recipe' = [recipe EXCEPT ![r].lines = Append(@, Line(i))]
  /\ UNCHANGED link
LiveLine(r, k) == r \in Rows(recipe) /\ k \in DOMAIN recipe[r].lines /\ recipe[r].lines[k].live
UpdateIngredient(r, k, i) ==
  /\ LiveLine(r, k) /\ i \in KnownItems
  /\ recipe' = [recipe EXCEPT ![r].lines[k].item = i]
  /\ UNCHANGED link
\* The row of a removed ingredient is only marked.
RemoveIngredient(r, k) ==
  /\ LiveLine(r, k)
  /\ recipe' = [recipe EXCEPT ![r].lines[k].live = FALSE]
  /\ UNCHANGED link
DeactivateRecipe(r) ==
  /\ r \in Rows(recipe)
  /\ recipe' = Retired(recipe, {r})
  /\ UNCHANGED link

\* A product has one link row in its life: the row of a removed link is only marked and
\* still holds its unique product.
LiveLinks(p) == {l \in Rows(link) : link[l].product = p /\ link[l].live}
MayLink(l, p) == Fresh(l, link) /\ LiveLinks(p) = {} /\ ~\E m \in Rows(link) : link[m].product = p
NewLink(l, p, of) ==
  link' = With(link, l, [product |-> p, of |-> of, active |-> TRUE, live |-> TRUE])
LinkToRecipe(l, p, r) ==
  MayLink(l, p) /\ Activated(recipe, r) /\ NewLink(l, p, r) /\ UNCHANGED recipe
LinkToItem(l, p, i) ==
  MayLink(l, p) /\ i \in ActiveItems /\ NewLink(l, p, <<i>>) /\ UNCHANGED recipe
LinkWithComponents(l, p, list) ==
  MayLink(l, p) /\ list # <<>> /\ NewLink(l, p, Made(list, ActiveItems)) /\ UNCHANGED recipe
UpdateLink(l, active) ==
  /\ l \in Rows(link) /\ link[l].live
  /\ link' = [link EXCEPT ![l].active = active]
  /\ UNCHANGED recipe
Unlink(p) ==
  \E l \in LiveLinks(p) : link' = [link EXCEPT ![l].live = FALSE] /\ UNCHANGED recipe

DishesNext ==
  \/ \E r \in Recipes :
       \/ \E list \in RowLists : CreateRecipe(r, list)
       \/ DeactivateRecipe(r)
       \/ \E i \in StockItems : AddIngredient(r, i)
       \/ \E k \in 1 .. Cardinality(StockItems) :
            RemoveIngredient(r, k) \/ \E i \in StockItems : UpdateIngredient(r, k, i)
  \/ \E l \in Links :
       \/ \E p \in Products :
            \/ \E r \in Recipes : LinkToRecipe(l, p, r)
            \/ \E i \in StockItems : LinkToItem(l, p, i)
            \/ \E list \in RowLists : LinkWithComponents(l, p, list)
       \/ \E active \in BOOLEAN : UpdateLink(l, active)
  \/ \E p \in Products : Unlink(p)

-----------------------------------------------------------------------------
(* Properties.                                                             *)

\* However categories and locations are hung elsewhere, climbing from a row comes to an
\* end: no rows are all below one another.  The cascade, which climbs down, ends too.
TreesHaveRoots ==
  \A tree \in {category, location} :
    \A S \in (SUBSET Rows(tree)) \ {{}} : \E x \in S : tree[x].parent \notin S

\* Retiring units and categories, through cascades as well, never leaves an item that is
\* in use without a unit that is, or in a category that is not.
ItemsAreHoused ==
  \A i \in Rows(stockItem) : stockItem[i].active =>
    /\ Activated(unit, stockItem[i].unit)
    /\ stockItem[i].category # NoRow => Activated(category, stockItem[i].category)

\* Whoever sets them last, and by whichever request: at most one default location, one
\* preferred supplier of an item, one base unit of a type, one link of a product.
AtMostOne(S) == Cardinality(S) <= 1
OneOfEach ==
  /\ AtMostOne({l \in Rows(location) : location[l].default})
  /\ \A i \in StockItems : AtMostOne({x \in Rows(offer) : x[2] = i /\ offer[x]})
  /\ \A t \in UnitTypes :
       AtMostOne({u \in Rows(unit) : unit[u].type = t /\ unit[u].of = NoRow /\ unit[u].active})
  /\ \A p \in Products : AtMostOne(LiveLinks(p))

\* The three together: what the stock documents may count on.
CatalogueStands == TreesHaveRoots /\ ItemsAreHoused /\ OneOfEach
=============================================================================

--------------------------------- MODULE Menu ---------------------------------
(***************************************************************************)
(* The menu: its categories and products, as the back office edits them and *)
(* as the cached lookups show them.  No handler is one transaction: it      *)
(* reads and checks, saves, drops the cached lookups, and the view audits a *)
(* new price, while others do the same.                                     *)
(***************************************************************************)
EXTENDS Integers, FiniteSets

CONSTANTS
  MenuCategories, MenuProducts, MenuPrices, Slugs,
  Editors,      \* requests of the back office
  Viewers,      \* requests of tills and back office that look something up
  MaxMenuEdits  \* bound

ASSUME MenuAssumption ==
  /\ 0 \notin MenuPrices /\ 0 \notin Slugs /\ MaxMenuEdits \in Nat
  /\ MenuCategories # {} /\ MenuPrices # {} /\ Slugs # {} /\ MenuCategories \cap MenuProducts = {}
  /\ "active_list" \notin MenuCategories \cup MenuProducts /\ IsFiniteSet(Editors \cup Viewers)

VARIABLES
  catalog,       \* the rows of both tables
  shown,      \* what the cache answers to a lookup: nothing, or one value
  desk,       \* what a request is in the middle of
  audited,    \* of a product: the price the audit log ends with
  menuEdits,
  disturbed,  \* rows and lookups that two requests were in the middle of at once, or one died in
  refused,    \* what the saves that the database refused were about
  renamed     \* products not looked up since the slug of their category changed

menuVars == <<catalog, shown, desk, audited, menuEdits, disturbed, refused, renamed>>

MenuRows == MenuCategories \cup MenuProducts
ActiveList == "active_list"
Lookups == MenuProducts \cup {ActiveList}
Desks == Editors \cup Viewers

NoMenuRow == [is |-> "unused", slug |-> 0, on |-> TRUE, in |-> {}, price |-> 0]
Free == [pc |-> "free", op |-> "none", x |-> ActiveList, row |-> NoMenuRow, old |-> 0, found |-> {}]

\* Nothing yet, or a category with all products, and others with its slug that were deleted.
FirstMenu ==
  LET c == CHOOSE c \in MenuCategories : TRUE
      row == [NoMenuRow EXCEPT !.is = "live"]
      slug == CHOOSE s \in Slugs : TRUE
  IN [x \in MenuRows |->
        IF x \in MenuProducts THEN [row EXCEPT !.in = {c}, !.price = CHOOSE q \in MenuPrices : TRUE]
        ELSE [row EXCEPT !.is = IF x = c THEN "live" ELSE "dead", !.slug = slug]]
MenuInit ==
  /\ catalog \in {[x \in MenuRows |-> NoMenuRow], FirstMenu}
  /\ shown = [l \in Lookups |-> {}]
  /\ desk = [e \in Desks |-> Free]
  /\ audited = [p \in MenuProducts |-> catalog[p].price]
  /\ menuEdits = 0 /\ disturbed = {} /\ refused = {} /\ renamed = {}

IsLive(x) == catalog[x].is = "live"
\* Rows that get_by_id, and get_by_id_include_deleted, find.
Found(x) == catalog[x].is \in {"live", "dead"}
ProductsIn(c) == {p \in MenuProducts : IsLive(p) /\ c \in catalog[p].in}
\* The slugs that slug_exists does not find at another row.
FreeSlugs(x) == Slugs \ {catalog[c].slug : c \in {k \in MenuCategories \ {x} : IsLive(k)}}

-----------------------------------------------------------------------------
(* What a handler reads and checks before it saves.                        *)

Starts(e, op, x, row) ==
  /\ desk[e] = Free /\ menuEdits < MaxMenuEdits /\ menuEdits' = menuEdits + 1
  /\ desk' = [desk EXCEPT ![e] = [Free EXCEPT !.pc = "save", !.op = op, !.x = x, !.row = row]]
  /\ UNCHANGED <<catalog, shown, audited, refused, renamed>>

CreateMenuCategory(e, c, s) ==
  /\ catalog[c] = NoMenuRow /\ s \in FreeSlugs(c)
  /\ Starts(e, "create", c, [NoMenuRow EXCEPT !.is = "live", !.slug = s])
UpdateMenuCategory(e, c, s, on) ==
  /\ IsLive(c) /\ s \in FreeSlugs(c)
  /\ Starts(e, "update", c, [catalog[c] EXCEPT !.slug = s, !.on = on])
DeleteMenuCategory(e, c) == IsLive(c) /\ ProductsIn(c) = {} /\ Starts(e, "delete", c, catalog[c])
EraseMenuCategory(e, c) == Found(c) /\ ProductsIn(c) = {} /\ Starts(e, "erase", c, catalog[c])
\* A slug that is in use by now is replaced.
RestoreMenuCategory(e, c, s) ==
  /\ catalog[c].is = "dead" /\ s \in FreeSlugs(c)
  /\ catalog[c].slug \in FreeSlugs(c) => s = catalog[c].slug
  /\ Starts(e, "restore", c, [catalog[c] EXCEPT !.is = "live", !.slug = s])
ToggleMenuCategory(e, c) == IsLive(c) /\ Starts(e, "switch", c, [catalog[c] EXCEPT !.on = ~@])
\* These do not look before they save, but bulk_delete for products.
SetCategoryStatus(e, c, on) == IsLive(c) /\ Starts(e, "status", c, [catalog[c] EXCEPT !.on = on])
BulkDelete(e, x) == IsLive(x) /\ ProductsIn(x) = {} /\ Starts(e, "bulk", x, catalog[x])

CreateProduct(e, p, c, price) ==
  /\ catalog[p] = NoMenuRow /\ IsLive(c)
  /\ Starts(e, "create", p, [NoMenuRow EXCEPT !.is = "live", !.in = {c}, !.price = price])
MoveProduct(e, p, c) ==
  /\ IsLive(p) /\ IsLive(c) /\ Starts(e, "update", p, [catalog[p] EXCEPT !.in = {c}])
DeleteProduct(e, p) == IsLive(p) /\ Starts(e, "delete", p, catalog[p])
EraseProduct(e, p) == Found(p) /\ Starts(e, "erase", p, catalog[p])
RestoreProduct(e, p) ==
  catalog[p].is = "dead" /\ Starts(e, "restore", p, [catalog[p] EXCEPT !.is = "live"])

\* The view of a new price first looks which one it replaces.
OpenPrice(e, p, price) ==
  /\ desk[e] = Free /\ menuEdits < MaxMenuEdits /\ menuEdits' = menuEdits + 1 /\ IsLive(p)
  /\ desk' = [desk EXCEPT ![e] = [Free EXCEPT !.pc = "read", !.op = "price", !.x = p,
                                              !.row.price = price, !.old = catalog[p].price]]
  /\ UNCHANGED <<catalog, shown, audited, refused, renamed>>
PriceProduct(e) ==
  LET d == desk[e]
  IN /\ d.pc = "read"
     /\ desk' = [desk EXCEPT ![e] = IF ~IsLive(d.x) THEN Free
                                    ELSE [d EXCEPT !.pc = "save",
                                                   !.row = [catalog[d.x] EXCEPT !.price = d.row.price]]]
     /\ UNCHANGED <<catalog, shown, audited, menuEdits, refused, renamed>>

\* Rows and lookups that a request has to do with.
Touches(d) ==
  CASE d.pc = "free" -> {}
    [] d.pc = "fill" -> {d.x}
    [] OTHER -> {d.x} \cup d.row.in \cup IF d.x \in MenuCategories THEN {ActiveList} ELSE {}

-----------------------------------------------------------------------------
(* Saving.                                                                 *)

\* A whole row is written, and inserted again when it has gone; other saves write one column.
WholeRow(d) == d.op \in {"create", "update", "price", "restore"}
SavedRow(d) ==
  CASE WholeRow(d) -> d.row
    [] d.op \in {"switch", "status"} -> [catalog[d.x] EXCEPT !.on = d.row.on]
    [] d.op \in {"delete", "bulk"} -> [catalog[d.x] EXCEPT !.is = "dead"]
    [] d.op = "erase" -> [catalog[d.x] EXCEPT !.is = "gone"]
\* A live slug is unique, a product has a category, and one column of no row cannot be saved.
Refuses(d) ==
  \/ WholeRow(d) /\ d.x \in MenuCategories /\ d.row.is = "live" /\ d.row.slug \notin FreeSlugs(d.x)
  \/ \E c \in d.row.in : WholeRow(d) /\ catalog[c].is = "gone"
  \/ d.op \in {"delete", "switch"} /\ ~Found(d.x)
\* A query that finds no row writes none.
Misses(d) ==
  \/ d.op \in {"status", "bulk"} /\ ~IsLive(d.x)
  \/ d.op = "erase" /\ ~Found(d.x)
\* With a category that is deleted for good go all its products.
SaveMenuRow(e) ==
  LET d == desk[e]
      lost == {p \in MenuProducts : d.op = "erase" /\ d.x \in catalog[p].in}
  IN /\ d.pc = "save"
     /\ IF Refuses(d)
        THEN /\ refused' = refused \cup {Touches(d)} /\ desk' = [desk EXCEPT ![e] = Free]
             /\ UNCHANGED <<catalog, audited, renamed>>
        ELSE /\ catalog' = [x \in MenuRows |->
                           CASE x = d.x /\ ~Misses(d) -> SavedRow(d)
                             [] x \in lost /\ Found(x) -> [catalog[x] EXCEPT !.is = "gone"]
                             [] OTHER -> catalog[x]]
             /\ audited' = [p \in MenuProducts |->
                              IF p = d.x /\ d.op = "create" THEN d.row.price ELSE audited[p]]
             /\ renamed' = renamed \cup
                  {p \in MenuProducts : \E c \in catalog[p].in : catalog'[c].slug # catalog[c].slug}
             /\ desk' = [desk EXCEPT ![e].pc = "drop"] /\ UNCHANGED refused
     /\ UNCHANGED <<shown, menuEdits>>

AfterDrop(e) ==
  /\ desk[e].pc = "drop"
  /\ desk' = [desk EXCEPT ![e] = IF @.op = "price" THEN [@ EXCEPT !.pc = "note"] ELSE Free]
  /\ UNCHANGED <<catalog, audited, menuEdits, refused, renamed>>
\* (mutant) the cache is left to expire
DropNothing(e) == AfterDrop(e) /\ UNCHANGED shown
\* invalidate_cache starts a new version of all keys of its own table.
DropCache(e) ==
  /\ AfterDrop(e)
  /\ LET stale == IF desk[e].x \in MenuCategories THEN {ActiveList} ELSE MenuProducts
     IN shown' = [l \in Lookups |-> IF l \in stale THEN {} ELSE shown[l]]
NotePrice(e) ==
  LET d == desk[e]
  IN /\ d.pc = "note"
     /\ audited' = [audited EXCEPT ![d.x] = IF d.old = d.row.price THEN @ ELSE d.row.price]
     /\ desk' = [desk EXCEPT ![e] = Free]
     /\ UNCHANGED <<catalog, shown, menuEdits, refused, renamed>>

-----------------------------------------------------------------------------
(* Looking up.                                                             *)

\* A product is read, and kept, together with its category, which tells its slug.
Joined(p) == {[catalog[p] EXCEPT !.slug = catalog[c].slug] : c \in catalog[p].in}
Current(l) ==
  IF l = ActiveList THEN {{c \in MenuCategories : IsLive(c) /\ catalog[c].on}}
  ELSE UNION {Joined(p) : p \in {l} \cap {q \in MenuProducts : IsLive(q)}}
\* What is not in the cache is read, and put under the version of the moment it is put.
LookUp(v, l) ==
  /\ desk[v] = Free /\ shown[l] = {} /\ Current(l) # {}
  /\ desk' = [desk EXCEPT ![v] = [Free EXCEPT !.pc = "fill", !.x = l, !.found = Current(l)]]
  /\ renamed' = renamed \ {l}
  /\ UNCHANGED <<catalog, shown, audited, menuEdits, refused>>
PutFound(v) ==
  /\ desk[v].pc = "fill"
  /\ shown' = [shown EXCEPT ![desk[v].x] = desk[v].found]
  /\ desk' = [desk EXCEPT ![v] = Free]
  /\ UNCHANGED <<catalog, audited, menuEdits, refused, renamed>>

-----------------------------------------------------------------------------
Contended(desks) ==
  {x \in MenuRows \cup {ActiveList} : Cardinality({e \in Desks : x \in Touches(desks[e])}) > 1}

\* A request dies with its process; what it saved stays.
RequestDies(e) ==
  /\ desk[e].pc \in {"drop", "note"}
  /\ desk' = [desk EXCEPT ![e] = Free]
  /\ UNCHANGED <<catalog, shown, audited, menuEdits, refused, renamed>>

MenuStep ==
  \/ \E e \in Editors :
       \/ \E c \in MenuCategories :
            \/ \E s \in Slugs : CreateMenuCategory(e, c, s) \/ RestoreMenuCategory(e, c, s)
            \/ \E s \in Slugs, on \in BOOLEAN : UpdateMenuCategory(e, c, s, on)
            \/ \E on \in BOOLEAN : SetCategoryStatus(e, c, on)
            \/ DeleteMenuCategory(e, c) \/ EraseMenuCategory(e, c) \/ ToggleMenuCategory(e, c)
            \/ \E p \in MenuProducts : MoveProduct(e, p, c)
            \/ \E p \in MenuProducts, price \in MenuPrices : CreateProduct(e, p, c, price)
       \/ \E x \in MenuRows : BulkDelete(e, x)
       \/ \E p \in MenuProducts :
            \/ DeleteProduct(e, p) \/ EraseProduct(e, p) \/ RestoreProduct(e, p)
            \/ \E price \in MenuPrices : OpenPrice(e, p, price)
       \/ PriceProduct(e) \/ SaveMenuRow(e) \/ DropCache(e) \/ NotePrice(e)
  \/ \E v \in Viewers : PutFound(v) \/ \E l \in Lookups : LookUp(v, l)
MenuNext ==
  \/ MenuStep /\ disturbed' = disturbed \cup Contended(desk')
  \/ \E e \in Editors : RequestDies(e) /\ disturbed' = disturbed \cup Touches(desk[e])

-----------------------------------------------------------------------------
(* Properties                                                              *)

In(x, pcs) == \E e \in Editors : x \in Touches(desk[e]) /\ desk[e].pc \in pcs

Own(found) == {[x EXCEPT !.slug = 0] : x \in found}

\* A lookup shows what is in the database, or its cached answer is about to be dropped; but a
\* save of a category drops no product: one whose category was renamed is shown with its own
\* columns as they are and the old name of the category, and one that went with its category
\* is shown still.
ShownIsCurrent ==
  \A l \in Lookups :
    \/ shown[l] \in {{}, Current(l)} \/ l \in disturbed \/ In(l, {"drop"})
    \/ l \in renamed /\ Own(shown[l]) = Own(Current(l))
    \/ \E p \in {l} \cap MenuProducts, c \in MenuCategories :
         /\ catalog[p].is = "gone" /\ c \in catalog[p].in
         /\ catalog[c].is = "gone" \/ c \in disturbed
\* A price is the one that the audit log ends with.
PricesAreAudited ==
  \A p \in MenuProducts :
    Found(p) => catalog[p].price = audited[p] \/ p \in disturbed \/ In(p, {"drop", "note"})
\* The database never has to refuse what the checks let through.
ChecksSuffice == \A rows \in refused : rows \cap disturbed # {}
MenuStands == ShownIsCurrent /\ PricesAreAudited /\ ChecksSuffice
=============================================================================

------------------------------- MODULE MCStock -------------------------------
(* Small instances of Stock. *)
EXTENDS Stock, TLC
CONSTANTS flour, dough, cheese, cake, kitchen, store, pizza, bread, m1, m2

Few == (<<flour, store>> :> 2) @@ (<<flour, kitchen>> :> 1) @@ (<<dough, kitchen>> :> 2)
       @@ (<<cheese, kitchen>> :> 1) @@ [x \in Goods \X Places |-> 0]
FewBatches == <<[good |-> flour, place |-> store, qty |-> 2],
                [good |-> flour, place |-> kitchen, qty |-> 1]>>
Dishes == (pizza :> Plus(Just(dough, 1), Just(cheese, 1))) @@ (bread :> Just(dough, 1))
SmallBaskets == {(pizza :> 1) @@ (bread :> 0), (pizza :> 1) @@ (bread :> 1),
                 (pizza :> 0) @@ (bread :> 2)}
Plans == (m1 :> Just(flour, 1)) @@ (m2 :> Just(dough, 1))
Made == (m1 :> dough) @@ (m2 :> cake)
Amounts == (m1 :> {1, 2}) @@ (m2 :> {1})
Extra == (m1 :> Nothing) @@ (m2 :> Just(cheese, 1))

Settings(n, r, d, a) ==
  {s \in Setting : /\ s.negative \in n /\ s.reserve \in r /\ s.deduct \in d /\ s.approval \in a
                    /\ s.adjusts}
Unadjusted(ss) == {[s EXCEPT !.adjusts = FALSE] : s \in ss}
AnyStatus == {"PREPARING", "READY", "PAID"}
Once == Settings({FALSE}, {FALSE}, {"PREPARING"}, {TRUE})
ManyScenes ==
  {"orders"} :> Settings(BOOLEAN, BOOLEAN, AnyStatus, {TRUE})
  @@ {"orders", "edit"} :> (Settings({TRUE}, {FALSE}, AnyStatus, {TRUE})
                           \cup Settings({FALSE}, {TRUE}, {"PREPARING"}, {TRUE})
                           \cup Unadjusted(Settings({TRUE}, {FALSE}, {"PREPARING"}, {TRUE})))
  @@ {"orders", "reopen", "repay"} :> Settings({TRUE}, BOOLEAN, AnyStatus, {TRUE})
  @@ {"orders", "makes"} :> Settings({FALSE}, {TRUE}, {"PAID"}, {TRUE})
  @@ {"makes"} :> Once
  @@ {"makes", "odd_cancel"} :> Once
  @@ {"makes", "two_completes"} :> Once
  @@ {"moves", "makes"} :> Once
  @@ {"moves", "cancel_in_transit", "relocate"} :> Once
  @@ {"buys"} :> Once
  @@ {"buys", "lot_clash"} :> Once
  @@ {"buys", "late_delivery"} :> Once
  @@ {"counts", "recount"} :> Settings({FALSE}, {FALSE}, {"PREPARING"}, BOOLEAN)
  @@ {"orders", "hands"} :> Settings({FALSE}, {TRUE}, {"PREPARING"}, {TRUE})
  @@ {"counts", "hands", "moved_while_counted"} :> Once
EditCancel == {"orders", "edit", "edit_cancel"} :> Once
=============================================================================

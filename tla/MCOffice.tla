------------------------------- MODULE MCOffice -------------------------------
(* Small instances of the components of the office. *)
EXTENDS Office
CONSTANTS c1, c2, c3, soup, cake, ann

\* Discounts: half of a bill of at least 20, once, beside others; 60 off, once a guest, alone;
\* and a code that is made, for half of the cakes.
Prices == (soup :> 10) @@ (cake :> 20)
Terms(value, cap, least, targets, limit, each, stackable, days) ==
  [value |-> value, cap |-> cap, least |-> least, buy |-> 1, get |-> 1, free |-> {cake},
   targets |-> targets, limit |-> limit, each |-> each, stackable |-> stackable, days |-> days]
AtFirst ==
  (c1 :> Terms(50, 0, 20, {soup, cake}, 1, 0, TRUE, {1, 2}))
  @@ (c2 :> Terms(60, 0, 0, {soup, cake}, 0, 1, TRUE, {1}))
OnOffer == [c \in Codes |-> {Terms(50, 10, 0, {cake}, 0, 1, FALSE, {1})}]
SmallBills == {(soup :> 1) @@ (cake :> 1), (soup :> 2) @@ (cake :> 0)}

\* HR: a wage of 2; the third day is in the next year.
Wages == ann :> 2
DayYear == <<1, 1, 2>>

\* A bill whose discount does not divide among its lines, and a small one.
SmallTickets == {[lines |-> <<10, 10, 10>>, total |-> 20], [lines |-> <<5>>, total |-> 5]}
\* Two notices of one kind; two meals of one guest.
OneBucket == ("n1" :> "daily") @@ ("n2" :> "daily")
WhoseMeal == ("m1" :> "p") @@ ("m2" :> "p") @@ ("m3" :> "-")
\* A list of rows may name an item that does not exist.
AskedLists == {<<"i1">>, <<"i1", "ghost">>, <<"ghost", "i1">>}
=============================================================================

------------------------------- MODULE MCOrders -------------------------------
(* Small instances of Orders: prices, tables and the surfaces that are open. *)
EXTENDS Orders

CONSTANTS i1, i2, o1, o2, t1

OnePrice == [i \in Items |-> 1]
WholeSoums == [i \in Items |-> IF i = i1 THEN Unit ELSE 0]
NoTables == [o \in Orders |-> NoTable]
FirstAtTable == [o \in Orders |-> IF o = o1 THEN t1 ELSE NoTable]

\* Only the till, and the admin cancelling.
CancelNext ==
  \E o \in Orders :
    \/ \E b \in Baskets : CreateOrder(o, b, NoStaff)
    \/ \E t \in Tenders(order[o].total_amount) : MarkAsPaid(o, NoStaff, 0, t)
    \/ UpdateOrderStatus(o, "CANCELED") \/ AdminUpdateStatus(o, "CANCELED")
CancelSpec == Init /\ [][CancelNext]_vars
=============================================================================

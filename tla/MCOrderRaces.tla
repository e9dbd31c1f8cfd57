----------------------------- MODULE MCOrderRaces -----------------------------
(* Small instances of OrderRaces. *)
EXTENDS OrderRaces

CONSTANTS i1, i2, o1, w1, w2

OnePrice == [i \in Items |-> 1]
TwoAtWork ==
  [d \in OfficeWork |-> CASE d \in {"none", "pair"} -> Workers [] d = "alone" -> {} [] OTHER -> {w1}]
OneForTheOffice ==
  [d \in OfficeWork |-> [i \in Items |-> IF d \notin {"edit", "save"} THEN 1
                                       ELSE IF i # i1 THEN 0 ELSE IF d = "edit" THEN 2 ELSE 1]]
NoTables == [o \in Orders |-> NoTable]
=============================================================================

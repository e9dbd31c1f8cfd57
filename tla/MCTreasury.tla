------------------------------ MODULE MCTreasury ------------------------------
(* Small instances of Treasury. *)
EXTENDS Treasury

CONSTANTS
  w1, w2,
  FewRows  \* bound: ledger rows, unless the books were opened

\* One inkassa brought cash and card money and opened both accounts: from then on opposite
\* transfers can meet, and there is room for them.
OpeningRow(r) == [account |-> r, type |-> "INKASSA", delta |-> 1, fee |-> 0,
                  before |-> 0, after |-> 1]
Opened ==
  /\ Len(ledger) >= 2 /\ ledger[1] = OpeningRow(1) /\ ledger[2] = OpeningRow(2)
  /\ Of("SAFE") = {1} /\ Of("BANK") = {2}
  /\ \A w \in Workers : \A j \in DOMAIN task[w].held : task[w].held[j].row \in {1, 2}
  /\ screen = "ok"
\* The screen looks for a missing account while there are fewer rows still.
Room == Len(ledger) + InFlight <= (IF screen \in Kind THEN 1 ELSE FewRows) \/ Opened
SmallSpec == Init /\ [][Next /\ Room']_vars /\ Fairness
=============================================================================

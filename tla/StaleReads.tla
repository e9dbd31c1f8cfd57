------------------------------ MODULE StaleReads ------------------------------
(***************************************************************************)
(* What an unlocked handler may have read. On SQLite a writing handler runs *)
(* alone and reads the rows as they are; on PostgreSQL it may have read a   *)
(* row before another handler changed it. One handler at a time holds such  *)
(* a copy, and what it then writes over a row that is no longer that copy   *)
(* is recorded, so that properties can say what they rest on.               *)
(***************************************************************************)
EXTENDS Integers, FiniteSets

VARIABLES
  copy,      \* <<document, row>> as a handler read it, or NoCopy
  spoiled    \* documents written by a handler whose copy was out of date

NoCopy == <<>>
StaleInit == copy = NoCopy /\ spoiled = {}

\* Bound: one copy that goes out of date in a behaviour.
Fetch(doc, row) == copy = NoCopy /\ spoiled = {} /\ copy' = <<doc, row>> /\ UNCHANGED spoiled

\* The rows a handler that takes no lock may work from.
Seen(doc, row) == {row} \cup IF copy # NoCopy /\ copy[1] = doc THEN {copy[2]} ELSE {}

\* The handler is done: an outdated copy is used up and its document marked.
Worked(doc, row, seen) ==
  IF seen = row THEN UNCHANGED <<copy, spoiled>>
  ELSE copy' = NoCopy /\ spoiled' = spoiled \cup {doc}
=============================================================================

-------------------------------- MODULE Drawer --------------------------------
(***************************************************************************)
(* What the till promises about cash, without saying how orders are kept:  *)
(* a bill is settled at most once, the drawer grows by the cash it brought *)
(* and, when the bill is voided, shrinks by that same cash.                *)
(***************************************************************************)
EXTENDS Integers, FiniteSets, FiniteSetsExt

CONSTANTS Orders, MaxTotal

VARIABLES
  phase,     \* "due", "settled" or "void"
  held,      \* the cash each bill has in the drawer
  register   \* CashRegister.current_balance

vars == <<phase, held, register>>

Init ==
  /\ phase = [o \in Orders |-> "due"]
  /\ held = [o \in Orders |-> 0]
  /\ register = 0

Settle(o, cash) ==
  /\ phase[o] = "due"
  /\ phase' = [phase EXCEPT ![o] = "settled"]
  /\ held' = [held EXCEPT ![o] = cash]
  /\ register' = register + cash

Void(o) ==
  /\ phase[o] # "void"
  /\ phase' = [phase EXCEPT ![o] = "void"]
  /\ held' = [held EXCEPT ![o] = 0]
  /\ register' = register - held[o]

Next == \E o \in Orders : Void(o) \/ \E cash \in 0..MaxTotal : Settle(o, cash)

Spec == Init /\ [][Next]_vars
=============================================================================

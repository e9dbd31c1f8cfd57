-------------------------------- MODULE MCSync --------------------------------
(* Small instances of Sync. *)
EXTENDS Sync, TLC
CONSTANTS order, line, user, place, table
Origins == (order :> "branch") @@ (line :> "branch") @@ (user :> "hub") @@
            (place :> "hub") @@ (table :> "hub")
Parents == (order :> None) @@ (line :> order) @@ (user :> None) @@
            (place :> None) @@ (table :> place)
\* The place was edited after its table was.
Installed == <<table, user, place>>

\* How many saves each set of complications is explored with.
Budgets ==
  {"lost_hook"} :> 2 @@ {"lock_expires", "lost_hook"} :> 1 @@ {"delete"} :> 1
  @@ {"shared", "delete"} :> 2 @@ {"shared", "delete", "products"} :> 2
  @@ {"crash", "shared"} :> 1
  @@ {"late_answer", "unreachable"} :> 1 @@ {"rejects"} :> 2 @@ {"cleared"} :> 1
  @@ {"busy", "delayed_hook", "overreach"} :> 2
  @@ {"late_commit", "deferred_lost", "crash", "unreachable"} :> 1
Busy == {"busy"} :> 2
=============================================================================

----------------------------- MODULE SyncRecords -----------------------------
(***************************************************************************)
(* The records a branch (the till) and the cloud (the hub) replicate:      *)
(* SyncMixin, which numbers and stamps every save, and the two ingest      *)
(* paths, CloudReceiver at the hub and from_sync_dict at the till.         *)
(*                                                                         *)
(* A row's content is one ordinary field and one (price) the hub owns for  *)
(* its own catalogue, SYNC_DENY_FROM_BRANCH, so that one row stands for    *)
(* any model; a value is the edit that wrote it. Orders and their lines    *)
(* are created by the branch, places, tables, categories and users by the  *)
(* hub. synced stands for synced_at: 0 is NULL, the hub's stamps count up, *)
(* a branch's only matter as non-NULL.                                     *)
(***************************************************************************)
EXTENDS Integers, Sequences, FiniteSetsExt

CONSTANTS
  Records,    \* uuids
  Origin,     \* the node that creates the record: "branch" or "hub"
  Parent,     \* its required foreign key, or None
  Catalogue,  \* the records the hub has when the branch is installed, by their last save
  Budget,     \* bound: saves by users, for each set of complications considered
  None

Nodes == {"branch", "hub"}
Level(u) == IF Parent[u] = None THEN 1 ELSE 2    \* its model's place in SYNC_ORDER

\* Writes while a push runs; the on_commit hook delayed after its commit; the hook
\* failing, or not registered; the queue cleared; branch edits of the hub's records and
\* hub edits of the branch's; deletions; the hub unreachable, answering too late, or
\* rejecting parents; workers that die, or outlive their lock; the hub writing, or
\* committing late, while it serves /changes; a pull that ends early with records
\* deferred; the hub's records with a parent being products.
Complication ==
  {"busy", "delayed_hook", "lost_hook", "cleared", "shared", "overreach", "delete",
   "unreachable", "late_answer", "rejects", "crash", "lock_expires", "late_commit",
   "deferred_lost", "products"}

ASSUME SyncAssumption ==
  /\ IsFiniteSet(Records)
  /\ Origin \in [Records -> Nodes]
  /\ Parent \in [Records -> Records \cup {None}] /\ None \notin Records
  /\ \A u \in Records : Parent[u] # None => Parent[Parent[u]] = None
  /\ Catalogue \in Seq(Records)
  /\ LET installed == {Catalogue[k] : k \in DOMAIN Catalogue}
     IN  \A u \in installed : Origin[u] = "hub" /\ Parent[u] \in installed \cup {None}
  /\ DOMAIN Budget \subseteq SUBSET Complication
  /\ Budget \in [DOMAIN Budget -> Nat]

VARIABLES
  world,    \* the complications of this behaviour
  till,     \* the branch's table: a row per record, or NoRow
  hub,      \* the cloud's table
  clock,    \* stamps the cloud handed out
  edits     \* saves so far

recordVars == <<world, till, hub, clock, edits>>

Value == Nodes \X Nat
NoRow == [version |-> 0, val |-> <<"hub", 0>>, price |-> <<"hub", 0>>, deleted |-> FALSE,
          branch |-> "hub", synced |-> 0]
Row == [version : Nat, val : Value, price : Value, deleted : BOOLEAN, branch : Nodes,
        synced : Nat]
Exists(row) == row.version > 0
Rows == UNION {[us -> Row] : us \in SUBSET Records}    \* tables of some records

RecordsInit ==
  /\ world \in DOMAIN Budget
  /\ till = [u \in Records |-> NoRow]
  /\ hub = [u \in Records |-> [NoRow EXCEPT
              !.version = IF \E k \in DOMAIN Catalogue : u = Catalogue[k] THEN 1 ELSE 0,
              !.synced = Max({0} \cup {k \in DOMAIN Catalogue : u = Catalogue[k]})]]
  /\ clock = Len(Catalogue)
  /\ edits = 0

-----------------------------------------------------------------------------
(* SyncMixin.save, when a user's request saves.                            *)

Change == {"val", "price", "deleted"}
\* The row after node saved it: a create, or a change of one field.
Saved(node, row, what, stamp) ==
  LET value == <<node, edits + 1>>
      base == [row EXCEPT !.version = @ + 1, !.synced = stamp]
  IN  IF ~Exists(row)
        THEN [base EXCEPT !.val = value, !.price = value, !.branch = node]
        ELSE [base EXCEPT !.val = IF what = "val" THEN value ELSE @,
                          !.price = IF what = "price" THEN value ELSE @,
                          !.deleted = @ \/ what = "deleted"]

\* What users may do to record u of table t at node.
Editable(node, t, u, what) ==
  /\ edits < Budget[world]
  /\ ~t[u].deleted
  /\ what = "deleted" => Exists(t[u]) /\ "delete" \in world
  /\ what = "price" => Exists(t[u]) /\ Origin[u] = "hub"
  /\ ~Exists(t[u]) => Origin[u] = node /\ what = "val"
  /\ Origin[u] # node => IF node = "branch" THEN "shared" \in world ELSE "overreach" \in world
  /\ Parent[u] # None => Exists(t[Parent[u]])

-----------------------------------------------------------------------------
(* The two ingest paths.                                                   *)

\* _should_replace: on a tie the hub accepts, a branch accepts what it does not own.
ShouldReplace(node, row, p) ==
  \/ p.version > row.version
  \/ p.version = row.version /\ (node = "hub" \/ row.branch # "branch")

\* A product's own from_sync_dict lets a live record revive a row the branch deleted.
Revivable(node, u) ==
  node = "branch" /\ "products" \in world /\ Parent[u] # None /\ Origin[u] = "hub"

\* (mutant) a live record revives a deleted row
AcceptsAlive(node, u, row, p) == ~Exists(row) \/ ShouldReplace(node, row, p)
Accepts(node, u, row, p) ==
  \/ ~Exists(row)
  \/ ShouldReplace(node, row, p) /\ (row.deleted => p.deleted \/ Revivable(node, u))

\* (mutant) foreign keys of unknown parents are left NULL
Lenient(t, u) == FALSE
\* A required foreign key that cannot be resolved.
Missing(t, u) == Parent[u] # None /\ ~Exists(t[Parent[u]])

\* The row after an accepted record: a new row keeps required denied fields and belongs
\* to its sender, an existing one keeps its owner and, at the hub, its price.
Merged(node, u, row, p, stamp) ==
  [p EXCEPT !.branch = IF Exists(row) THEN row.branch
                       ELSE IF node = "hub" THEN "branch" ELSE p.branch,
            !.price = IF Exists(row) /\ node = "hub" /\ Origin[u] = "hub"
                        THEN row.price ELSE @,
            !.synced = stamp]

\* Table t of node after the records in batch (a partial function) of one model.
Applied(node, t, batch, stamp) ==
  [u \in Records |->
     IF u \in DOMAIN batch /\ ~Missing(t, u) /\ Accepts(node, u, t[u], batch[u])
       THEN Merged(node, u, t[u], batch[u], stamp)
       ELSE t[u]]

Content(row) == <<row.version, row.val, row.price, row.deleted>>
\* The two nodes agree on u.  A tombstone whose parent never came is not stored.
Same(u) ==
  \/ Content(till[u]) = Content(hub[u])
  \/ \A row \in {till[u], hub[u]} : Exists(row) => row.deleted
=============================================================================
